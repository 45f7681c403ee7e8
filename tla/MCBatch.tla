------------------------------ MODULE MCBatch ------------------------------
(* Two files of two blocks under two sets of run options; or one longer file. *)
EXTENDS Batch, TLC

CONSTANTS u, v, p, q

TwoFiles == <<"a", "b">>
OneFile == <<"a">>

\* Versions and options are only compared.
Interchangeable == Permutations(Versions) \cup Permutations(Profiles)
============================================================================
