------------------------------ MODULE MCResume ------------------------------
(* One of the inputs, for sequences of runs. *)
EXTENDS Resume, ScanInputs

None  == Sound(Targets)
Fresh == {NoJournal}
=============================================================================
