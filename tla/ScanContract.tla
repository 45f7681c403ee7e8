---------------------------- MODULE ScanContract ----------------------------
(***************************************************************************)
(* What a scan promises its caller, with no stages, queues or gate in it:  *)
(* blocks are reported once each and in an order that never runs ahead of  *)
(* what reveals them, completion means that everything due was reported,   *)
(* and nothing is reported after a scan has completed or failed.           *)
(***************************************************************************)
CONSTANTS
  Blocks,      \* every block of every target
  Precedes     \* pairs <<b, c>>: if b is due it is reported before c

VARIABLES due, told, outcome

contractVars == <<due, told, outcome>>

ContractInit ==
  /\ due \subseteq Blocks
  /\ told = {}
  /\ outcome = "running"

\* A cancelled scan may report what was under way when it returned.
Report(b) ==
  /\ outcome \in {"running", "canceled"}
  /\ b \notin told
  /\ \A c \in due : <<c, b>> \in Precedes => c \in told
  /\ told' = told \cup {b}
  /\ UNCHANGED <<due, outcome>>

Complete == /\ outcome = "running" /\ due \subseteq told
            /\ outcome' = "complete" /\ UNCHANGED <<due, told>>

GiveUp == /\ outcome = "running"
          /\ outcome' \in {"error", "canceled"} /\ UNCHANGED <<due, told>>

ContractNext == (\E b \in Blocks : Report(b)) \/ Complete \/ GiveUp

ContractSpec == ContractInit /\ [][ContractNext]_contractVars
=============================================================================
