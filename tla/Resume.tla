------------------------------- MODULE Resume -------------------------------
(***************************************************************************)
(* A scan that is killed or cancelled at any point, or returns an error,   *)
(* and is started again from the journal it left: a sequence of runs of    *)
(* Pipeline over the same unchanged input.  Only the journal file and what *)
(* was already reported survive from one run to the next.                  *)
(***************************************************************************)
EXTENDS PipelineProps

CONSTANT MaxKills      \* bound: kills and cancellations

VARIABLES reported, kills

resumeVars == <<vars, reported, kills>>

\* The process starts again: adoptResume reads the journal the last one left.
StartRun ==
  /\ run' = adoptResume(journal)
  /\ scanTargets' = <<Root>> /\ zipQ' = <<>> /\ gzipQ' = <<>> /\ walletQ' = <<>>
  /\ pool' = PoolSize
  /\ rpc' = "recv" /\ stack' = <<>> /\ pos' = [t \in Targets |-> 0]
  /\ digestLen' = run'.proven /\ since' = 0 /\ rootErr' = FALSE
  /\ zpc' = "recv" /\ zHand' = Nothing /\ zTodo' = {} /\ zNew' = 0 /\ zSlot' = {}
  /\ openedZ' = 0 /\ pending' = {} /\ published' = {}
  /\ gpc' = "recv" /\ gHand' = Nothing /\ gTodo' = {} /\ gNew' = 0 /\ gSlot' = {} /\ openedG' = 0
  /\ wpc' = "recv" /\ wHand' = Nothing
  /\ acked' = FALSE /\ rootDone' = "none" /\ final' = "none" /\ signaled' = FALSE
  /\ outstanding' = 1 /\ refused' = {} /\ deferredSkipped' = FALSE /\ poisoned' = {}
  /\ mpc' = "select" /\ outcome' = "running" /\ canceled' = FALSE
  /\ covered' = run'.bank
  /\ lastFiled' = 0 /\ admitted' = {Root} /\ delivered' = {}
  /\ UNCHANGED journal
  /\ reported' = reported \cup delivered

\* SIGKILL between any two steps of any goroutine.
Kill == /\ outcome = "running" /\ kills < MaxKills
        /\ kills' = kills + 1
        /\ StartRun

\* The user stops the scan; the bound counts it as a kill.
Stop == /\ kills < MaxKills /\ kills' = kills + 1
        /\ Cancel /\ UNCHANGED reported

\* The caller tries again after an error return or a cancellation.
Retry == outcome \in {"error", "canceled"} /\ StartRun /\ UNCHANGED kills

\* A scan that completed is not started again.
Step == (Reader \/ Zip \/ Gzip \/ Wallet \/ Main) /\ UNCHANGED <<reported, kills>>

Finished == outcome = "complete" /\ Gone /\ UNCHANGED resumeVars

ResumeInit == Init /\ reported = {} /\ kills = 0

ResumeNext == Step \/ Stop \/ Kill \/ Retry \/ Finished

ResumeSpec ==
  /\ ResumeInit /\ [][ResumeNext]_resumeVars
  /\ WF_resumeVars(Reader /\ UNCHANGED <<reported, kills>>)
  /\ WF_resumeVars(Zip /\ UNCHANGED <<reported, kills>>)
  /\ WF_resumeVars(Gzip /\ UNCHANGED <<reported, kills>>)
  /\ WF_resumeVars(Wallet /\ UNCHANGED <<reported, kills>>)
  /\ WF_resumeVars(Main /\ UNCHANGED <<reported, kills>>)
  /\ WF_resumeVars(Retry)

-----------------------------------------------------------------------------

\* What the input as a whole holds: what a fresh run would have to read.
DueEver[t \in Targets] ==
  \/ t = Root
  \/ /\ DueEver[Source[t]]
     /\ Source[t] \notin Unopenable /\ FoundAt[t] \in 1 .. NBlocks[Source[t]]
     /\ Readable(Source[t], 0, FoundAt[t])
     /\ ~TooDeep(t) /\ t \notin TooBig
     /\ Kind[t] = "entry" => Orphan(t)

BlocksEver(t) ==
  IF t \in Unopenable THEN {} ELSE {n \in 1 .. NBlocks[t] : Readable(t, 0, n)}

\* When a scan completes, every block the input holds was reported by that
\* run or by an earlier one: no kill, refusal or resume point loses any,
\* the root's own torn-off entries apart (FrontierStrandsNothing).
NothingLostAcrossRuns ==
  outcome = "complete" =>
    \A t \in Targets \ RootEntries :
      DueEver[t] => \A n \in BlocksEver(t) : <<t, n>> \in reported \cup delivered

\* Retries at the same cap converge: each one banks members the next defers,
\* so a scan whose input can be read completes in the end.
RetriesConverge == <>(outcome = "complete")
=============================================================================
