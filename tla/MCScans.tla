------------------------------- MODULE MCScans -------------------------------
(***************************************************************************)
(* Three components that read one target or list of ranges, each on a      *)
(* small instance: a behaviour is one of RangeScan, Piped or Detector, and *)
(* the variables of the others rest.                                       *)
(***************************************************************************)
EXTENDS RangeScan, Piped, Detector, Integers, FiniteSets, TLC

VARIABLE part   \* the component that runs

allVars == <<part, vars, pipeVars, matchVars>>

-----------------------------------------------------------------------------

\* A file of 4 blocks. The lists a volume may present: two ranges with a gap, two
\* that overlap, none. Three processes, two kills, one change of the volume.
Lists == {<<[start |-> 0, len |-> 2], [start |-> 3, len |-> 1]>>,
          <<[start |-> 0, len |-> 3], [start |-> 2, len |-> 2]>>, <<>>}

RangesRest == Init /\ journal = Absent /\ disk.layout = <<>> /\ disk.bytes[1] = "u"

OfRanges == part = "ranges" /\ UNCHANGED <<part, pipeVars, matchVars>>

NextRanges ==
  \/ OfRanges /\ StartRun
  \/ OfRanges /\ SkipRange
  \/ OfRanges /\ OpenRange
  \/ OfRanges /\ ReadBlock
  \/ OfRanges /\ FileFrontier
  \/ OfRanges /\ RootEnds
  \/ OfRanges /\ RangeDone
  \/ OfRanges /\ RangeFails
  \/ OfRanges /\ Finish
  \/ OfRanges /\ Exit
  \/ OfRanges /\ Kill
  \/ OfRanges /\ Edit

-----------------------------------------------------------------------------

\* Pipes below, at and above a cap of 5 bytes, read by at most 3.
PipeRests == PipeInit /\ bytes = 0 /\ patch = FALSE

OfPipe == part = "pipe" /\ UNCHANGED <<part, vars, matchVars>>

NextPipe ==
  \/ OfPipe /\ Start
  \/ OfPipe /\ SpillRead
  \/ OfPipe /\ SpillCanceled
  \/ OfPipe /\ Report
  \/ OfPipe /\ PipelineEnds
  \/ OfPipe /\ Reread
  \/ OfPipe /\ Deliver
  \/ OfPipe /\ Cancel

-----------------------------------------------------------------------------

\* Texts of 8 characters, letters or not, in blocks of 4 with an overlap of 3: a
\* word and the end of a longer one, a key in a run, matches that overlap.
MatchTexts  == [1 .. 8 -> {"y", "-"}]
NeedleBytes == <<"-", "-">>
ObjectBytes == <<"-", "y", "-">>
HeaderBytes == <<"-", "y">>
KeyBytes    == <<"y", "y">>
TokenBytes  == <<"y", "y", "y">>
WordList    == {<<"y">>}

MatchRests == MatchInit /\ start = 0 /\ text = [i \in 1 .. 8 |-> "-"]

OfMatch == part = "match" /\ UNCHANGED <<part, vars, pipeVars>>

NextMatch ==
  \/ OfMatch /\ SendBlock
  \/ OfMatch /\ SkipUnreadable
  \/ OfMatch /\ EndOfTarget
  \/ OfMatch /\ detectWallets

-----------------------------------------------------------------------------

OneRuns ==
  \/ part = "ranges" /\ Init /\ PipeRests /\ MatchRests
  \/ part = "pipe" /\ PipeInit /\ RangesRest /\ MatchRests
  \/ part = "match" /\ MatchInit /\ RangesRest /\ PipeRests

Step == NextRanges \/ NextPipe \/ NextMatch
Scans == OneRuns /\ [][Step]_allVars
==============================================================================
