----------------------------- MODULE RangeScan -----------------------------
(* A scan of byte ranges of one file (detector.go ScanRangesWithOptions),   *)
(* which -fs gives the extents of deleted entries and -unallocated-only the *)
(* free extents: one pipeline for each range in turn, one journal for the   *)
(* list. A resume re-reads every byte it will not scan again. The list is   *)
(* worked out again from the volume at each start, and the volume may have  *)
(* changed. Offsets count blocks from 0; a hash of a span is the sequence   *)
(* of its blocks' versions.                                                 *)
EXTENDS Naturals, Sequences, SequencesExt

CONSTANTS
  Blocks,      \* blocks in the file
  Versions,    \* what a block may hold
  Layouts,     \* the range lists the volume may present
  MaxRuns, MaxKills, MaxEdits   \* bounds

(* An empty range has nothing to scan or to prove, and is left out.         *)
ASSUME LayoutAssumption ==
  /\ Blocks \in Nat
  /\ \A l \in Layouts : /\ l \in Seq([start : Nat, len : Nat \ {0}])
                        /\ \A i \in 1..Len(l) : l[i].start + l[i].len <= Blocks

VARIABLES
  disk,      \* [bytes, ident, layout]
  journal,   \* the checkpoint: Absent, Foreign, Torn, or a range journal
  pc, list,  \* the process, and the ranges it was given
  idx, from, \* the range it is at, and the point it resumed at
  acc,       \* the proofs of the ranges finished so far (rangeProofAcc)
  active,    \* the hash a verified plan seeds the first range with
  scan,      \* the pipeline over a range
  seen,      \* history: <<block, version>> delivered
  runs, kills, edits

vars == <<disk, journal, pc, list, idx, from, acc, active, scan, seen, runs, kills, edits>>
bounds == <<runs, kills, edits>>

Absent == [kind |-> "absent"]
Foreign == [kind |-> "foreign"]    \* of a whole-file scan
Torn == [kind |-> "torn"]          \* ReadCheckpoint refuses a proof in it
Nothing == <<>>
NoScan == [start |-> 0, pos |-> 0, hashed |-> <<>>, filed |-> 0, flight |-> {}]

End(r) == r.start + r.len
Span(start, len) == SubSeq(disk.bytes, start + 1, start + len)
BlocksOf(r) == r.start..(End(r) - 1)

rewindOffset(start, o) == IF o <= start + 1 THEN start ELSE o - 1

-----------------------------------------------------------------------------
(* A plan from a journal.                                                   *)

(* readRangeResume: what it refuses outright.                               *)
Acceptable(j, l) ==
  /\ j.kind = "ranges" /\ j.list = l /\ j.index <= Len(l)
  /\ j.index > 0 /\ j.offset >= l[j.index].start /\ j.offset <= End(l[j.index])

\* Faulty: a proof of the right length is taken for the bytes.
VerifiedByLength(j, i) ==
  /\ i <= Len(j.proofs)
  /\ j.proofs[i].index = i /\ j.proofs[i].start = j.list[i].start
  /\ Len(j.proofs[i].hash) = j.list[i].len

(* The completed ranges of the journal that verify, in order, before the    *)
(* first that does not.                                                     *)
Verified(j, i) ==
  /\ i <= Len(j.proofs)
  /\ j.proofs[i].index = i /\ j.proofs[i].start = j.list[i].start
  /\ Len(j.proofs[i].hash) = j.list[i].len
  /\ Span(j.list[i].start, j.list[i].len) = j.proofs[i].hash

FirstUnverified(j) ==
  CHOOSE i \in 1..j.index :
    /\ i = j.index \/ ~Verified(j, i)
    /\ \A k \in 1..(i - 1) : Verified(j, k)

(* verifyRangePlan: where to start, what is already proven, and the hash of *)
(* the active range up to its point; a range that fails starts over.        *)
Restart(j, i) == [idx |-> i, from |-> j.list[i].start,
                  acc |-> SubSeq(j.proofs, 1, i - 1), active |-> Nothing]

ActiveProven(j) ==
  LET r == j.list[j.index]
  IN  /\ j.proof.start = r.start /\ Len(j.proof.hash) >= j.offset - r.start
      /\ Span(r.start, Len(j.proof.hash)) = j.proof.hash

\* Faulty: an active range that was journaled at its end is not kept as proven.
ActivePlanForgets(j) ==
  IF ~ActiveProven(j) THEN Restart(j, j.index)
  ELSE [idx |-> j.index, from |-> j.offset, active |-> j.proof.hash,
        acc |-> SubSeq(j.proofs, 1, j.index - 1)]

ActivePlan(j) ==
  LET r == j.list[j.index]
      done == SubSeq(j.proofs, 1, j.index - 1)
  IN  IF ~ActiveProven(j) THEN Restart(j, j.index)
      ELSE [idx |-> j.index, from |-> j.offset, active |-> j.proof.hash,
            acc |-> IF j.offset >= End(r) /\ Len(j.proof.hash) = r.len
                    THEN Append(done, [index |-> j.index, start |-> r.start, hash |-> j.proof.hash])
                    ELSE done]

FromScratch == [idx |-> 1, from |-> 0, acc |-> <<>>, active |-> Nothing]

Plan(j) ==
  IF j.ident # disk.ident THEN FromScratch
  ELSE LET i == FirstUnverified(j)
       IN  IF i < j.index THEN Restart(j, i) ELSE ActivePlan(j)

-----------------------------------------------------------------------------

Begin(l, plan) ==
  /\ pc' = "range" /\ list' = l
  /\ idx' = plan.idx /\ from' = plan.from /\ acc' = plan.acc /\ active' = plan.active

(* Enumerating gives the list of the moment. An empty one is a clean end    *)
(* unless a journal has to be checked against it. A resume without a journal*)
(* starts over; one whose journal is refused exits.                         *)
StartRun ==
  /\ pc = "off" /\ runs < MaxRuns
  /\ runs' = runs + 1
  /\ disk.layout # <<>>
  /\ \/ Begin(disk.layout, FromScratch)
     \/ Acceptable(journal, disk.layout) /\ Begin(disk.layout, Plan(journal))
  /\ UNCHANGED <<disk, journal, scan, seen, kills, edits>>

range == list[idx]

(* Everything in the list is done.                                          *)
Finish ==
  /\ pc = "range" /\ idx > Len(list)
  /\ pc' = "finished"
  /\ UNCHANGED <<disk, journal, list, idx, from, acc, active, scan, seen, bounds>>

(* The resumed range was journaled at its end.                              *)
SkipRange ==
  /\ pc = "range" /\ idx <= Len(list) /\ from >= End(range)
  /\ idx' = idx + 1 /\ from' = 0 /\ active' = Nothing
  /\ UNCHANGED <<disk, journal, pc, list, acc, scan, seen, bounds>>

OpenRange ==
  /\ pc = "range" /\ idx <= Len(list) /\ from < End(range)
  /\ LET s == IF from = 0 THEN range.start ELSE rewindOffset(range.start, from)
     IN  scan' = [NoScan EXCEPT !.start = s, !.pos = s, !.hashed = active, !.filed = s]
  /\ pc' = "scan" /\ from' = 0 /\ active' = Nothing
  /\ UNCHANGED <<disk, journal, list, idx, acc, seen, bounds>>

(* Blocks a seed already hashed are read again and not hashed again.        *)
ReadBlock ==
  /\ pc = "scan" /\ scan.pos < End(range)
  /\ LET v == disk.bytes[scan.pos + 1]
     IN  scan' = [scan EXCEPT
           !.pos = @ + 1,
           !.hashed = IF scan.pos - range.start >= Len(@) THEN Append(@, v) ELSE @,
           !.flight = @ \cup {<<scan.pos, v>>}]
  /\ UNCHANGED <<disk, journal, pc, list, idx, from, acc, active, seen, bounds>>

(* writeFrontier with a range list: writeCheckpointRange.                   *)
Frontier(offset, proofs) ==
  [kind |-> "ranges", list |-> list, index |-> idx, offset |-> offset, ident |-> disk.ident,
   proof |-> [start |-> range.start, hash |-> scan.hashed], proofs |-> proofs]

FileFrontier ==
  /\ pc = "scan" /\ scan.filed < scan.pos /\ scan.pos < End(range)
  /\ seen' = seen \cup scan.flight
  /\ journal' = Frontier(scan.pos, acc)
  /\ scan' = [scan EXCEPT !.filed = scan.pos, !.flight = {}]
  /\ UNCHANGED <<disk, pc, list, idx, from, acc, active, bounds>>

Proven == Append(acc, [index |-> idx, start |-> range.start, hash |-> scan.hashed])

(* scanBlocks at the end of the range: its end marker is already on its way *)
(* when the range's proof is added to the list.                             *)
RootEnds ==
  /\ pc = "scan" /\ scan.pos = End(range)
  /\ acc' = Proven
  /\ pc' = "ended"
  /\ UNCHANGED <<disk, journal, list, idx, from, active, scan, seen, bounds>>

(* The clean end: the receipt was waited for, so the proof is in.           *)
RangeDone ==
  /\ pc = "ended"
  /\ seen' = seen \cup scan.flight
  /\ journal' = Frontier(End(range), acc)
  /\ idx' = idx + 1 /\ pc' = "range" /\ scan' = NoScan
  /\ UNCHANGED <<disk, list, from, acc, active, bounds>>

(* The error return waits for nothing: it copies the proofs while the reader*)
(* may be appending, and sees the old list, the new one, or one length with *)
(* the other's array. It files the frozen point, or the start of the run.   *)
RangeFails ==
  /\ pc \in {"scan", "ended"}
  /\ \E o \in {scan.filed, scan.start} :
       \/ journal' = Frontier(o, acc)
       \/ pc = "scan" /\ scan.pos = End(range) /\ journal' \in {Frontier(o, Proven), Torn}
  /\ pc' = "off" /\ scan' = NoScan /\ acc' = <<>> /\ list' = <<>> /\ idx' = 1
  /\ UNCHANGED <<disk, from, active, seen, bounds>>

Kill ==
  /\ pc # "off" /\ kills < MaxKills
  /\ kills' = kills + 1
  /\ pc' = "off" /\ scan' = NoScan /\ acc' = <<>> /\ list' = <<>> /\ idx' = 1
  /\ from' = 0 /\ active' = Nothing
  /\ UNCHANGED <<disk, journal, seen, runs, edits>>

Exit ==
  /\ pc = "finished"
  /\ pc' = "off" /\ acc' = <<>> /\ list' = <<>> /\ idx' = 1
  /\ UNCHANGED <<disk, journal, from, active, scan, seen, bounds>>

(* The volume changes between runs; only some changes show in its metadata, *)
(* and on a device none do.                                                 *)
Edit ==
  /\ pc = "off" /\ edits < MaxEdits
  /\ edits' = edits + 1
  /\ \E b \in 1..Blocks, v \in Versions, l \in Layouts, i \in {disk.ident, edits + 2} :
       disk' = [bytes |-> [disk.bytes EXCEPT ![b] = v], layout |-> l, ident |-> i]
  /\ UNCHANGED <<journal, pc, list, idx, from, acc, active, scan, seen, runs, kills>>

Init ==
  /\ \E v \in Versions, l \in Layouts :
       disk = [bytes |-> [b \in 1..Blocks |-> v], layout |-> l, ident |-> 1]
  /\ journal \in {Absent, Foreign}
  /\ pc = "off" /\ list = <<>> /\ idx = 1 /\ from = 0 /\ acc = <<>> /\ active = Nothing
  /\ scan = NoScan /\ seen = {} /\ runs = 0 /\ kills = 0 /\ edits = 0

Next ==
  \/ StartRun \/ SkipRange \/ OpenRange \/ ReadBlock \/ FileFrontier \/ RootEnds
  \/ RangeDone \/ RangeFails \/ Finish \/ Exit \/ Kill \/ Edit

Spec == Init /\ [][Next]_vars

-----------------------------------------------------------------------------

(* A range scan that ends well, after whatever kills, failures, resumes and *)
(* changes of the volume came before, has delivered every block of its list *)
(* in the version it now holds (ScanRangesWithOptions, verifyRangePlan).    *)
ListCovered ==
  pc = "finished" =>
    \A i \in DOMAIN list : \A b \in BlocksOf(list[i]) : <<b, disk.bytes[b + 1]>> \in seen

(* While a range is scanned the accumulated proofs are those of exactly the *)
(* ranges before it, in order, hashed over what those ranges now hold: what *)
(* the next journal claims for a later resume (rangeProofAcc).              *)
ProofsFollowRanges ==
  pc \in {"range", "scan"} =>
    /\ Len(acc) = idx - 1 \/ (pc = "range" /\ Len(acc) = idx /\ from >= End(list[idx]))
    /\ \A i \in DOMAIN acc :
         acc[i] = [index |-> i, start |-> list[i].start, hash |-> Span(list[i].start, list[i].len)]

=============================================================================
