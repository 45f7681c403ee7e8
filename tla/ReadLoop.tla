------------------------------ MODULE ReadLoop ------------------------------
(* How the bytes of one scan are read, hashed and vouched for: the inner    *)
(* loop of readTarget with its retries, gaps and overlap, over the root and *)
(* then over targets stored in it; the recorder of detector/caselog.go; and *)
(* VerifyCaseLog (detector/verify.go) run later over the same media.        *)
(* A cell is a fixed part of a block; its content is a version.             *)
EXTENDS Integers, Sequences, FiniteSets

CONSTANTS
  Media,       \* cells of the root file
  BlockSize,       \* cells in a block (blockSize)
  Overlap,     \* cells carried over to the next block (scanOverlap)
  Starts,      \* start offsets a scan may be given, at least 0
  Kinds,       \* kinds of root: "raw", "range", "stdin"
  Bad,         \* cells that never read
  Flaky,       \* cells that may or may not
  Stored,      \* a stored zip entry: [base, size] in the root
  Stream,      \* cells of a gzip stream in the root
  Cut,         \* cells of that stream that read, before it breaks off
  MaxEdits     \* bound: cells of the media altered

(* scanOverlap and blockSize are fixed; a start is an offset.               *)
ASSUME ReadAssumption ==
  /\ Media \in Nat /\ BlockSize \in Nat \ {0} /\ Overlap \in Nat
  /\ Starts \subseteq Nat /\ Kinds \subseteq {"raw", "range", "stdin"}
  /\ Stored \in [base : Nat, size : Nat] /\ Stream \in Nat /\ Cut \in Nat

Gap == 0       \* what a fresh buffer holds
None == <<>>

VARIABLES
  media,     \* cell -> version
  start, kind,
  target,    \* "root", then "stored", "gzip" and "entry" (stored in the gzip)
  pc,        \* the reader: "open", "read", "eof", "over" or "panicked"
  currentOffset,
  tail, haveTail,
  sent,      \* history: the block sent last, [off, len, data], or None
  short,     \* history: a block of this target was shorter than the overlap
  hashed,    \* the recorder: <<cell, version>> in the order hashed
  skipped,   \* the recorder: [target, lo, hi] of every bad range reported
  stopped,
  log,       \* the case log: its records
  edits

vars == <<media, start, kind, target, pc, currentOffset, tail, haveTail, sent, short,
          hashed, skipped, stopped, log, edits>>
scan == <<target, pc, currentOffset, tail, haveTail, sent, short, hashed, skipped>>

Cells == 1 .. Media

-----------------------------------------------------------------------------
(* What a target reads: cell i of it (from 0) is a cell of the media, or of *)
(* the stream, which has numbers of its own.                                *)
InGzip == target \in {"gzip", "entry"}
CellOf(t, i) == CASE t = "root"   -> i + 1
                  [] t = "stored" -> Stored.base + i + 1
                  [] OTHER        -> Media + i + 1
CellAt(i) == CellOf(target, i)
Size == CASE target = "root"   -> Media
          [] target = "stored" -> Stored.size
          [] OTHER             -> Stream

(* A gzip reader seeks nowhere but to its start; files, ranges and sections *)
(* of them do.                                                              *)
Seekable == target # "gzip"
FailsAt(i, flaky) == IF InGzip THEN i >= Cut ELSE CellAt(i) \in Bad \cup flaky

(* io.ReadFull at offset o: the cells read, and how it ended.               *)
ReadFull(o, flaky) ==
  LET left == IF o < Size THEN Size - o ELSE 0
      most == IF left < BlockSize THEN left ELSE BlockSize
      good == {k \in 0 .. most : \A i \in o .. o + k - 1 : ~FailsAt(i, flaky)}
      n    == CHOOSE k \in good : \A j \in good : j <= k
  IN [n |-> n, err |-> IF n = BlockSize THEN "none" ELSE IF n = most THEN "end" ELSE "bad"]

(* retryBlockRead: the last of a few attempts, which need not fail alike.   *)
Attempts(o) == {ReadFull(o, f) : f \in SUBSET Flaky}

-----------------------------------------------------------------------------
(* The block a read of n cells at currentOffset makes, behind the overlap.            *)
prefix == IF haveTail THEN Overlap ELSE 0
Fresh(n) == [i \in 1 .. n |-> CellAt(currentOffset + i - 1)]
MakeBlock(n) ==
  [off |-> currentOffset - prefix, len |-> prefix + n,
   data |-> (IF haveTail THEN tail ELSE <<>>) \o Fresh(n)]

(* The overlap is copied from a block at least that long; a shorter one     *)
(* leaves what the buffer held.                                             *)
NextTail(b) == IF b.len >= Overlap THEN SubSeq(b.data, b.len - Overlap + 1, b.len) ELSE tail

(* hash: the bytes newly read from the root.                                *)
Hashable(n) == [i \in 1 .. n |-> <<CellAt(currentOffset + i - 1), media[CellAt(currentOffset + i - 1)]>>]

\* Faulty: a short read advances by a whole block.
DeliverWhole(r) ==
  /\ sent' = MakeBlock(r.n)
  /\ short' = (short \/ MakeBlock(r.n).len < Overlap)
  /\ tail' = NextTail(MakeBlock(r.n)) /\ haveTail' = TRUE
  /\ currentOffset' = currentOffset + BlockSize
  /\ hashed' = IF target = "root" THEN hashed \o Hashable(r.n) ELSE hashed
  /\ pc' = IF r.err = "end" \/ (r.err = "bad" /\ ~Seekable) THEN "eof" ELSE "read"
  /\ UNCHANGED skipped

Deliver(r) ==
  LET b == MakeBlock(r.n) IN
  /\ sent' = b
  /\ short' = (short \/ b.len < Overlap)
  /\ tail' = NextTail(b) /\ haveTail' = TRUE
  /\ currentOffset' = currentOffset + r.n
  /\ hashed' = IF target = "root" THEN hashed \o Hashable(r.n) ELSE hashed
  /\ pc' = IF r.err = "end" \/ (r.err = "bad" /\ ~Seekable) THEN "eof" ELSE "read"
  /\ UNCHANGED skipped

\* Faulty: the overlap is carried across the gap.
SkipRangeKeepsTail ==
  /\ skipped' = skipped \cup {[target |-> target, lo |-> currentOffset, hi |-> currentOffset + BlockSize]}
  /\ currentOffset' = currentOffset + BlockSize
  /\ UNCHANGED <<haveTail, tail, sent, short, hashed, pc>>

(* reportBadSector: the block-sized range is skipped, whatever the target,  *)
(* and the recorder is told of it.                                          *)
SkipRange ==
  /\ skipped' = skipped \cup {[target |-> target, lo |-> currentOffset, hi |-> currentOffset + BlockSize]}
  /\ currentOffset' = currentOffset + BlockSize
  /\ haveTail' = FALSE
  /\ UNCHANGED <<tail, sent, short, hashed, pc>>

EndRead == pc' = "eof" /\ UNCHANGED <<currentOffset, tail, haveTail, sent, short, hashed, skipped>>

ReadBlock ==
  /\ pc = "read" /\ ~stopped /\ target # "entry"
  /\ \E r \in Attempts(currentOffset) :
       \/ r.n > 0 /\ Deliver(r)
       \/ r.n = 0 /\ (r.err = "end" \/ ~Seekable) /\ EndRead
       \/ r.n = 0 /\ r.err # "end" /\ Seekable /\ SkipRange
  /\ UNCHANGED <<media, start, kind, target, stopped, log, edits>>

(* ReadAt of a gzip stream answers -1, and the section over it passes that  *)
(* count on; the next stage slices the block by its length.                 *)
ReadEntry ==
  /\ pc = "read" /\ ~stopped /\ target = "entry"
  /\ sent' = [off |-> 0, len |-> prefix - 1, data |-> <<>>]
  /\ pc' = "panicked"
  /\ UNCHANGED <<media, start, kind, target, currentOffset, tail, haveTail, short, hashed, skipped,
                 stopped, log, edits>>

OpenTarget ==
  /\ pc = "open" /\ ~stopped
  /\ pc' = "read"
  /\ currentOffset' = IF target = "root" THEN start ELSE 0
  /\ tail' = [i \in 1 .. Overlap |-> Gap] /\ haveTail' = FALSE
  /\ UNCHANGED <<media, start, kind, target, sent, short, hashed, skipped, stopped, log, edits>>

(* The targets found in the root are read after it, if they were in reach.  *)
Following ==
  CASE target = "root"   -> {"stored", "gzip"}
    [] target = "stored" -> {"gzip"}
    [] target = "gzip"   -> {"entry"}
    [] OTHER             -> {}

NextTarget ==
  /\ pc = "eof" /\ ~stopped
  /\ sent' = None /\ short' = FALSE
  /\ \/ pc' = "over" /\ UNCHANGED target
     \/ pc' = "open" /\ target' \in Following
  /\ UNCHANGED <<media, start, kind, currentOffset, tail, haveTail, hashed, skipped, stopped, log, edits>>

Reader == OpenTarget \/ ReadBlock \/ ReadEntry \/ NextTarget

Cancel ==
  /\ ~stopped /\ log = <<>> /\ pc # "panicked"
  /\ stopped' = TRUE
  /\ UNCHANGED <<media, start, kind, scan, log, edits>>

-----------------------------------------------------------------------------
(* The record: finish for a scan that ran, recordAttempt for one refused.   *)

finish(status) ==
  [status |-> status, kind |-> kind, start |-> start, size |-> Media,
   hash |-> hashed, skipped |-> skipped,
   digests |-> status = "complete" \/ hashed # <<>>]

recordAttempt ==
  [status |-> "error", kind |-> "unknown", start |-> 0, size |-> 0,
   hash |-> <<>>, skipped |-> {}, digests |-> FALSE]

NoRoot == hashed = <<>> /\ start < Media       \* covered 0 of the bytes expected

Record ==
  /\ log = <<>>
  /\ \/ pc = "over" /\ ~stopped /\ log' = <<finish(IF NoRoot THEN "error" ELSE "complete")>>
     \/ stopped /\ log' = <<finish("canceled")>>
     \/ pc = "over" /\ ~NoRoot /\ log' = <<finish("error")>>     \* refused members
  /\ UNCHANGED <<media, start, kind, scan, stopped, edits>>

Refuse ==
  /\ log = <<>> /\ pc = "open" /\ target = "root"
  /\ log' = <<recordAttempt>>
  /\ pc' = "over"
  /\ UNCHANGED <<media, start, kind, target, currentOffset, tail, haveTail, sent, short, hashed, skipped,
                 stopped, edits>>

Edit ==
  /\ log # <<>> /\ edits < MaxEdits
  /\ edits' = edits + 1
  /\ \E c \in Cells : media' = [media EXCEPT ![c] = 1 - @]
  /\ UNCHANGED <<start, kind, scan, stopped, log>>

Init ==
  /\ media = [c \in Cells |-> 0] /\ start \in Starts /\ kind \in Kinds
  /\ target = "root" /\ pc = "open" /\ currentOffset = 0
  /\ tail = None /\ haveTail = FALSE /\ sent = None /\ short = FALSE
  /\ hashed = <<>> /\ skipped = {} /\ stopped = FALSE /\ log = <<>> /\ edits = 0

Next == Reader \/ Cancel \/ Record \/ Refuse \/ Edit
Spec == Init /\ [][Next]_vars

-----------------------------------------------------------------------------
(* VerifyCaseLog, over a record and the media as they are now.              *)

isAttemptRecord(r) == r.status # "complete" /\ r.hash = <<>> /\ ~r.digests

(* The cells of a set in ascending order.                                   *)
Ascending(S) ==
  [i \in 1 .. Cardinality(S) |-> CHOOSE c \in S : Cardinality({d \in S : d < c}) = i - 1]

Outside(c, skips) == \A s \in skips : ~(s.lo < c /\ c <= s.hi)

\* Faulty: the walk begins one byte early.
CoveredOffByOne(r) == Ascending({c \in 1 .. r.size : c >= r.start /\ Outside(c, r.skipped)})

(* verifyRecord walks [start, size) around the skipped ranges, which it     *)
(* takes in order of their starts and of whatever target they were.         *)
Covered(r) == Ascending({c \in 1 .. r.size : c > r.start /\ Outside(c, r.skipped)})

verifyRecord(r) ==
  LET due == Covered(r) IN
  /\ r.kind \in {"raw", "range"}
  /\ \A i \in DOMAIN due : due[i] \notin Bad
  /\ [i \in DOMAIN due |-> <<due[i], media[due[i]]>>] = r.hash

Verdict(r) == IF isAttemptRecord(r) THEN "NOT SCANNED"
              ELSE IF verifyRecord(r) THEN "OK" ELSE "MISMATCH"

-----------------------------------------------------------------------------

(* The bytes vouched for are exactly those read: when the root has been     *)
(* read, its cells from the start on were hashed once each and in order, or *)
(* lie in a range reported as skipped.                                      *)
HashTiles ==
  target = "root" /\ pc = "eof" =>
    [i \in DOMAIN hashed |-> hashed[i][1]] = Covered(finish("complete"))

(* A complete scan of a file leaves a record that verifies exactly as long  *)
(* as the hashed cells are what they were, unless bytes of a target within  *)
(* the file were skipped too.                                               *)
CompleteVerifies ==
  \A i \in DOMAIN log :
    /\ log[i].status = "complete" /\ kind # "stdin"
    /\ \A s \in log[i].skipped : s.target = "root"
    => (Verdict(log[i]) = "OK"
          <=> \A j \in DOMAIN log[i].hash : media[log[i].hash[j][1]] = log[i].hash[j][2])

(* A block holds the bytes of its target from its offset on, as long as no  *)
(* block before it was shorter than the overlap: neither a gap nor the end  *)
(* of another target reaches into it.                                       *)
True(b) == /\ b.len >= 0 /\ b.off >= 0
           /\ b.data = [i \in 1 .. b.len |-> CellAt(b.off + i - 1)]
BlocksTrueUnlessShort ==
  sent # None /\ pc # "panicked" => True(sent) \/ short

(* "Anything hashed (even partially) verifies by hash" (VerifyCaseLog): no  *)
(* record of a file is a mismatch while the media is what it was.           *)
UnchangedVerifies ==
  kind # "stdin" /\ edits = 0 => \A i \in DOMAIN log : Verdict(log[i]) # "MISMATCH"
=============================================================================
