---------------------------- MODULE InputProofs ----------------------------
(* The forms of input other than one root, and what is reported of the blocks *)
(* of one, proved for every value of their constants. For every file, list of *)
(* ranges and bound on runs, kills and edits: a range scan that ends well has *)
(* delivered its list as the file now is, and accumulates the proofs of just  *)
(* the ranges before (RangeScan). For every history git can write, of         *)
(* whatever commits, paths and hunks: the parser attributes each line to what *)
(* it is of (PatchLines). For every writer, chunk and cap, with patch mode    *)
(* and without: what the pipeline scans is all that the writer sent, the      *)
(* spill file is gone when the call has returned, and what was delivered      *)
(* matches the outcome (Piped). For every text, word list, pattern and block  *)
(* size, with reads short or refused anywhere: what the blocks of a target    *)
(* report is in the text, and what was read whole is reported once (Detector).*)
EXTENDS RangeScan, PatchLines, Piped, Detector,
        SequenceTheorems, FiniteSetTheorems, WellFoundedInduction, TLAPS

-----------------------------------------------------------------------------
(* The ranges of a list.                                                      *)

Hashes == Seq(Versions)
RangeProofs == [index : Nat, start : Nat, hash : Hashes]

(* Block b is delivered in the version that content c has of it.             *)
Given(S, c, lo, hi) == \A b \in lo .. hi - 1 : <<b, c[b + 1]>> \in S

(* A hash from lo on is of what c holds there.                               *)
IsHash(h, c, lo) == h \in Hashes /\ \A k \in 1..Len(h) : h[k] = c[lo + k]

(* The first n blocks that a hash from lo on pins were delivered as such.    *)
HashGiven(S, h, lo, n) == \A k \in 1..Len(h) : k <= n => <<lo + k - 1, h[k]>> \in S

(* Whatever a journal claims was delivered in the version it pins.           *)
Claims(S, j) ==
  /\ j.list \in Layouts /\ j.index \in 1..Len(j.list)
  /\ j.offset \in Nat /\ j.list[j.index].start <= j.offset /\ j.offset <= End(j.list[j.index])
  /\ j.proof.hash \in Hashes /\ Len(j.proof.hash) <= j.list[j.index].len
  /\ HashGiven(S, j.proof.hash, j.list[j.index].start, j.offset - j.list[j.index].start)
  /\ j.proofs \in Seq(RangeProofs) /\ j.index - 1 <= Len(j.proofs)
  /\ \A i \in 1 .. j.index - 1 :
       HashGiven(S, j.proofs[i].hash, j.list[i].start, j.list[i].len)

(* The point a range is resumed at: the bytes before it were delivered, and  *)
(* the seed is a hash of the range that reaches it.                          *)
Resumable(S, c, r, o, h) ==
  /\ r.start <= o /\ o <= End(r) /\ Given(S, c, r.start, o)
  /\ IsHash(h, c, r.start) /\ o - r.start <= Len(h) /\ Len(h) <= r.len

Done(l, i) == \A k \in 1..Len(l) : k < i => Given(seen, disk.bytes, l[k].start, End(l[k]))
Accumulated(l, a) ==
  /\ a \in Seq(RangeProofs) /\ Len(a) <= Len(l)
  /\ \A i \in 1..Len(a) :
       a[i] = [index |-> i, start |-> l[i].start, hash |-> Span(l[i].start, l[i].len)]
Due(l, i, o, a) == IF i <= Len(l) /\ o >= End(l[i]) THEN Len(a) = i ELSE Len(a) = i - 1
Point(l, i, o, h) ==
  /\ o \in Nat
  /\ \/ o = 0 /\ h = <<>>
     \/ i <= Len(l) /\ Resumable(seen, disk.bytes, l[i], o, h)

(* The invariant.                                                            *)
Busy == pc # "off"
InRange == pc \in {"scan", "ended"}

DiskOK == disk.bytes \in [1..Blocks -> Versions] /\ disk.layout \in Layouts
JournalOK == journal.kind = "ranges" => Claims(seen, journal)
PlaceOK == /\ pc \in {"off", "range", "scan", "ended", "finished"}
           /\ Busy => list \in Layouts /\ idx \in 1 .. Len(list) + 1
           /\ InRange => idx <= Len(list)
           /\ pc = "finished" => idx > Len(list)
DoneOK == Busy => Done(list, idx)
AccOK == Busy => Accumulated(list, acc)
AccLen == /\ pc = "range" => Due(list, idx, from, acc)
          /\ pc = "scan" => Len(acc) = idx - 1
          /\ pc = "ended" => Len(acc) = idx
FromOK == /\ pc = "range" => Point(list, idx, from, active)
          /\ InRange => from = 0 /\ active = <<>>
ScanOK ==
  InRange =>
    /\ scan \in [start : Nat, pos : Nat, filed : Nat, hashed : Hashes,
                 flight : SUBSET (Nat \X Versions)]
    /\ range.start <= scan.start /\ scan.start <= scan.filed /\ scan.filed <= scan.pos
    /\ Resumable(seen \cup scan.flight, disk.bytes, range, scan.pos, scan.hashed)
    /\ Given(seen, disk.bytes, range.start, scan.filed)
    /\ pc = "ended" => scan.pos = End(range)

RangeInv == DiskOK /\ JournalOK /\ PlaceOK /\ DoneOK /\ AccOK /\ AccLen /\ FromOK /\ ScanOK

-----------------------------------------------------------------------------
(* A nonempty set of naturals has a least element.                           *)
LEMMA LeastNat ==
  ASSUME NEW T, T \subseteq Nat, T # {}
  PROVE  \E x \in T : \A y \in T : x <= y
<1>1. \E x \in T : \A y \in T : ~(<<y, x>> \in OpToRel(<, Nat))
  BY NatLessThanWellFounded, WFMin
<1>2. PICK x \in T : \A y \in T : ~(<<y, x>> \in OpToRel(<, Nat)) BY <1>1
<1>3. \A y \in T : ~(y < x) BY <1>2 DEF OpToRel
<1> QED BY <1>3

(* The ranges of a list.                                                     *)
LEMMA RangeInFile ==
  ASSUME NEW l \in Layouts, NEW i \in 1..Len(l)
  PROVE  /\ l[i].start \in Nat /\ l[i].len \in Nat /\ l[i].len > 0
         /\ l[i].start + l[i].len <= Blocks /\ Blocks \in Nat
         /\ End(l[i]) = l[i].start + l[i].len
         /\ Len(l) \in Nat
<1>1. l \in Seq([start : Nat, len : Nat \ {0}]) /\ l[i].start + l[i].len <= Blocks
  BY LayoutAssumption
<1>2. l[i] \in [start : Nat, len : Nat \ {0}] BY <1>1, ElementOfSeq
<1> QED BY <1>1, <1>2, LayoutAssumption, LenProperties DEF End

(* The hash of a span is of what the file holds there, and there is only one.*)
LEMMA SpanHolds ==
  ASSUME DiskOK, NEW s \in Nat, NEW n \in Nat, s + n <= Blocks
  PROVE  /\ Span(s, n) \in Hashes /\ Len(Span(s, n)) = n
         /\ \A k \in 1..n : Span(s, n)[k] = disk.bytes[s + k]
         /\ \A h \in Hashes : Len(h) = n /\ (\A k \in 1..n : h[k] = disk.bytes[s + k])
                              => h = Span(s, n)
<1>1. Blocks \in Nat BY LayoutAssumption
<1>2. \A i \in s + 1 .. s + n : disk.bytes[i] \in Versions BY <1>1 DEF DiskOK
<1>3. /\ Span(s, n) \in Hashes
      /\ Len(Span(s, n)) = IF s + 1 <= s + n THEN s + n - (s + 1) + 1 ELSE 0
      /\ \A k \in 1 .. s + n - (s + 1) + 1 : Span(s, n)[k] = disk.bytes[s + 1 + k - 1]
  BY <1>2, SubSeqProperties DEF Span, Hashes
<1>4. Len(Span(s, n)) = n BY <1>3
<1>5. \A k \in 1..n : Span(s, n)[k] = disk.bytes[s + k] BY <1>3
<1>6. ASSUME NEW h \in Hashes, Len(h) = n, \A k \in 1..n : h[k] = disk.bytes[s + k]
      PROVE  h = Span(s, n)
  BY <1>3, <1>4, <1>5, <1>6, SeqEqual DEF Hashes
<1> QED BY <1>3, <1>4, <1>5, <1>6

(* What was delivered as a hash pins it was delivered as it is now, where the*)
(* hash is of what is there now; and the other way round.                    *)
LEMMA HashToBytes ==
  ASSUME NEW S, NEW c, NEW h, NEW lo \in Nat, NEW n \in Nat, n <= Len(h), IsHash(h, c, lo)
  PROVE  HashGiven(S, h, lo, n) <=> Given(S, c, lo, lo + n)
<1>0. Len(h) \in Nat BY LenProperties DEF IsHash, Hashes
<1>1. ASSUME HashGiven(S, h, lo, n) PROVE Given(S, c, lo, lo + n)
  <2> SUFFICES ASSUME NEW b \in lo .. lo + n - 1 PROVE <<b, c[b + 1]>> \in S
    BY DEF Given
  <2> DEFINE k == b - lo + 1
  <2>1. k \in 1..Len(h) /\ k <= n /\ lo + k - 1 = b /\ lo + k = b + 1 BY <1>0
  <2>2. <<lo + k - 1, h[k]>> \in S /\ h[k] = c[lo + k] BY <1>1, <2>1 DEF HashGiven, IsHash
  <2> QED BY <2>1, <2>2
<1>2. ASSUME Given(S, c, lo, lo + n) PROVE HashGiven(S, h, lo, n)
  <2> SUFFICES ASSUME NEW k \in 1..Len(h), k <= n PROVE <<lo + k - 1, h[k]>> \in S
    BY DEF HashGiven
  <2> DEFINE b == lo + k - 1
  <2>1. b \in lo .. lo + n - 1 /\ b + 1 = lo + k BY <1>0
  <2>2. <<b, c[b + 1]>> \in S BY <1>2, <2>1 DEF Given
  <2>3. h[k] = c[lo + k] BY DEF IsHash
  <2> QED BY <2>1, <2>2, <2>3
<1> QED BY <1>1, <1>2

-----------------------------------------------------------------------------
(* The plan of a resume.                                                     *)

PlanGood(l, p) ==
  /\ p.idx \in 1..Len(l) /\ Done(l, p.idx) /\ Accumulated(l, p.acc)
  /\ Due(l, p.idx, p.from, p.acc) /\ Point(l, p.idx, p.from, p.active)

(* The ranges whose proofs verify are delivered as they are now.             *)
LEMMA VerifiedIsDone ==
  ASSUME DiskOK, JournalOK, journal.kind = "ranges", NEW i \in 1..journal.index,
         \A k \in 1 .. i - 1 : Verified(journal, k)
  PROVE  /\ Done(journal.list, i)
         /\ Accumulated(journal.list, SubSeq(journal.proofs, 1, i - 1))
         /\ Len(SubSeq(journal.proofs, 1, i - 1)) = i - 1
<1> DEFINE j == journal
           l == j.list
           a == SubSeq(j.proofs, 1, i - 1)
<1>0. /\ l \in Layouts /\ j.index \in 1..Len(l) /\ Len(l) \in Nat
      /\ j.proofs \in Seq(RangeProofs) /\ j.index - 1 <= Len(j.proofs)
      /\ \A k \in 1 .. j.index - 1 : HashGiven(seen, j.proofs[k].hash, l[k].start, l[k].len)
  BY LayoutAssumption, LenProperties DEF JournalOK, Claims
<1>1. ASSUME NEW k \in 1 .. i - 1
      PROVE  /\ k \in 1..Len(l) /\ j.proofs[k] \in RangeProofs
             /\ j.proofs[k] = [index |-> k, start |-> l[k].start, hash |-> Span(l[k].start, l[k].len)]
             /\ Given(seen, disk.bytes, l[k].start, End(l[k]))
  <2>1. k \in 1..Len(l) /\ k \in 1..Len(j.proofs) /\ k \in 1 .. j.index - 1
    BY <1>0, LenProperties
  <2>2. j.proofs[k] \in RangeProofs BY <1>0, <2>1, ElementOfSeq
  <2>3. /\ j.proofs[k].index = k /\ j.proofs[k].start = l[k].start
        /\ Len(j.proofs[k].hash) = l[k].len
        /\ Span(l[k].start, l[k].len) = j.proofs[k].hash
    BY DEF Verified
  <2>4. j.proofs[k] = [index |-> k, start |-> l[k].start, hash |-> Span(l[k].start, l[k].len)]
    BY <2>2, <2>3 DEF RangeProofs
  <2>5. IsHash(j.proofs[k].hash, disk.bytes, l[k].start)
    <3>1. /\ Span(l[k].start, l[k].len) \in Hashes
          /\ \A m \in 1..l[k].len : Span(l[k].start, l[k].len)[m] = disk.bytes[l[k].start + m]
      BY SMTT(30), <1>0, <2>1, RangeInFile, SpanHolds
    <3> QED BY <2>3, <3>1 DEF IsHash
  <2>6. Given(seen, disk.bytes, l[k].start, End(l[k]))
    <3>1. HashGiven(seen, j.proofs[k].hash, l[k].start, l[k].len) BY <1>0, <2>1
    <3>2. l[k].start \in Nat /\ l[k].len \in Nat /\ End(l[k]) = l[k].start + l[k].len
      BY <1>0, <2>1, RangeInFile
    <3> QED BY <2>3, <2>5, <3>1, <3>2, HashToBytes
  <2> QED BY <2>1, <2>2, <2>4, <2>6
<1>2. i - 1 \in Nat /\ i - 1 <= Len(j.proofs) /\ i \in 1..Len(l) BY <1>0, LenProperties
<1>3. /\ a \in Seq(RangeProofs) /\ Len(a) = i - 1
      /\ \A k \in 1 .. i - 1 : a[k] = j.proofs[k]
  <2>1. \A k \in 1 .. i - 1 : j.proofs[k] \in RangeProofs BY <1>1
  <2>2. /\ a \in Seq(RangeProofs)
        /\ Len(a) = IF 1 <= i - 1 THEN i - 1 - 1 + 1 ELSE 0
        /\ \A k \in 1 .. i - 1 - 1 + 1 : a[k] = j.proofs[1 + k - 1]
    BY <1>2, <2>1, SubSeqProperties
  <2> QED BY <1>2, <2>2
<1>4. Accumulated(l, a) BY <1>0, <1>1, <1>2, <1>3 DEF Accumulated
<1>5. Done(l, i)
  <2> SUFFICES ASSUME NEW k \in 1..Len(l), k < i
               PROVE  Given(seen, disk.bytes, l[k].start, End(l[k]))
    BY DEF Done
  <2>1. k \in 1 .. i - 1 BY <1>0, <1>2
  <2> QED BY <1>1, <2>1
<1> QED BY <1>3, <1>4, <1>5

(* A range that starts over, with the ranges before it proven.               *)
LEMMA RestartGood ==
  ASSUME DiskOK, JournalOK, journal.kind = "ranges", NEW i \in 1..journal.index,
         \A k \in 1 .. i - 1 : Verified(journal, k)
  PROVE  PlanGood(journal.list, Restart(journal, i))
<1> DEFINE l == journal.list
           p == Restart(journal, i)
<1>0. /\ l \in Layouts /\ i \in 1..Len(l)
  BY LayoutAssumption, LenProperties DEF JournalOK, Claims
<1>1. /\ p.idx = i /\ p.from = l[i].start /\ p.active = <<>>
      /\ p.acc = SubSeq(journal.proofs, 1, i - 1)
  BY DEF Restart, Nothing
<1>2. /\ l[i].start \in Nat /\ l[i].len \in Nat /\ l[i].len > 0 /\ End(l[i]) = l[i].start + l[i].len
  BY <1>0, RangeInFile
<1>3. Done(l, i) /\ Accumulated(l, p.acc) /\ Len(p.acc) = i - 1 BY <1>1, VerifiedIsDone
<1>4. Due(l, i, p.from, p.acc) BY <1>1, <1>2, <1>3 DEF Due
<1>5. Point(l, i, p.from, p.active)
  <2>1. IsHash(<<>>, disk.bytes, l[i].start) /\ Len(<<>>) = 0 BY DEF IsHash, Hashes
  <2>2. Given(seen, disk.bytes, l[i].start, l[i].start) BY <1>2 DEF Given
  <2> QED BY <1>0, <1>1, <1>2, <2>1, <2>2 DEF Point, Resumable
<1> QED BY <1>0, <1>1, <1>3, <1>4, <1>5 DEF PlanGood

(* A plan from the journal's own range resumes at a point it proves.         *)
LEMMA ActiveGood ==
  ASSUME DiskOK, JournalOK, journal.kind = "ranges",
         \A k \in 1 .. journal.index - 1 : Verified(journal, k)
  PROVE  PlanGood(journal.list, ActivePlan(journal))
<1> DEFINE j == journal
           l == j.list
           i == j.index
           r == l[i]
           h == j.proof.hash
           done == SubSeq(j.proofs, 1, i - 1)
           p == ActivePlan(j)
<1>0. /\ l \in Layouts /\ i \in 1..Len(l) /\ i \in 1..i /\ Len(l) \in Nat
      /\ j.offset \in Nat /\ r.start <= j.offset /\ j.offset <= End(r)
      /\ h \in Hashes /\ Len(h) <= r.len
      /\ HashGiven(seen, h, r.start, j.offset - r.start)
  BY LayoutAssumption, LenProperties DEF JournalOK, Claims
<1>1. CASE ~ActiveProven(j)
  <2>1. p = Restart(j, i) BY <1>1 DEF ActivePlan
  <2> QED BY <1>0, <2>1, RestartGood
<1>2. CASE ActiveProven(j)
  <2>0. /\ p.idx = i /\ p.from = j.offset /\ p.active = h
        /\ p.acc = IF j.offset >= End(r) /\ Len(h) = r.len
                   THEN Append(done, [index |-> i, start |-> r.start, hash |-> h]) ELSE done
    BY <1>2 DEF ActivePlan
  <2>1. /\ Len(h) >= j.offset - r.start /\ Span(r.start, Len(h)) = h
    BY <1>2 DEF ActiveProven
  <2>2. /\ r.start \in Nat /\ r.len \in Nat /\ End(r) = r.start + r.len
        /\ r.start + r.len <= Blocks /\ Blocks \in Nat /\ Len(h) \in Nat
    BY <1>0, RangeInFile, LenProperties DEF Hashes
  <2>3. IsHash(h, disk.bytes, r.start)
    <3>0. r.start + Len(h) <= Blocks BY <1>0, <2>2
    <3>1. \A k \in 1..Len(h) : Span(r.start, Len(h))[k] = disk.bytes[r.start + k]
      BY <2>2, <3>0, SpanHolds
    <3> QED BY <1>0, <2>1, <3>1 DEF IsHash
  <2>4. Done(l, i) /\ Accumulated(l, done) /\ Len(done) = i - 1
    BY <1>0, VerifiedIsDone
  <2>5. Given(seen, disk.bytes, r.start, j.offset)
    <3>1. j.offset - r.start \in Nat /\ r.start + (j.offset - r.start) = j.offset
      BY <1>0, <2>2
    <3> QED BY <1>0, <2>1, <2>2, <2>3, <3>1, HashToBytes
  <2>6. Point(l, i, j.offset, h)
    BY <1>0, <2>1, <2>3, <2>5 DEF Point, Resumable
  <2>7. CASE j.offset >= End(r)
    <3> DEFINE e == [index |-> i, start |-> r.start, hash |-> h]
    <3>1. Len(h) = r.len
      <4> HIDE DEF r, h
      <4> QED BY <1>0, <2>1, <2>2, <2>7
    <3>2. p.acc = Append(done, e) BY <2>0, <2>7, <3>1
    <3>3. e \in RangeProofs BY <1>0, <2>2 DEF RangeProofs
    <3>4. done \in Seq(RangeProofs) BY <2>4 DEF Accumulated
    <3>5. /\ Append(done, e) \in Seq(RangeProofs) /\ Len(Append(done, e)) = i
          /\ \A k \in 1 .. i - 1 : Append(done, e)[k] = done[k]
          /\ Append(done, e)[i] = e
      BY <1>0, <2>4, <3>3, <3>4, AppendProperties
    <3>6. e = [index |-> i, start |-> l[i].start, hash |-> Span(l[i].start, l[i].len)]
      BY <2>1, <3>1
    <3>7. Accumulated(l, p.acc)
      <4>1. \A k \in 1..i : k \in 1 .. i - 1 \/ k = i BY <1>0
      <4>2. i <= Len(l) BY <1>0
      <4>3. \A k \in 1 .. i - 1 :
              done[k] = [index |-> k, start |-> l[k].start, hash |-> Span(l[k].start, l[k].len)]
        BY <2>4 DEF Accumulated
      <4> HIDE DEF e, done, l, i
      <4>4. \A k \in 1..i : Append(done, e)[k] =
              [index |-> k, start |-> l[k].start, hash |-> Span(l[k].start, l[k].len)]
        BY <3>5, <3>6, <4>1, <4>3
      <4> QED BY <3>2, <3>5, <4>2, <4>4 DEF Accumulated
    <3>8. Due(l, i, j.offset, p.acc) BY <1>0, <2>7, <3>2, <3>5 DEF Due
    <3> QED BY <1>0, <2>0, <2>4, <2>6, <3>7, <3>8 DEF PlanGood
  <2>8. CASE ~(j.offset >= End(r))
    <3>1. p.acc = done BY <2>0, <2>8
    <3>2. Due(l, i, j.offset, p.acc) BY <2>4, <2>8, <3>1 DEF Due
    <3> QED BY <1>0, <2>0, <2>4, <2>6, <3>1, <3>2 DEF PlanGood
  <2> QED BY <2>7, <2>8
<1> QED BY <1>1, <1>2

(* A plan from scratch claims nothing.                                       *)
LEMMA ScratchGood ==
  ASSUME NEW l \in Layouts, l # <<>>
  PROVE  PlanGood(l, FromScratch)
<1>1. 1 \in 1..Len(l) /\ Len(l) \in Nat
  <2>1. l \in Seq([start : Nat, len : Nat \ {0}]) BY LayoutAssumption
  <2>2. Len(l) \in Nat BY <2>1, LenProperties
  <2> QED BY <2>1, <2>2, EmptySeq
<1>2. l[1].start \in Nat /\ l[1].len > 0 /\ l[1].len \in Nat /\ End(l[1]) = l[1].start + l[1].len
  BY <1>1, RangeInFile
<1>3. /\ FromScratch.idx = 1 /\ FromScratch.from = 0 /\ FromScratch.acc = <<>>
      /\ FromScratch.active = <<>>
  BY DEF FromScratch, Nothing
<1>4. Done(l, 1) BY <1>1 DEF Done
<1>5. Accumulated(l, <<>>) BY <1>1 DEF Accumulated
<1>6. Due(l, 1, 0, <<>>) BY <1>1, <1>2 DEF Due
<1>7. Point(l, 1, 0, <<>>) BY DEF Point
<1> QED BY <1>1, <1>3, <1>4, <1>5, <1>6, <1>7 DEF PlanGood

(* verifyRangePlan: the first range without a proof that verifies.           *)
LEMMA FirstIsFirst ==
  ASSUME journal.index \in Nat, journal.index >= 1
  PROVE  LET i == FirstUnverified(journal)
         IN  /\ i \in 1..journal.index
             /\ i = journal.index \/ ~Verified(journal, i)
             /\ \A k \in 1..(i - 1) : Verified(journal, k)
<1> DEFINE T == {i \in 1..journal.index : i = journal.index \/ ~Verified(journal, i)}
<1>1. T \subseteq Nat /\ T # {} OBVIOUS
<1>2. PICK x \in T : \A y \in T : x <= y BY <1>1, LeastNat
<1>3. \A k \in 1..(x - 1) : Verified(journal, k) BY <1>2
<1>4. \E i \in 1..journal.index :
        /\ i = journal.index \/ ~Verified(journal, i)
        /\ \A k \in 1..(i - 1) : Verified(journal, k)
  BY <1>2, <1>3
<1> QED BY <1>4 DEF FirstUnverified

(* Every plan from a journal that is true is good.                           *)
LEMMA PlanIsGood ==
  ASSUME DiskOK, JournalOK, Acceptable(journal, disk.layout), disk.layout # <<>>
  PROVE  PlanGood(disk.layout, Plan(journal))
<1>1. journal.kind = "ranges" /\ journal.list = disk.layout BY DEF Acceptable
<1>2. journal.index \in Nat /\ journal.index >= 1
  BY <1>1, LayoutAssumption, LenProperties DEF JournalOK, Claims
<1>3. CASE journal.ident # disk.ident
  BY <1>3, ScratchGood DEF Plan, DiskOK
<1>4. CASE journal.ident = disk.ident
  <2> DEFINE i == FirstUnverified(journal)
  <2>1. /\ i \in 1..journal.index
        /\ \A k \in 1..(i - 1) : Verified(journal, k)
    BY <1>2, FirstIsFirst
  <2>2. Plan(journal) = IF i < journal.index THEN Restart(journal, i) ELSE ActivePlan(journal)
    BY <1>4 DEF Plan
  <2> HIDE DEF i
  <2>3. CASE i < journal.index BY <1>1, <2>1, <2>2, <2>3, RestartGood
  <2>4. CASE ~(i < journal.index)
    <3>1. i = journal.index BY <1>2, <2>1, <2>4
    <3> QED BY <1>1, <2>1, <2>2, <2>4, <3>1, ActiveGood
  <2> QED BY <2>3, <2>4
<1> QED BY <1>3, <1>4

-----------------------------------------------------------------------------
(* The steps.                                                                *)

(* It holds before the first run.                                            *)
LEMMA RangesInit ==
  ASSUME Init PROVE RangeInv
<1>1. DiskOK BY LayoutAssumption DEF Init, DiskOK
<1>2. JournalOK BY DEF Init, JournalOK, Absent, Foreign
<1>3. pc = "off" BY DEF Init
<1>4. PlaceOK /\ DoneOK /\ AccOK BY <1>3 DEF PlaceOK, DoneOK, AccOK, Busy, InRange
<1>5. AccLen /\ FromOK /\ ScanOK BY <1>3 DEF AccLen, FromOK, ScanOK, InRange
<1> QED BY <1>1, <1>2, <1>4, <1>5 DEF RangeInv

(* A process that is not running claims nothing.                             *)
LEMMA OffKeeps ==
  ASSUME RangeInv, pc' = "off", DiskOK', JournalOK'
  PROVE  RangeInv'
<1>1. PlaceOK' /\ DoneOK' /\ AccOK' BY DEF PlaceOK, DoneOK, AccOK, Busy, InRange
<1>2. AccLen' /\ FromOK' /\ ScanOK' BY DEF AccLen, FromOK, ScanOK, InRange
<1> QED BY <1>1, <1>2 DEF RangeInv

(* A run starts from scratch or from a plan.                                 *)
LEMMA StartKeeps ==
  ASSUME RangeInv, StartRun PROVE RangeInv'
<1>0. /\ disk.layout # <<>> /\ UNCHANGED <<disk, journal, scan, seen>>
      /\ \/ Begin(disk.layout, FromScratch)
         \/ Acceptable(journal, disk.layout) /\ Begin(disk.layout, Plan(journal))
  BY DEF StartRun
<1>1. DiskOK /\ JournalOK /\ disk.layout \in Layouts BY DEF RangeInv, DiskOK
<1>2. PICK p : PlanGood(disk.layout, p) /\ Begin(disk.layout, p)
  BY <1>0, <1>1, ScratchGood, PlanIsGood
<1>3. /\ pc' = "range" /\ list' = disk.layout
      /\ idx' = p.idx /\ from' = p.from /\ acc' = p.acc /\ active' = p.active
  BY <1>2 DEF Begin
<1>4. DiskOK' BY <1>0, <1>1 DEF DiskOK
<1>5. JournalOK' BY <1>0, <1>1 DEF JournalOK
<1>6. PlaceOK'
  <2>1. p.idx \in 1 .. Len(disk.layout) + 1
    BY <1>1, <1>2, LayoutAssumption, LenProperties DEF PlanGood
  <2> QED BY <1>1, <1>3, <2>1 DEF PlaceOK, Busy, InRange
<1>7. DoneOK' BY <1>0, <1>2, <1>3 DEF PlanGood, DoneOK, Done, Busy
<1>8. AccOK' BY <1>0, <1>2, <1>3 DEF PlanGood, AccOK, Accumulated, Span
<1>9. AccLen' BY <1>2, <1>3 DEF PlanGood, AccLen, Due
<1>10. FromOK'
  <2>1. Point(disk.layout, p.idx, p.from, p.active) BY <1>2 DEF PlanGood
  <2> QED BY <1>0, <1>3, <2>1 DEF FromOK, InRange, Point
<1>11. ScanOK' BY <1>3 DEF ScanOK, InRange
<1> QED BY <1>4, <1>5, <1>6, <1>7, <1>8, <1>9, <1>10, <1>11 DEF RangeInv

(* Past the last range there is nothing more to claim.                       *)
LEMMA FinishKeeps ==
  ASSUME RangeInv, Finish PROVE RangeInv'
<1>0. /\ pc = "range" /\ idx > Len(list) /\ pc' = "finished"
      /\ UNCHANGED <<disk, journal, list, idx, from, acc, active, scan, seen>>
  BY DEF Finish
<1>1. DiskOK' /\ JournalOK' BY <1>0 DEF RangeInv, DiskOK, JournalOK
<1>2. PlaceOK' BY <1>0 DEF RangeInv, PlaceOK, Busy, InRange
<1>3. DoneOK' BY <1>0 DEF RangeInv, DoneOK, Done, Busy
<1>4. AccOK' BY <1>0 DEF RangeInv, AccOK, Busy, Accumulated, Span
<1>5. AccLen' /\ FromOK' /\ ScanOK' BY <1>0 DEF AccLen, FromOK, ScanOK, InRange
<1> QED BY <1>1, <1>2, <1>3, <1>4, <1>5 DEF RangeInv

(* The resumed range is delivered up to its point, which is its end.         *)
LEMMA SkipKeeps ==
  ASSUME RangeInv, SkipRange PROVE RangeInv'
<1>0. /\ pc = "range" /\ idx <= Len(list) /\ from >= End(range)
      /\ idx' = idx + 1 /\ from' = 0 /\ active' = <<>>
      /\ UNCHANGED <<disk, journal, pc, list, acc, scan, seen>>
  BY DEF SkipRange, Nothing
<1>1. list \in Layouts /\ idx \in 1..Len(list) /\ Len(list) \in Nat
  BY <1>0, LayoutAssumption, LenProperties DEF RangeInv, PlaceOK, Busy
<1>2. /\ range.start \in Nat /\ range.len \in Nat /\ range.len > 0
      /\ End(range) = range.start + range.len
  BY <1>1, RangeInFile DEF range
<1>3. DiskOK' /\ JournalOK' BY <1>0 DEF RangeInv, DiskOK, JournalOK
<1>4. PlaceOK' BY <1>0, <1>1 DEF RangeInv, PlaceOK, Busy, InRange
<1>5. Given(seen, disk.bytes, range.start, End(range))
  <2>1. from \in Nat /\ (from = 0 \/ Resumable(seen, disk.bytes, range, from, active))
    BY <1>0 DEF RangeInv, FromOK, Point, range
  <2>2. from # 0 BY <1>0, <1>2, <2>1
  <2>3. from = End(range) BY <1>0, <1>2, <2>1, <2>2 DEF Resumable
  <2> QED BY <2>1, <2>2, <2>3 DEF Resumable
<1>6. DoneOK'
  <2> SUFFICES ASSUME NEW k \in 1..Len(list), k < idx + 1
               PROVE  Given(seen, disk.bytes, list[k].start, End(list[k]))
    BY <1>0 DEF DoneOK, Done, Busy
  <2>1. CASE k < idx BY <1>0, <2>1 DEF RangeInv, DoneOK, Done, Busy
  <2>2. CASE k = idx BY <1>5, <2>2 DEF range
  <2> QED BY <1>1, <2>1, <2>2
<1>7. AccOK' BY <1>0 DEF RangeInv, AccOK, Busy, Accumulated, Span
<1>8. AccLen'
  <2>1. Len(acc) = idx BY <1>0 DEF RangeInv, AccLen, Due, range
  <2>2. ~(idx + 1 <= Len(list) /\ 0 >= End(list[idx + 1]))
    <3>1. idx + 1 <= Len(list) => idx + 1 \in 1..Len(list) BY <1>1
    <3>2. ASSUME NEW k \in 1..Len(list) PROVE ~(0 >= End(list[k])) BY <1>1, RangeInFile
    <3> QED BY <3>1, <3>2
  <2>3. Len(acc) = (idx + 1) - 1 BY <1>1, <2>1
  <2>4. Due(list, idx + 1, 0, acc) BY <2>2, <2>3 DEF Due
  <2>5. Due(list', idx', from', acc') BY <1>0, <2>4
  <2> QED BY <1>0, <2>5 DEF AccLen
<1>9. FromOK' BY <1>0 DEF FromOK, Point, InRange
<1>10. ScanOK' BY <1>0 DEF ScanOK, InRange
<1> QED BY <1>3, <1>4, <1>6, <1>7, <1>8, <1>9, <1>10 DEF RangeInv

(* The pipeline starts one block before the point, or at the range's start.  *)
LEMMA OpenKeeps ==
  ASSUME RangeInv, OpenRange PROVE RangeInv'
<1> DEFINE s == IF from = 0 THEN range.start ELSE rewindOffset(range.start, from)
<1>0. /\ pc = "range" /\ idx <= Len(list) /\ from < End(range)
      /\ scan' = [NoScan EXCEPT !.start = s, !.pos = s, !.hashed = active, !.filed = s]
      /\ pc' = "scan" /\ from' = 0 /\ active' = <<>>
      /\ UNCHANGED <<disk, journal, list, idx, acc, seen>>
  BY DEF OpenRange, Nothing
<1>1. list \in Layouts /\ idx \in 1..Len(list) /\ Len(list) \in Nat
  BY <1>0, LayoutAssumption, LenProperties DEF RangeInv, PlaceOK, Busy
<1>2. /\ range.start \in Nat /\ range.len \in Nat /\ range.len > 0
      /\ End(range) = range.start + range.len
  BY <1>1, RangeInFile DEF range
<1>3. scan'.start = s /\ scan'.pos = s /\ scan'.filed = s /\ scan'.hashed = active /\ scan'.flight = {}
  BY <1>0 DEF NoScan
<1>4. from \in Nat /\ ((from = 0 /\ active = <<>>) \/ Resumable(seen, disk.bytes, range, from, active))
  BY <1>0 DEF RangeInv, FromOK, Point, range
<1>5. s \in Nat /\ range.start <= s /\ s <= End(range) /\ s - range.start <= Len(active)
      /\ Given(seen, disk.bytes, range.start, s) /\ IsHash(active, disk.bytes, range.start)
      /\ Len(active) <= range.len
  <2>1. CASE from = 0 /\ active = <<>>
    <3>1. s = range.start BY <2>1
    <3>2. Given(seen, disk.bytes, range.start, s) BY <1>2, <3>1 DEF Given
    <3>3. IsHash(active, disk.bytes, range.start) /\ Len(active) = 0 BY <2>1 DEF IsHash, Hashes
    <3> HIDE DEF s
    <3> QED BY <1>2, <3>1, <3>2, <3>3
  <2>2. CASE Resumable(seen, disk.bytes, range, from, active)
    <3>1. /\ range.start <= from /\ from <= End(range) /\ Given(seen, disk.bytes, range.start, from)
          /\ IsHash(active, disk.bytes, range.start) /\ from - range.start <= Len(active)
          /\ Len(active) <= range.len /\ Len(active) \in Nat
      BY <2>2, LenProperties DEF Resumable, IsHash, Hashes
    <3>2. s \in Nat /\ range.start <= s /\ s <= from
      BY <1>2, <1>4, <3>1 DEF rewindOffset
    <3> HIDE DEF s
    <3>3. Given(seen, disk.bytes, range.start, s)
      BY <1>2, <1>4, <3>1, <3>2 DEF Given
    <3> QED BY <1>2, <1>4, <3>1, <3>2, <3>3
  <2> QED BY <1>4, <2>1, <2>2
<1> HIDE DEF s
<1>6. DiskOK' /\ JournalOK' BY <1>0 DEF RangeInv, DiskOK, JournalOK
<1>7. PlaceOK' BY <1>0, <1>1 DEF RangeInv, PlaceOK, Busy, InRange
<1>8. DoneOK' BY <1>0 DEF RangeInv, DoneOK, Done, Busy
<1>9. AccOK' BY <1>0 DEF RangeInv, AccOK, Busy, Accumulated, Span
<1>10. AccLen'
  <2>1. ~(from >= End(range)) BY <1>0, <1>2, <1>4
  <2> QED BY <1>0, <2>1 DEF RangeInv, AccLen, Due, range
<1>11. FromOK' BY <1>0 DEF FromOK, InRange
<1>12. ScanOK'
  <2>1. seen \cup {} = seen OBVIOUS
  <2>2. Resumable(seen, disk.bytes, range, s, active) BY <1>5 DEF Resumable
  <2>3. range' = range BY <1>0 DEF range
  <2>4. s <= s BY <1>5
  <2>5. scan' \in [start : Nat, pos : Nat, filed : Nat, hashed : Hashes,
                   flight : SUBSET (Nat \X Versions)]
    BY <1>0, <1>5 DEF NoScan, IsHash
  <2> QED BY <1>0, <1>3, <1>5, <2>1, <2>2, <2>3, <2>4, <2>5 DEF ScanOK, InRange
<1> QED BY <1>6, <1>7, <1>8, <1>9, <1>10, <1>11, <1>12 DEF RangeInv

(* What ScanOK says of the range, in one place.                              *)
LEMMA InRangeFacts ==
  ASSUME RangeInv, InRange
  PROVE  /\ list \in Layouts /\ idx \in 1..Len(list) /\ Len(list) \in Nat
         /\ range.start \in Nat /\ range.len \in Nat /\ range.len > 0
         /\ End(range) = range.start + range.len
         /\ range.start + range.len <= Blocks /\ Blocks \in Nat
         /\ scan.start \in Nat /\ scan.filed \in Nat /\ scan.pos \in Nat
         /\ range.start <= scan.start /\ scan.start <= scan.filed /\ scan.filed <= scan.pos
         /\ scan.pos <= End(range)
         /\ IsHash(scan.hashed, disk.bytes, range.start) /\ Len(scan.hashed) \in Nat
         /\ scan.pos - range.start <= Len(scan.hashed) /\ Len(scan.hashed) <= range.len
         /\ Given(seen \cup scan.flight, disk.bytes, range.start, scan.pos)
         /\ Given(seen, disk.bytes, range.start, scan.filed)
         /\ pc = "ended" => scan.pos = End(range)
         /\ Accumulated(list, acc) /\ Done(list, idx) /\ from = 0 /\ active = <<>>
         /\ pc = "scan" => Len(acc) = idx - 1
         /\ pc = "ended" => Len(acc) = idx
<1>1. list \in Layouts /\ idx \in 1..Len(list) /\ Len(list) \in Nat
  BY LayoutAssumption, LenProperties DEF RangeInv, PlaceOK, Busy, InRange
<1>2. /\ range.start \in Nat /\ range.len \in Nat /\ range.len > 0
      /\ End(range) = range.start + range.len
      /\ range.start + range.len <= Blocks /\ Blocks \in Nat
  BY <1>1, RangeInFile DEF range
<1>3. Len(scan.hashed) \in Nat
  BY LenProperties DEF RangeInv, ScanOK, Resumable, IsHash, Hashes
<1>4. Accumulated(list, acc) /\ Done(list, idx)
  BY DEF RangeInv, AccOK, DoneOK, Busy, InRange
<1> QED BY <1>1, <1>2, <1>3, <1>4 DEF RangeInv, ScanOK, Resumable, FromOK, AccLen

(* A frontier of the range, at a point that has been delivered, claims       *)
(* nothing that was not.                                                     *)
LEMMA FrontierClaims ==
  ASSUME DiskOK, NEW S, list \in Layouts, idx \in 1..Len(list), Len(list) \in Nat,
         Accumulated(list, acc),
         NEW a, a \in Seq(RangeProofs), idx - 1 <= Len(a),
         \A k \in 1 .. idx - 1 : a[k] = acc[k],
         idx - 1 <= Len(acc), Len(acc) \in Nat,
         \A k \in 1..Len(list) : k < idx => Given(S, disk.bytes, list[k].start, End(list[k])),
         NEW o \in Nat, range.start <= o, o <= End(range),
         o - range.start <= Len(scan.hashed), Len(scan.hashed) <= range.len,
         IsHash(scan.hashed, disk.bytes, range.start),
         Given(S, disk.bytes, range.start, o)
  PROVE  Claims(S, Frontier(o, a))
<1> DEFINE j == Frontier(o, a)
<1>0. /\ j.list = list /\ j.index = idx /\ j.offset = o /\ j.proof.hash = scan.hashed
      /\ j.proofs = a
  BY DEF Frontier
<1> HIDE DEF j
<1>1. range = list[idx] BY DEF range
<1>2. /\ range.start \in Nat /\ range.len \in Nat /\ End(range) = range.start + range.len
  BY <1>1, RangeInFile
<1>3. HashGiven(S, scan.hashed, range.start, o - range.start)
  <2>1. o - range.start \in Nat /\ range.start + (o - range.start) = o BY <1>2
  <2> QED BY <1>2, <2>1, HashToBytes
<1>4. ASSUME NEW k \in 1 .. idx - 1
      PROVE  HashGiven(S, a[k].hash, list[k].start, list[k].len)
  <2>1. k \in 1..Len(list) /\ k \in 1..Len(acc) /\ k < idx OBVIOUS
  <2>2. a[k].hash = Span(list[k].start, list[k].len)
    <3>1. acc[k] = [index |-> k, start |-> list[k].start, hash |-> Span(list[k].start, list[k].len)]
      BY <2>1 DEF Accumulated
    <3>2. a[k] = acc[k] OBVIOUS
    <3> QED BY <3>1, <3>2
  <2>3. /\ list[k].start \in Nat /\ list[k].len \in Nat /\ End(list[k]) = list[k].start + list[k].len
        /\ list[k].start + list[k].len <= Blocks
    BY <2>1, RangeInFile
  <2>4. /\ IsHash(Span(list[k].start, list[k].len), disk.bytes, list[k].start)
        /\ Len(Span(list[k].start, list[k].len)) = list[k].len
    <3> DEFINE h == Span(list[k].start, list[k].len)
    <3>1. h \in Hashes /\ Len(h) = list[k].len
          /\ \A m \in 1..list[k].len : h[m] = disk.bytes[list[k].start + m]
      BY <2>3, SpanHolds
    <3> HIDE DEF h
    <3>2. IsHash(h, disk.bytes, list[k].start) BY <3>1 DEF IsHash
    <3> QED BY <3>1, <3>2 DEF h
  <2>5. Given(S, disk.bytes, list[k].start, list[k].start + list[k].len) BY <2>1, <2>3
  <2> DEFINE h == Span(list[k].start, list[k].len)
  <2>6. IsHash(h, disk.bytes, list[k].start) /\ list[k].len <= Len(h) BY <2>3, <2>4
  <2> HIDE DEF h
  <2>7. HashGiven(S, h, list[k].start, list[k].len) BY <2>3, <2>5, <2>6, HashToBytes
  <2> QED BY <2>2, <2>7 DEF h
<1>5. scan.hashed \in Hashes BY DEF IsHash
<1>6. Claims(S, j) BY <1>0, <1>1, <1>3, <1>4, <1>5 DEF Claims
<1> QED BY <1>6 DEF j


(* A block is read, and hashed where the seed has not hashed it already.     *)
LEMMA ReadKeeps ==
  ASSUME RangeInv, ReadBlock PROVE RangeInv'
<1> DEFINE v == disk.bytes[scan.pos + 1]
           h == IF scan.pos - range.start >= Len(scan.hashed)
                THEN Append(scan.hashed, v) ELSE scan.hashed
           f == scan.flight \cup {<<scan.pos, v>>}
<1>0. /\ pc = "scan" /\ scan.pos < End(range)
      /\ scan' = [scan EXCEPT !.pos = @ + 1, !.hashed = h, !.flight = f]
      /\ UNCHANGED <<disk, journal, pc, list, idx, from, acc, active, seen>>
  BY DEF ReadBlock
<1>1. InRange BY <1>0 DEF InRange
<1>2. /\ list \in Layouts /\ idx \in 1..Len(list)
      /\ range.start \in Nat /\ range.len \in Nat
      /\ End(range) = range.start + range.len
      /\ range.start + range.len <= Blocks /\ Blocks \in Nat
      /\ scan.start \in Nat /\ scan.filed \in Nat /\ scan.pos \in Nat
      /\ range.start <= scan.start /\ scan.start <= scan.filed /\ scan.filed <= scan.pos
      /\ IsHash(scan.hashed, disk.bytes, range.start) /\ Len(scan.hashed) \in Nat
      /\ scan.pos - range.start <= Len(scan.hashed) /\ Len(scan.hashed) <= range.len
      /\ Given(seen \cup scan.flight, disk.bytes, range.start, scan.pos)
      /\ Given(seen, disk.bytes, range.start, scan.filed)
  BY <1>1, InRangeFacts
<1>3. scan \in [start : Nat, pos : Nat, filed : Nat, hashed : Hashes,
                flight : SUBSET (Nat \X Versions)]
  BY <1>1 DEF RangeInv, ScanOK
<1>4. v \in Versions
  <2>1. disk.bytes \in [1..Blocks -> Versions] BY DEF RangeInv, DiskOK
  <2>2. scan.pos + 1 \in 1..Blocks BY <1>0, <1>2
  <2> QED BY <2>1, <2>2
<1>5. h \in Hashes /\ IsHash(h, disk.bytes, range.start)
      /\ Len(h) \in Nat /\ (scan.pos + 1) - range.start <= Len(h) /\ Len(h) <= range.len
  <2>1. scan.hashed \in Seq(Versions) BY <1>3 DEF Hashes
  <2>2. CASE scan.pos - range.start >= Len(scan.hashed)
    <3>1. Len(scan.hashed) = scan.pos - range.start BY SMTT(30), <1>2, <2>2
    <3>2. h = Append(scan.hashed, v) BY <2>2
    <3>3. /\ h \in Seq(Versions) /\ Len(h) = Len(scan.hashed) + 1
          /\ \A k \in 1..Len(scan.hashed) : h[k] = scan.hashed[k]
          /\ h[Len(scan.hashed) + 1] = v
      BY <1>4, <2>1, <3>2, AppendProperties
    <3>4. range.start + (Len(scan.hashed) + 1) = scan.pos + 1 BY <1>2, <3>1
    <3>5. ASSUME NEW k \in 1 .. Len(scan.hashed) + 1 PROVE h[k] = disk.bytes[range.start + k]
      <4>1. CASE k = Len(scan.hashed) + 1
        <5>1. h[k] = disk.bytes[scan.pos + 1] BY <3>3, <4>1
        <5>2. range.start + k = scan.pos + 1 BY <3>4, <4>1
        <5> QED BY <5>1, <5>2
      <4>2. CASE k # Len(scan.hashed) + 1
        <5>1. k \in 1..Len(scan.hashed) BY <1>2, <4>2
        <5>2. h[k] = scan.hashed[k] BY <3>3, <5>1
        <5>3. scan.hashed[k] = disk.bytes[range.start + k] BY <1>2, <5>1 DEF IsHash
        <5> QED BY <5>2, <5>3
      <4> QED BY <4>1, <4>2
    <3> HIDE DEF h, v
    <3>6. IsHash(h, disk.bytes, range.start) BY <3>3, <3>5 DEF IsHash, Hashes
    <3>7. Len(h) \in Nat /\ (scan.pos + 1) - range.start <= Len(h) BY <1>2, <3>1, <3>3
    <3>8. Len(h) <= range.len BY <1>0, <1>2, <3>1, <3>3
    <3> QED BY <3>3, <3>6, <3>7, <3>8 DEF Hashes
  <2>3. CASE ~(scan.pos - range.start >= Len(scan.hashed))
    <3>1. h = scan.hashed BY <2>3
    <3> HIDE DEF h, v
    <3>2. (scan.pos + 1) - range.start <= Len(h) BY SMTT(30), <1>2, <2>3, <3>1
    <3> QED BY <1>2, <2>1, <3>1, <3>2 DEF Hashes
  <2> QED BY <2>2, <2>3
<1>6. f \in SUBSET (Nat \X Versions) BY <1>2, <1>3, <1>4
<1>7. Given(seen \cup f, disk.bytes, range.start, scan.pos + 1)
  <2> SUFFICES ASSUME NEW b \in range.start .. (scan.pos + 1) - 1
               PROVE  <<b, disk.bytes[b + 1]>> \in seen \cup f
    <3> HIDE DEF f
    <3> QED BY DEF Given
  <2>1. CASE b = scan.pos BY <2>1
  <2>2. CASE b # scan.pos
    <3>1. b \in range.start .. scan.pos - 1 BY <1>2, <2>2
    <3>2. <<b, disk.bytes[b + 1]>> \in seen \cup scan.flight BY <1>2, <3>1 DEF Given
    <3> QED BY <3>2
  <2> QED BY <2>1, <2>2
<1> HIDE DEF v, h, f
<1>8. scan'.start = scan.start /\ scan'.pos = scan.pos + 1 /\ scan'.filed = scan.filed
      /\ scan'.hashed = h /\ scan'.flight = f
      /\ scan' \in [start : Nat, pos : Nat, filed : Nat, hashed : Hashes,
                    flight : SUBSET (Nat \X Versions)]
  <2>1. scan.pos + 1 \in Nat BY <1>2
  <2>2. scan' = [scan EXCEPT !.pos = scan.pos + 1, !.hashed = h, !.flight = f] BY <1>0, <1>3
  <2>3. h \in Hashes BY <1>5
  <2> DEFINE R == [start : Nat, pos : Nat, filed : Nat, hashed : Hashes,
                   flight : SUBSET (Nat \X Versions)]
  <2>4. scan'.start = scan.start /\ scan'.pos = scan.pos + 1 /\ scan'.filed = scan.filed
        /\ scan'.hashed = h /\ scan'.flight = f
    BY <1>3, <2>2
  <2>5. scan' \in R BY <1>3, <1>6, <2>1, <2>2, <2>3
  <2> QED BY <2>4, <2>5
<1>9. ScanOK'
  <2>1. range' = range BY <1>0 DEF range
  <2>2. range.start <= scan.pos + 1 /\ scan.pos + 1 <= End(range) /\ scan.filed <= scan.pos + 1
    BY SMTT(30), <1>0, <1>2
  <2>3. Resumable(seen \cup f, disk.bytes, range, scan.pos + 1, h)
    <3> DEFINE q == scan.pos + 1
               S == seen \cup f
    <3>1. range.start <= q /\ q <= End(range) /\ q - range.start <= Len(h) BY <1>2, <1>5, <2>2
    <3>2. Given(S, disk.bytes, range.start, q) BY <1>7
    <3> HIDE DEF q, S
    <3>3. Resumable(S, disk.bytes, range, q, h) BY <1>5, <3>1, <3>2 DEF Resumable
    <3> QED BY <3>3 DEF q, S
  <2>4. pc' # "ended" BY <1>0
  <2>5. Resumable(seen' \cup scan'.flight, disk'.bytes, range', scan'.pos, scan'.hashed)
    BY <1>0, <1>8, <2>1, <2>3
  <2>6. Given(seen', disk'.bytes, range'.start, scan'.filed)
    BY <1>0, <1>2, <1>8, <2>1
  <2>7. range'.start <= scan'.start /\ scan'.start <= scan'.filed /\ scan'.filed <= scan'.pos
    BY <1>2, <1>8, <2>1, <2>2
  <2> QED BY <1>8, <2>4, <2>5, <2>6, <2>7 DEF ScanOK
<1>10. DiskOK' /\ JournalOK' BY <1>0 DEF RangeInv, DiskOK, JournalOK
<1>11. PlaceOK' BY <1>0 DEF RangeInv, PlaceOK, Busy, InRange
<1>12. DoneOK' BY <1>0 DEF RangeInv, DoneOK, Done, Busy
<1>13. AccOK' BY <1>0 DEF RangeInv, AccOK, Busy, Accumulated, Span
<1>14. AccLen' /\ FromOK' BY <1>0 DEF RangeInv, AccLen, FromOK, InRange
<1> QED BY <1>9, <1>10, <1>11, <1>12, <1>13, <1>14 DEF RangeInv

(* Done ranges and claims are kept where more is delivered.                  *)
LEMMA DoneGrows ==
  ASSUME UNCHANGED disk, seen \subseteq seen', NEW l, NEW i, Done(l, i)
  PROVE  Done(l, i)'
  BY DEF Done, Given

(* A frontier of the range: everything before its point is delivered.        *)
LEMMA FrontierHolds ==
  ASSUME RangeInv, InRange, NEW S, seen \subseteq S,
         NEW o \in Nat, range.start <= o, o <= scan.pos,
         Given(S, disk.bytes, range.start, o),
         NEW a, a \in Seq(RangeProofs), idx - 1 <= Len(a),
         \A k \in 1 .. idx - 1 : a[k] = acc[k]
  PROVE  Claims(S, Frontier(o, a))
<1>1. /\ list \in Layouts /\ idx \in 1..Len(list) /\ Len(list) \in Nat
      /\ range.start \in Nat /\ range.len \in Nat
      /\ scan.pos \in Nat /\ scan.pos <= End(range)
      /\ End(range) = range.start + range.len
      /\ IsHash(scan.hashed, disk.bytes, range.start) /\ Len(scan.hashed) \in Nat
      /\ scan.pos - range.start <= Len(scan.hashed) /\ Len(scan.hashed) <= range.len
      /\ Accumulated(list, acc) /\ Done(list, idx)
  BY InRangeFacts
<1>2. Len(acc) = idx - 1 \/ Len(acc) = idx BY DEF RangeInv, AccLen, InRange
<1>3. idx - 1 <= Len(acc) /\ Len(acc) \in Nat BY <1>1, <1>2
<1>4. \A k \in 1..Len(list) : k < idx => Given(S, disk.bytes, list[k].start, End(list[k]))
  BY <1>1 DEF Done, Given
<1>5. o <= End(range) /\ o - range.start <= Len(scan.hashed) BY SMTT(30), <1>1
<1>6. DiskOK BY DEF RangeInv
<1> QED BY <1>1, <1>3, <1>4, <1>5, <1>6, FrontierClaims

(* A frontier files what has just been delivered.                            *)
LEMMA FileKeeps ==
  ASSUME RangeInv, FileFrontier PROVE RangeInv'
<1> DEFINE T == seen \cup scan.flight
<1>0. /\ pc = "scan" /\ scan.filed < scan.pos /\ scan.pos < End(range)
      /\ seen' = T
      /\ journal' = Frontier(scan.pos, acc)
      /\ scan' = [scan EXCEPT !.filed = scan.pos, !.flight = {}]
      /\ UNCHANGED <<disk, pc, list, idx, from, acc, active>>
  BY DEF FileFrontier
<1>1. InRange BY <1>0 DEF InRange
<1>2. /\ list \in Layouts /\ idx \in 1..Len(list)
      /\ range.start \in Nat /\ End(range) = range.start + range.len
      /\ scan.start \in Nat /\ scan.filed \in Nat /\ scan.pos \in Nat
      /\ range.start <= scan.start /\ scan.start <= scan.filed /\ scan.filed <= scan.pos
      /\ Given(T, disk.bytes, range.start, scan.pos)
      /\ Accumulated(list, acc) /\ Len(acc) = idx - 1
  BY <1>0, <1>1, InRangeFacts
<1>3. scan \in [start : Nat, pos : Nat, filed : Nat, hashed : Hashes,
                flight : SUBSET (Nat \X Versions)]
      /\ Resumable(T, disk.bytes, range, scan.pos, scan.hashed)
  BY <1>1 DEF RangeInv, ScanOK
<1>4. scan'.start = scan.start /\ scan'.pos = scan.pos /\ scan'.filed = scan.pos
      /\ scan'.hashed = scan.hashed /\ scan'.flight = {}
      /\ scan' \in [start : Nat, pos : Nat, filed : Nat, hashed : Hashes,
                    flight : SUBSET (Nat \X Versions)]
  BY <1>0, <1>2, <1>3
<1>5. Claims(T, Frontier(scan.pos, acc))
  <2>1. acc \in Seq(RangeProofs) /\ idx - 1 <= Len(acc) BY <1>2 DEF Accumulated
  <2>2. range.start <= scan.pos /\ scan.pos <= scan.pos BY <1>2
  <2> QED BY <1>1, <1>2, <2>1, <2>2, FrontierHolds
<1>6. T \cup {} = T /\ seen \subseteq T OBVIOUS
<1> HIDE DEF T
<1>7. JournalOK'
  <2>1. Claims(seen', journal') BY <1>0, <1>5
  <2> QED BY <2>1 DEF JournalOK
<1>8. ScanOK'
  <2>1. range' = range BY <1>0 DEF range
  <2>2. range.start <= scan.start /\ scan.start <= scan.pos /\ scan.pos <= scan.pos BY <1>2
  <2>3. pc' # "ended" BY <1>0
  <2>4. Resumable(seen' \cup scan'.flight, disk'.bytes, range', scan'.pos, scan'.hashed)
    BY <1>0, <1>3, <1>4, <1>6, <2>1
  <2>5. Given(seen', disk'.bytes, range'.start, scan'.filed)
    BY <1>0, <1>2, <1>4, <2>1
  <2>6. range'.start <= scan'.start /\ scan'.start <= scan'.filed /\ scan'.filed <= scan'.pos
    BY <1>4, <2>1, <2>2
  <2> QED BY <1>4, <2>3, <2>4, <2>5, <2>6 DEF ScanOK
<1>9. DiskOK' BY <1>0 DEF RangeInv, DiskOK
<1>10. PlaceOK' BY <1>0 DEF RangeInv, PlaceOK, Busy, InRange
<1>11. DoneOK'
  <2>1. Done(list, idx) BY <1>1, InRangeFacts
  <2>2. Done(list, idx)' BY <1>0, <1>6, <2>1, DoneGrows DEF Done, Given
  <2> QED BY <2>2 DEF DoneOK
<1>12. AccOK' BY <1>0 DEF RangeInv, AccOK, Busy, Accumulated, Span
<1>13. AccLen' /\ FromOK' BY <1>0 DEF RangeInv, AccLen, FromOK, InRange
<1> QED BY <1>7, <1>8, <1>9, <1>10, <1>11, <1>12, <1>13 DEF RangeInv

(* The proof of a range read to its end is of the whole range.               *)
LEMMA ProvenHolds ==
  ASSUME RangeInv, pc = "scan", scan.pos = End(range)
  PROVE  /\ Accumulated(list, Proven) /\ Len(Proven) = idx
         /\ Proven \in Seq(RangeProofs) /\ \A k \in 1 .. idx - 1 : Proven[k] = acc[k]
<1> DEFINE p == [index |-> idx, start |-> range.start, hash |-> scan.hashed]
<1>1. InRange BY DEF InRange
<1>2. /\ list \in Layouts /\ idx \in 1..Len(list) /\ Len(list) \in Nat
      /\ range.start \in Nat /\ range.len \in Nat
      /\ End(range) = range.start + range.len
      /\ range.start + range.len <= Blocks /\ Blocks \in Nat
      /\ IsHash(scan.hashed, disk.bytes, range.start) /\ Len(scan.hashed) \in Nat
      /\ scan.pos - range.start <= Len(scan.hashed) /\ Len(scan.hashed) <= range.len
      /\ Accumulated(list, acc) /\ Len(acc) = idx - 1
  BY <1>1, InRangeFacts
<1>3. scan.hashed = Span(range.start, range.len)
  <2>1. Len(scan.hashed) = range.len BY <1>2
  <2>2. DiskOK BY DEF RangeInv
  <2>3. /\ scan.hashed \in Hashes
        /\ \A k \in 1..range.len : scan.hashed[k] = disk.bytes[range.start + k]
    BY <1>2, <2>1 DEF IsHash
  <2>4. \A h \in Hashes : Len(h) = range.len
                           /\ (\A k \in 1..range.len : h[k] = disk.bytes[range.start + k])
                           => h = Span(range.start, range.len)
    BY <1>2, <2>2, SpanHolds
  <2> QED BY <2>1, <2>3, <2>4
<1>4. p \in RangeProofs BY <1>2 DEF RangeProofs, IsHash
<1>5. Proven = Append(acc, p) BY DEF Proven
<1>6. /\ Proven \in Seq(RangeProofs) /\ Len(Proven) = Len(acc) + 1
      /\ \A k \in 1..Len(acc) : Proven[k] = acc[k]
      /\ Proven[Len(acc) + 1] = p
  BY <1>2, <1>4, <1>5, AppendProperties DEF Accumulated
<1>7. Len(Proven) = idx /\ Len(acc) + 1 = idx BY <1>2, <1>6
<1>8. \A k \in 1 .. idx - 1 : Proven[k] = acc[k] BY <1>2, <1>6
<1>9. ASSUME NEW k \in 1..idx
      PROVE  Proven[k] = [index |-> k, start |-> list[k].start,
                          hash |-> Span(list[k].start, list[k].len)]
  <2>1. CASE k = idx
    <3>1. Proven[k] = p BY <1>6, <1>7, <2>1
    <3>2. range = list[k] BY <2>1 DEF range
    <3> QED BY <1>3, <2>1, <3>1, <3>2
  <2>2. CASE k # idx
    <3>1. k \in 1..Len(acc) BY <1>2, <2>2
    <3>2. acc[k] = [index |-> k, start |-> list[k].start,
                    hash |-> Span(list[k].start, list[k].len)]
      BY <1>2, <3>1 DEF Accumulated
    <3> QED BY <1>6, <3>1, <3>2
  <2> QED BY <2>1, <2>2
<1>10. Accumulated(list, Proven)
  <2>1. Len(Proven) <= Len(list) BY <1>2, <1>7
  <2> QED BY <1>6, <1>7, <1>9, <2>1 DEF Accumulated
<1> QED BY <1>6, <1>7, <1>8, <1>10

(* The reader adds the range's proof as it sends the end marker.             *)
LEMMA RootKeeps ==
  ASSUME RangeInv, RootEnds PROVE RangeInv'
<1>0. /\ pc = "scan" /\ scan.pos = End(range) /\ acc' = Proven /\ pc' = "ended"
      /\ UNCHANGED <<disk, journal, list, idx, from, active, scan, seen>>
  BY DEF RootEnds
<1>1. DiskOK' /\ JournalOK' BY <1>0 DEF RangeInv, DiskOK, JournalOK
<1>2. PlaceOK' BY <1>0 DEF RangeInv, PlaceOK, Busy, InRange
<1>3. DoneOK' BY <1>0 DEF RangeInv, DoneOK, Done, Busy
<1>4. Accumulated(list, Proven) /\ Len(Proven) = idx BY <1>0, ProvenHolds
<1>5. AccOK' BY <1>0, <1>4 DEF AccOK, Accumulated, Span
<1>6. AccLen' BY <1>0, <1>4 DEF AccLen
<1>7. FromOK' BY <1>0 DEF RangeInv, FromOK, InRange
<1>8. ScanOK'
  <2>1. range' = range BY <1>0 DEF range
  <2> QED BY <1>0, <2>1 DEF RangeInv, ScanOK, InRange, Resumable
<1> QED BY <1>1, <1>2, <1>3, <1>5, <1>6, <1>7, <1>8 DEF RangeInv

(* A clean end delivers the rest of the range and files its end.             *)
LEMMA DoneKeeps ==
  ASSUME RangeInv, RangeDone PROVE RangeInv'
<1> DEFINE T == seen \cup scan.flight
<1>0. /\ pc = "ended" /\ seen' = T /\ journal' = Frontier(End(range), acc)
      /\ idx' = idx + 1 /\ pc' = "range" /\ scan' = NoScan
      /\ UNCHANGED <<disk, list, from, acc, active>>
  BY DEF RangeDone
<1>1. InRange BY <1>0 DEF InRange
<1>2. /\ list \in Layouts /\ idx \in 1..Len(list) /\ Len(list) \in Nat
      /\ range.start \in Nat /\ range.len \in Nat
      /\ End(range) = range.start + range.len
      /\ scan.pos = End(range)
      /\ Given(T, disk.bytes, range.start, scan.pos)
      /\ Accumulated(list, acc) /\ Done(list, idx) /\ from = 0 /\ active = <<>>
      /\ Len(acc) = idx
  BY <1>0, <1>1, InRangeFacts
<1>3. Claims(T, Frontier(End(range), acc))
  <2>1. acc \in Seq(RangeProofs) /\ idx - 1 <= Len(acc) BY <1>2 DEF Accumulated
  <2>2. End(range) \in Nat /\ range.start <= End(range) /\ End(range) <= scan.pos BY <1>2
  <2>3. Given(T, disk.bytes, range.start, End(range)) BY <1>2
  <2> QED BY <1>1, <2>1, <2>2, <2>3, FrontierHolds
<1>4. seen \subseteq T OBVIOUS
<1> HIDE DEF T
<1>5. DiskOK' BY <1>0 DEF RangeInv, DiskOK
<1>6. JournalOK'
  <2>1. Claims(seen', journal') BY <1>0, <1>3
  <2> QED BY <2>1 DEF JournalOK
<1>7. PlaceOK' BY <1>0, <1>2 DEF PlaceOK, Busy, InRange
<1>8. DoneOK'
  <2> SUFFICES ASSUME NEW k \in 1..Len(list), k < idx + 1
               PROVE  Given(T, disk.bytes, list[k].start, End(list[k]))
    BY <1>0 DEF DoneOK, Done, Busy
  <2>1. CASE k < idx BY <1>2, <1>4, <2>1 DEF Done, Given
  <2>2. CASE k = idx BY <1>2, <2>2 DEF range
  <2> QED BY <1>2, <2>1, <2>2
<1>9. AccOK' BY <1>0, <1>2 DEF AccOK, Accumulated, Span
<1>10. AccLen'
  <2>1. ~(idx + 1 <= Len(list) /\ 0 >= End(list[idx + 1]))
    <3>1. idx + 1 <= Len(list) => idx + 1 \in 1..Len(list) BY <1>2
    <3>2. ASSUME NEW k \in 1..Len(list) PROVE ~(0 >= End(list[k])) BY <1>2, RangeInFile
    <3> QED BY <3>1, <3>2
  <2>2. Len(acc) = (idx + 1) - 1 BY <1>2
  <2>3. Due(list, idx + 1, 0, acc) BY <2>1, <2>2 DEF Due
  <2>4. Due(list', idx', from', acc') BY <1>0, <1>2, <2>3
  <2> QED BY <1>0, <2>4 DEF AccLen
<1>11. FromOK' BY <1>0, <1>2 DEF FromOK, Point, InRange
<1>12. ScanOK' BY <1>0 DEF ScanOK, InRange
<1> QED BY <1>5, <1>6, <1>7, <1>8, <1>9, <1>10, <1>11, <1>12 DEF RangeInv

(* The error return claims no more than was filed, with either list.         *)
LEMMA FailKeeps ==
  ASSUME RangeInv, RangeFails PROVE RangeInv'
<1>0. /\ pc \in {"scan", "ended"} /\ pc' = "off" /\ UNCHANGED <<disk, seen>>
  BY DEF RangeFails
<1>1. PICK o \in {scan.filed, scan.start} :
        \/ journal' = Frontier(o, acc)
        \/ pc = "scan" /\ scan.pos = End(range) /\ journal' \in {Frontier(o, Proven), Torn}
  BY DEF RangeFails
<1>2. InRange BY <1>0 DEF InRange
<1>3. /\ range.start \in Nat /\ scan.start \in Nat /\ scan.filed \in Nat /\ scan.pos \in Nat
      /\ range.start <= scan.start /\ scan.start <= scan.filed /\ scan.filed <= scan.pos
      /\ Given(seen, disk.bytes, range.start, scan.filed)
      /\ Accumulated(list, acc) /\ (Len(acc) = idx - 1 \/ Len(acc) = idx) /\ idx \in 1..Len(list)
      /\ Len(list) \in Nat
  <2>1. /\ range.start \in Nat /\ scan.start \in Nat /\ scan.filed \in Nat /\ scan.pos \in Nat
        /\ range.start <= scan.start /\ scan.start <= scan.filed /\ scan.filed <= scan.pos
        /\ Given(seen, disk.bytes, range.start, scan.filed)
        /\ Accumulated(list, acc) /\ idx \in 1..Len(list) /\ Len(list) \in Nat
    BY <1>2, InRangeFacts
  <2>2. Len(acc) = idx - 1 \/ Len(acc) = idx BY <1>0 DEF RangeInv, AccLen
  <2> QED BY <2>1, <2>2
<1>4. o \in Nat /\ range.start <= o /\ o <= scan.pos /\ o <= scan.filed BY <1>1, <1>3
<1>5. Given(seen, disk.bytes, range.start, o) BY <1>3, <1>4 DEF Given
<1>6. acc \in Seq(RangeProofs) /\ idx - 1 <= Len(acc) BY <1>3 DEF Accumulated
<1>7. JournalOK'
  <2>1. CASE journal' = Frontier(o, acc)
    <3>1. Claims(seen, Frontier(o, acc)) BY <1>2, <1>4, <1>5, <1>6, FrontierHolds
    <3>2. Claims(seen', journal') BY <1>0, <2>1, <3>1
    <3> QED BY <3>2 DEF JournalOK
  <2>2. CASE pc = "scan" /\ scan.pos = End(range) /\ journal' = Frontier(o, Proven)
    <3>1. /\ Len(Proven) = idx /\ Proven \in Seq(RangeProofs)
          /\ \A k \in 1 .. idx - 1 : Proven[k] = acc[k]
      BY <2>2, ProvenHolds
    <3>2. idx - 1 <= Len(Proven) BY <1>3, <3>1
    <3>3. Claims(seen, Frontier(o, Proven)) BY <1>2, <1>4, <1>5, <3>1, <3>2, FrontierHolds
    <3>4. Claims(seen', journal') BY <1>0, <2>2, <3>3
    <3> QED BY <3>4 DEF JournalOK
  <2>3. CASE journal' = Torn BY <2>3 DEF JournalOK, Torn
  <2> QED BY <1>1, <2>1, <2>2, <2>3
<1>8. DiskOK' BY <1>0 DEF RangeInv, DiskOK
<1> QED BY <1>0, <1>7, <1>8, OffKeeps

(* The volume may change only between runs, and a journal claims nothing of  *)
(* what is there now: it is checked when it is planned from.                 *)
LEMMA EditKeeps ==
  ASSUME RangeInv, Edit PROVE RangeInv'
<1>0. pc = "off" /\ UNCHANGED <<journal, pc, seen>> BY DEF Edit
<1>1. PICK b \in 1..Blocks, v \in Versions, l \in Layouts, i \in {disk.ident, edits + 2} :
        disk' = [bytes |-> [disk.bytes EXCEPT ![b] = v], layout |-> l, ident |-> i]
  BY DEF Edit
<1>2. DiskOK' BY <1>1 DEF RangeInv, DiskOK
<1>3. JournalOK' BY <1>0 DEF RangeInv, JournalOK
<1> QED BY <1>0, <1>2, <1>3, OffKeeps

-----------------------------------------------------------------------------
(* Every step keeps the invariant.                                           *)
LEMMA RangeStep ==
  ASSUME RangeInv, [Next]_vars PROVE RangeInv'
<1>1. CASE StartRun BY <1>1, StartKeeps
<1>2. CASE SkipRange BY <1>2, SkipKeeps
<1>3. CASE OpenRange BY <1>3, OpenKeeps
<1>4. CASE ReadBlock BY <1>4, ReadKeeps
<1>5. CASE FileFrontier BY <1>5, FileKeeps
<1>6. CASE RootEnds BY <1>6, RootKeeps
<1>7. CASE RangeDone BY <1>7, DoneKeeps
<1>8. CASE RangeFails BY <1>8, FailKeeps
<1>9. CASE Finish BY <1>9, FinishKeeps
<1>10. CASE Exit \/ Kill
  <2>1. pc' = "off" /\ UNCHANGED <<disk, journal, seen>> BY <1>10 DEF Exit, Kill
  <2>2. DiskOK' /\ JournalOK' BY <2>1 DEF RangeInv, DiskOK, JournalOK
  <2> QED BY <2>1, <2>2, OffKeeps
<1>11. CASE Edit BY <1>11, EditKeeps
<1>12. CASE UNCHANGED vars
  <2>1. UNCHANGED <<disk, journal, pc, list, idx, from, acc, active, scan, seen>>
    BY <1>12 DEF vars
  <2>2. DiskOK' /\ JournalOK' /\ PlaceOK'
    BY <2>1 DEF RangeInv, DiskOK, JournalOK, PlaceOK, Busy, InRange
  <2>3. DoneOK' BY <2>1 DEF RangeInv, DoneOK, Done, Busy
  <2>4. AccOK' BY <2>1 DEF RangeInv, AccOK, Busy, Accumulated, Span
  <2>5. AccLen' /\ FromOK'
    BY <2>1 DEF RangeInv, AccLen, FromOK, InRange, Due, Point, Resumable
  <2>6. ScanOK'
    <3>1. range' = range BY <2>1 DEF range
    <3> QED BY <2>1, <3>1 DEF RangeInv, ScanOK, InRange, Resumable
  <2> QED BY <2>2, <2>3, <2>4, <2>5, <2>6 DEF RangeInv
<1> QED
  BY <1>1, <1>2, <1>3, <1>4, <1>5, <1>6, <1>7, <1>8, <1>9, <1>10, <1>11, <1>12 DEF Next

(* The invariant says what the two properties do.                            *)
LEMMA RangeInvCovers ==
  ASSUME RangeInv PROVE ListCovered
<1> SUFFICES ASSUME pc = "finished", NEW i \in DOMAIN list, NEW b \in BlocksOf(list[i])
             PROVE  <<b, disk.bytes[b + 1]>> \in seen
  BY DEF ListCovered
<1>1. list \in Layouts /\ idx > Len(list) /\ idx \in 1 .. Len(list) + 1
  BY DEF RangeInv, PlaceOK, Busy
<1>2. i \in 1..Len(list) /\ Len(list) \in Nat BY <1>1, LayoutAssumption, LenProperties
<1>3. i < idx BY <1>1, <1>2
<1>4. Given(seen, disk.bytes, list[i].start, End(list[i]))
  BY <1>2, <1>3 DEF RangeInv, DoneOK, Done, Busy
<1> QED BY <1>4 DEF Given, BlocksOf

(* The same, of the accumulated proofs.                                      *)
LEMMA RangeInvFollows ==
  ASSUME RangeInv PROVE ProofsFollowRanges
<1> SUFFICES ASSUME pc \in {"range", "scan"}
             PROVE  /\ Len(acc) = idx - 1
                       \/ (pc = "range" /\ Len(acc) = idx /\ from >= End(list[idx]))
                    /\ \A i \in DOMAIN acc :
                         acc[i] = [index |-> i, start |-> list[i].start,
                                   hash |-> Span(list[i].start, list[i].len)]
  BY DEF ProofsFollowRanges
<1>1. Accumulated(list, acc) BY DEF RangeInv, AccOK, Busy
<1>2. DOMAIN acc = 1..Len(acc) BY <1>1, LenProperties DEF Accumulated
<1>3. Len(acc) = idx - 1 \/ (pc = "range" /\ Len(acc) = idx /\ from >= End(list[idx]))
  BY DEF RangeInv, AccLen, Due
<1> QED BY <1>1, <1>2, <1>3 DEF Accumulated

(* Every reachable state satisfies the invariant.                            *)
LEMMA RangesAlways == Spec => []RangeInv
  BY RangesInit, RangeStep, PTL DEF Spec

(* A range scan that ends well, after whatever kills, failures, resumes and  *)
(* changes of the volume, has delivered every block of its list as it now is.*)
THEOREM RangesCovered == Spec => []ListCovered
  BY RangesAlways, RangeInvCovers, PTL

(* While a list is scanned, the accumulated proofs are those of exactly the  *)
(* ranges before, in order, over what those ranges now hold.                 *)
THEOREM RangesProven == Spec => []ProofsFollowRanges
  BY RangesAlways, RangeInvFollows, PTL

-----------------------------------------------------------------------------
(* The lines of a patch.                                                      *)

(* The parser knows as much as the writer: the commit and the file, no hunk *)
(* outside a file, and within a hunk the line of the new file.              *)
Writers == [commit : Commits \cup {Nobody}, path : FilePaths \cup {Nobody}, left : Nat, line : Nat]
Contexts == [commit : Commits \cup {Nobody}, path : FilePaths \cup {Nobody},
             minus : FilePaths \cup {Nobody}, inHunk : BOOLEAN, newLine : Nat]

Shapes == w \in Writers /\ ctx \in Contexts
InStep == ctx.commit = w.commit /\ ctx.path = w.path
HunksInFiles == ctx.inHunk => w.path # Nobody
HunkCounted == w.left > 0 => ctx.inHunk /\ ctx.newLine = w.line

PatchInv == Shapes /\ InStep /\ HunksInFiles /\ HunkCounted /\ AttributionTrue

(* A line outside a hunk, or that cannot be content of one, is of no line.  *)
LEMMA HeaderStamp ==
  ASSUME NEW c \in Contexts, NEW l, l.first \notin {"+", " "} \/ ~c.inHunk
  PROVE  attributeLine(c, l) = Of(c.commit, c.path, 0) /\ classifyPost(c, l) = c
  BY DEF attributeLine, classifyPost, Of

(* Counting the lines of a hunk.                                            *)
LEMMA NoneLeft == ASSUME NEW n, n = 0 PROVE ~(n > 0)
OBVIOUS

LEMMA Counting ==
  ASSUME NEW n \in Nat, NEW m \in Nat
  PROVE  n + 1 \in Nat /\ (m > 0 => m - 1 \in Nat)
OBVIOUS

(* It holds before the first line.                                          *)
LEMMA PatchStarts ==
  ASSUME PatchInit PROVE PatchInv
<1>1. Shapes BY DEF PatchInit, Shapes, Writers, Contexts
<1>2. InStep /\ HunksInFiles /\ HunkCounted BY DEF PatchInit, InStep, HunksInFiles, HunkCounted
<1>3. AttributionTrue BY DEF PatchInit, AttributionTrue
<1> QED BY <1>1, <1>2, <1>3 DEF PatchInv

(* A step whose line the parser takes for what the writer has just set out  *)
(* to write, outside a hunk, keeps the invariant.                           *)
LEMMA HeaderKeeps ==
  ASSUME NEW l, NEW c, NEW t, Parse(l, t),
         c = (IF l.first = "" THEN ctx ELSE classifyPre(ctx, l)),
         c \in Contexts, w' \in Writers,
         c.commit = w'.commit, c.path = w'.path, t = Of(c.commit, c.path, 0),
         c.inHunk => w'.path # Nobody,
         w'.left > 0 => c.inHunk /\ c.newLine = w'.line,
         l.first \notin {"+", " "} \/ ~c.inHunk
  PROVE  PatchInv'
<1>1. stamp' = attributeLine(c, l) /\ ctx' = classifyPost(c, l) /\ truth' = t BY DEF Parse
<1>2. stamp' = t /\ ctx' = c BY <1>1, HeaderStamp
<1>3. AttributionTrue' BY <1>1, <1>2 DEF AttributionTrue
<1>4. Shapes' /\ InStep' BY <1>2 DEF Shapes, InStep
<1>5. HunksInFiles' BY <1>2 DEF HunksInFiles
<1>6. HunkCounted' BY <1>2 DEF HunkCounted
<1> QED BY <1>3, <1>4, <1>5, <1>6 DEF PatchInv

(* The headers of a commit, of a file and of its sides.                     *)
LEMMA CommitKeeps ==
  ASSUME PatchInv, WriteCommit PROVE PatchInv'
<1>1. PICK h \in Commits :
        /\ w' = [w EXCEPT !.commit = h, !.path = Nobody]
        /\ Parse(Line("commit", "c", h), Of(h, Nobody, 0))
  BY DEF WriteCommit
<1> DEFINE l == Line("commit", "c", h)
           c == [ctx EXCEPT !.commit = h, !.path = Nobody, !.minus = Nobody, !.inHunk = FALSE]
<1>2. w \in Writers /\ ctx \in Contexts /\ w.left = 0
  BY DEF PatchInv, Shapes, WriteCommit, Between
<1>3. l.head = "commit" /\ l.first = "c" /\ l.arg = h BY DEF Line
<1> HIDE DEF l
<1>4. c = IF l.first = "" THEN ctx ELSE classifyPre(ctx, l)
  BY <1>3 DEF classifyPre, HunkBytes
<1>5. c \in Contexts /\ w' \in Writers BY <1>1, <1>2 DEF Contexts, Writers
<1>6. c.commit = h /\ c.path = Nobody /\ ~c.inHunk BY <1>2 DEF Contexts
<1>7. w'.commit = h /\ w'.path = Nobody /\ w'.left = 0 BY <1>1, <1>2 DEF Writers
<1>8. Parse(l, Of(h, Nobody, 0)) BY <1>1 DEF l
<1>9. ~(w'.left > 0) BY <1>7
<1> HIDE DEF c
<1> QED BY <1>4, <1>5, <1>6, <1>7, <1>8, <1>9, HeaderKeeps

LEMMA DiffKeeps ==
  ASSUME PatchInv, WriteDiff PROVE PatchInv'
<1>1. PICK p \in FilePaths :
        /\ w' = [w EXCEPT !.path = p]
        /\ Parse(Line("diff", "d", p), Of(w.commit, p, 0))
  BY DEF WriteDiff
<1> DEFINE l == Line("diff", "d", p)
           c == [ctx EXCEPT !.path = p, !.minus = Nobody, !.inHunk = FALSE]
<1>2. /\ w \in Writers /\ ctx \in Contexts /\ w.left = 0
      /\ ctx.commit = w.commit
  BY DEF PatchInv, Shapes, InStep, WriteDiff, Between
<1>3. l.head = "diff" /\ l.first = "d" /\ l.arg = p BY DEF Line
<1> HIDE DEF l
<1>4. c = IF l.first = "" THEN ctx ELSE classifyPre(ctx, l)
  BY <1>3 DEF classifyPre, HunkBytes
<1>5. c \in Contexts /\ w' \in Writers BY <1>1, <1>2 DEF Contexts, Writers
<1>6. c.commit = w.commit /\ c.path = p /\ ~c.inHunk BY <1>2 DEF Contexts
<1>7. w'.commit = w.commit /\ w'.path = p /\ w'.left = 0 BY <1>1, <1>2 DEF Writers
<1>8. Parse(l, Of(w.commit, p, 0)) BY <1>1 DEF l
<1>9. ~(w'.left > 0) BY <1>7
<1> HIDE DEF c
<1> QED BY <1>4, <1>5, <1>6, <1>7, <1>8, <1>9, HeaderKeeps

LEMMA SidesKeep ==
  ASSUME PatchInv, WriteSides PROVE PatchInv'
<1>1. PICK h \in {"---", "+++"}, p \in {w.path, Nobody} :
        /\ h = "+++" /\ p = Nobody => ctx.minus = w.path
        /\ Parse(Line(h, IF h = "---" THEN "-" ELSE "+", p), Of(w.commit, w.path, 0))
  BY DEF WriteSides
<1> DEFINE l == Line(h, IF h = "---" THEN "-" ELSE "+", p)
           c == classifyPre(ctx, l)
<1>2. /\ w \in Writers /\ ctx \in Contexts /\ w.left = 0 /\ w' = w
      /\ ctx.commit = w.commit /\ ctx.path = w.path /\ w.path # Nobody /\ ~ctx.inHunk
  BY DEF PatchInv, Shapes, InStep, WriteSides, Between
<1>3. l.head = h /\ l.first = (IF h = "---" THEN "-" ELSE "+") /\ l.arg = p BY DEF Line
<1>4. Parse(l, Of(w.commit, w.path, 0)) BY <1>1
<1> HIDE DEF l
<1>5. c = IF l.first = "" THEN ctx ELSE classifyPre(ctx, l) BY <1>3
<1>6. c \in Contexts /\ c.commit = w.commit /\ c.path = w.path /\ ~c.inHunk
  <2>1. CASE h = "---"
    <3>1. c = [ctx EXCEPT !.minus = p, !.inHunk = FALSE] BY <1>2, <1>3, <2>1 DEF classifyPre
    <3> QED BY <1>2, <3>1 DEF Contexts, Writers
  <2>2. CASE h = "+++"
    <3> DEFINE q == IF p # Nobody THEN p ELSE IF ctx.minus # Nobody THEN ctx.minus ELSE ctx.path
    <3>1. c = [ctx EXCEPT !.path = q, !.inHunk = FALSE] BY <1>2, <1>3, <2>2 DEF classifyPre
    <3>2. q = w.path BY <1>1, <1>2, <2>2
    <3> HIDE DEF q
    <3> QED BY <1>2, <3>1, <3>2 DEF Contexts, Writers
  <2> QED BY <2>1, <2>2
<1> HIDE DEF c
<1>7. ~(w'.left > 0) BY <1>2
<1>8. w' \in Writers /\ w'.commit = w.commit /\ w'.path = w.path BY <1>2
<1> QED BY <1>4, <1>5, <1>6, <1>7, <1>8, HeaderKeeps

(* Lines that end a hunk: indented ones, and those of no known form.        *)
LEMMA OtherKeeps ==
  ASSUME PatchInv, NEW h, NEW f,
         Parse(Line(h, f, Nobody), Of(w.commit, w.path, 0)), w' = w, w.left = 0,
         h \notin {"commit", "diff", "---", "+++", "@@"}, f # "",
         ~ctx.inHunk \/ f \notin HunkBytes
  PROVE  PatchInv'
<1> DEFINE l == Line(h, f, Nobody)
           c == EndHunk(ctx)
<1>1. /\ w \in Writers /\ ctx \in Contexts /\ ctx.commit = w.commit /\ ctx.path = w.path
  BY DEF PatchInv, Shapes, InStep
<1>2. l.head = h /\ l.first = f BY DEF Line
<1>3. Parse(l, Of(w.commit, w.path, 0)) OBVIOUS
<1> HIDE DEF l
<1>4. c = IF l.first = "" THEN ctx ELSE classifyPre(ctx, l) BY <1>2 DEF classifyPre
<1>5. c \in Contexts /\ c.commit = w.commit /\ c.path = w.path /\ ~c.inHunk
  BY <1>1 DEF Contexts, EndHunk
<1> HIDE DEF c
<1>6. w' \in Writers /\ w'.commit = w.commit /\ w'.path = w.path BY <1>1
<1>7. ~(w'.left > 0) BY NoneLeft
<1> QED BY <1>3, <1>4, <1>5, <1>6, <1>7, HeaderKeeps

LEMMA MessageKeeps ==
  ASSUME PatchInv, WriteMessage PROVE PatchInv'
<1>1. PICK h \in Quoted : Parse(Line(h, " ", Nobody), Of(w.commit, Nobody, 0))
  BY DEF WriteMessage
<1>2. w.left = 0 /\ w.path = Nobody /\ w' = w BY DEF WriteMessage, Between
<1>3. ~ctx.inHunk BY <1>2 DEF PatchInv, HunksInFiles
<1>4. h \notin {"commit", "diff", "---", "+++", "@@"} BY DEF Quoted
<1> QED BY <1>1, <1>2, <1>3, <1>4, OtherKeeps

LEMMA BinaryKeeps ==
  ASSUME PatchInv, WriteBinary PROVE PatchInv'
<1>1. Parse(Line("Binary", "B", Nobody), Of(w.commit, w.path, 0)) /\ w.left = 0 /\ w' = w
  BY DEF WriteBinary, Between
<1>2. "B" \notin HunkBytes /\ "B" # "" BY DEF HunkBytes
<1>3. "Binary" \notin {"commit", "diff", "---", "+++", "@@"} OBVIOUS
<1> QED BY <1>1, <1>2, <1>3, OtherKeeps

(* A line the parser takes as it stands: blank, or the marker in a hunk.    *)
LEMMA SameKeeps ==
  ASSUME PatchInv, NEW l, Parse(l, Of(w.commit, w.path, 0)), w' = w,
         l.first = "" \/ (ctx.inHunk /\ l.first = "\\")
  PROVE  PatchInv'
<1>1. /\ w \in Writers /\ ctx \in Contexts /\ ctx.commit = w.commit /\ ctx.path = w.path
      /\ ctx.inHunk => w.path # Nobody
      /\ w.left > 0 => ctx.inHunk /\ ctx.newLine = w.line
  BY DEF PatchInv, Shapes, InStep, HunksInFiles, HunkCounted
<1>2. ctx = IF l.first = "" THEN ctx ELSE classifyPre(ctx, l) BY DEF classifyPre, HunkBytes
<1>3. l.first \notin {"+", " "} OBVIOUS
<1> QED BY <1>1, <1>2, <1>3, HeaderKeeps

LEMMA HunkKeeps ==
  ASSUME PatchInv, WriteHunk PROVE PatchInv'
<1>1. PICK s \in HunkStarts, n \in HunkLens :
        /\ w' = [w EXCEPT !.left = n, !.line = s]
        /\ Parse(Line("@@", "@", s), Of(w.commit, w.path, 0))
  BY DEF WriteHunk
<1> DEFINE l == Line("@@", "@", s)
           c == [ctx EXCEPT !.newLine = s, !.inHunk = TRUE]
<1>2. /\ w \in Writers /\ ctx \in Contexts /\ w.path # Nobody
      /\ ctx.commit = w.commit /\ ctx.path = w.path
      /\ s \in Nat /\ n \in Nat
  BY HunkAssumption DEF PatchInv, Shapes, InStep, WriteHunk
<1>3. l.head = "@@" /\ l.first = "@" /\ l.arg = s BY DEF Line
<1> HIDE DEF l
<1>4. c = IF l.first = "" THEN ctx ELSE classifyPre(ctx, l)
  BY <1>3 DEF classifyPre, HunkBytes
<1>5. c \in Contexts /\ w' \in Writers BY <1>1, <1>2 DEF Contexts, Writers
<1>6. c.commit = w.commit /\ c.path = w.path /\ c.inHunk /\ c.newLine = s BY <1>2 DEF Contexts
<1>7. w'.commit = w.commit /\ w'.path = w.path /\ w'.line = s BY <1>1, <1>2 DEF Writers
<1>8. Parse(l, Of(w.commit, w.path, 0)) BY <1>1 DEF l
<1> HIDE DEF c
<1>9. l.first \notin {"+", " "} BY <1>3
<1> QED BY <1>2, <1>4, <1>5, <1>6, <1>7, <1>8, <1>9, HeaderKeeps

(* A line of the hunk, where the parser counts as the writer does.          *)
LEMMA ContentKeeps ==
  ASSUME PatchInv, WriteContent PROVE PatchInv'
<1>1. PICK b \in {"+", "-", " "}, h \in {"text", "+++", "---"} :
        /\ w' = [w EXCEPT !.left = @ - 1, !.line = IF b # "-" THEN @ + 1 ELSE @]
        /\ Parse(Line(h, b, Nobody), Of(w.commit, w.path, IF b # "-" THEN w.line ELSE 0))
  BY DEF WriteContent
<1> DEFINE l == Line(h, b, Nobody)
           n == IF b # "-" THEN w.line + 1 ELSE w.line
<1>2. /\ w \in Writers /\ ctx \in Contexts /\ w.left > 0
      /\ ctx.commit = w.commit /\ ctx.path = w.path
      /\ ctx.inHunk /\ ctx.newLine = w.line /\ w.path # Nobody
  BY DEF PatchInv, Shapes, InStep, HunksInFiles, HunkCounted, WriteContent
<1>3. l.first = b BY DEF Line
<1>4. Parse(l, Of(w.commit, w.path, IF b # "-" THEN w.line ELSE 0)) BY <1>1
<1> HIDE DEF l
<1>5. (IF l.first = "" THEN ctx ELSE classifyPre(ctx, l)) = ctx
  BY <1>2, <1>3 DEF classifyPre, HunkBytes
<1>6. /\ stamp' = attributeLine(ctx, l) /\ ctx' = classifyPost(ctx, l)
      /\ truth' = Of(w.commit, w.path, IF b # "-" THEN w.line ELSE 0)
  BY <1>4, <1>5 DEF Parse
<1>7. stamp' = Of(w.commit, w.path, IF b # "-" THEN w.line ELSE 0)
  BY <1>2, <1>3, <1>6 DEF attributeLine, Of
<1>8. ctx' = [ctx EXCEPT !.newLine = n]
  <2>1. CASE b = "-" BY <1>2, <1>3, <1>6, <2>1 DEF classifyPost, Contexts
  <2>2. CASE b # "-" BY <1>2, <1>3, <1>6, <2>2 DEF classifyPost, Contexts
  <2> QED BY <2>1, <2>2
<1>9. w.left \in Nat /\ w.line \in Nat BY <1>2 DEF Writers
<1>10. w' = [w EXCEPT !.left = w.left - 1, !.line = n] BY <1>1, <1>2 DEF Writers
<1>11. n \in Nat /\ w.left - 1 \in Nat
  <2> QED BY <1>2, <1>9, Counting
<1> HIDE DEF n
<1>12. Shapes' BY <1>2, <1>8, <1>10, <1>11 DEF Shapes, Writers, Contexts
<1>13. InStep' BY <1>2, <1>8, <1>10 DEF InStep, Writers, Contexts
<1>14. HunksInFiles' BY <1>2, <1>10 DEF HunksInFiles, Writers
<1>15. HunkCounted' BY <1>2, <1>8, <1>10 DEF HunkCounted, Writers, Contexts
<1>16. AttributionTrue' BY <1>6, <1>7 DEF AttributionTrue
<1> QED BY <1>12, <1>13, <1>14, <1>15, <1>16 DEF PatchInv

-----------------------------------------------------------------------------
(* Every step keeps the invariant.                                          *)
LEMMA PatchStep ==
  ASSUME PatchInv, [PatchNext]_patchVars PROVE PatchInv'
<1>1. CASE WriteCommit BY <1>1, CommitKeeps
<1>2. CASE WriteMessage BY <1>2, MessageKeeps
<1>3. CASE WriteBlank
  <2>1. Parse(Line("", "", Nobody), Of(w.commit, w.path, 0)) /\ w' = w BY <1>3 DEF WriteBlank
  <2>2. Line("", "", Nobody).first = "" BY DEF Line
  <2> QED BY <2>1, <2>2, SameKeeps
<1>4. CASE WriteDiff BY <1>4, DiffKeeps
<1>5. CASE WriteSides BY <1>5, SidesKeep
<1>6. CASE WriteBinary BY <1>6, BinaryKeeps
<1>7. CASE WriteHunk BY <1>7, HunkKeeps
<1>8. CASE WriteContent BY <1>8, ContentKeeps
<1>9. CASE WriteNoNewline
  <2>1. /\ Parse(Line("\\", "\\", Nobody), Of(w.commit, w.path, 0)) /\ w' = w
        /\ ctx.inHunk
    BY <1>9 DEF WriteNoNewline
  <2>2. Line("\\", "\\", Nobody).first = "\\" BY DEF Line
  <2> QED BY <2>1, <2>2, SameKeeps
<1>10. CASE UNCHANGED patchVars
  BY <1>10 DEF patchVars, PatchInv, Shapes, InStep, HunksInFiles, HunkCounted, AttributionTrue
<1> QED
  BY <1>1, <1>2, <1>3, <1>4, <1>5, <1>6, <1>7, <1>8, <1>9, <1>10 DEF PatchNext

(* Every line git writes is attributed to its commit, its file and its line *)
(* of the new file, and to no line when it is none of that file: whatever a *)
(* message quotes or a line of the file begins with (PatchScanner).         *)
THEOREM PatchAttributed == PatchSpec => []AttributionTrue
<1>1. PatchInv => AttributionTrue BY DEF PatchInv
<1> QED BY PatchStarts, PatchStep, <1>1, PTL DEF PatchSpec

-----------------------------------------------------------------------------
(* A pipe, spilled or streamed.                                               *)

Scanning == stage \in {"scan", "reread", "deliver"}

(* The invariant that the steps keep. The spill is on disk from CreateTemp   *)
(* to the return; the count goes past the cap by at most the one byte that   *)
(* proves the overflow, and never past what the writer sent; whoever got as  *)
(* far as the scan has seen the end of the pipe.                             *)
Counts == bytes \in Nat /\ total \in Nat /\ total <= bytes /\ total <= Cap + 1
Places == /\ stage \in {"start", "spill", "scan", "reread", "deliver", "returned"}
          /\ onDisk \in BOOLEAN
          /\ onDisk <=> stage \notin {"start", "returned"}
Ended == Scanning => total = bytes
SpillInv == Counts /\ Places /\ Ended

(* A read leaves the count within the pipe and within one byte of the cap:   *)
(* spillBounded asks for no more than Cap + 1 - total bytes.                 *)
LEMMA ReadsFit ==
  ASSUME Chunk \in Nat, Cap \in Nat, Counts, NEW n \in Reads
  PROVE  /\ total + n \in Nat
         /\ total + n <= bytes
         /\ total + n <= Cap + 1
  BY SMT DEF Counts, Reads, Least, Room

(* The initial states: nothing is spilled and no file exists.                *)
LEMMA SpillInit ==
  ASSUME Pipe \subseteq Nat, Cap \in Nat
  PROVE  PipeInit => SpillInv
<1> SUFFICES ASSUME PipeInit PROVE SpillInv OBVIOUS
<1>1. bytes \in Nat /\ total = 0 /\ stage = "start" /\ onDisk = FALSE BY DEF PipeInit
<1>2. Counts BY <1>1 DEF Counts
<1>3. Places BY <1>1 DEF Places
<1>4. Ended BY <1>1 DEF Ended, Scanning
<1> QED BY <1>2, <1>3, <1>4 DEF SpillInv

(* Every way out that removes the file, and no other write to the counts.    *)
LEMMA LeaveKeeps ==
  ASSUME SpillInv, NEW r, Leave(r), UNCHANGED bytes,
         total' \in Nat, total' <= bytes, total' <= Cap + 1
  PROVE  SpillInv'
<1>1. stage' = "returned" /\ onDisk' = FALSE BY DEF Leave, Return
<1>2. Counts' BY DEF SpillInv, Counts
<1>3. Places' BY <1>1 DEF Places
<1>4. Ended' BY <1>1 DEF Ended, Scanning
<1> QED BY <1>2, <1>3, <1>4 DEF SpillInv

(* Each step of the call, and a cancel, keeps the invariant.                 *)
LEMMA SpillStep ==
  ASSUME Chunk \in Nat, Cap \in Nat
  PROVE  SpillInv /\ [PipeNext]_pipeVars => SpillInv'
<1> SUFFICES ASSUME SpillInv, [PipeNext]_pipeVars PROVE SpillInv' OBVIOUS
<1> USE DEF SpillInv
<1>1. CASE Start
  <2>1. CASE stage' = "spill" /\ onDisk' = TRUE
    BY <1>1, <2>1 DEF Start, Counts, Places, Ended, Scanning
  <2>2. CASE stage' = "returned" /\ UNCHANGED onDisk
    BY <1>1, <2>2 DEF Start, Counts, Places, Ended, Scanning
  <2> QED BY <1>1, <2>1, <2>2 DEF Start, Return
<1>2. CASE SpillRead
  <2>1. UNCHANGED bytes /\ stage = "spill" BY <1>2 DEF SpillRead
  <2>2. CASE Leave("failed") /\ UNCHANGED total
    BY <2>1, <2>2, LeaveKeeps DEF Counts
  <2>3. CASE \E n \in Reads :
               /\ total' = total + n
               /\ IF Overflows(n) THEN Leave("cap")
                  ELSE \/ n > 0 /\ UNCHANGED <<stage, onDisk, result>>
                       \/ total' = bytes /\ stage' = "scan" /\ UNCHANGED <<onDisk, result>>
    <3>1. PICK n \in Reads :
               /\ total' = total + n
               /\ IF Overflows(n) THEN Leave("cap")
                  ELSE \/ n > 0 /\ UNCHANGED <<stage, onDisk, result>>
                       \/ total' = bytes /\ stage' = "scan" /\ UNCHANGED <<onDisk, result>>
      BY <2>3
    <3>2. total' \in Nat /\ total' <= bytes /\ total' <= Cap + 1
      BY <3>1, ReadsFit
    <3>3. CASE Leave("cap")
      BY <2>1, <3>2, <3>3, LeaveKeeps
    <3>4. CASE UNCHANGED <<stage, onDisk, result>>
      BY <2>1, <3>2, <3>4 DEF Counts, Places, Ended, Scanning
    <3>5. CASE total' = bytes /\ stage' = "scan" /\ UNCHANGED <<onDisk, result>>
      BY <2>1, <3>2, <3>5 DEF Counts, Places, Ended, Scanning
    <3> QED BY <3>1, <3>3, <3>4, <3>5
  <2> QED BY <1>2, <2>2, <2>3 DEF SpillRead
<1>3. CASE SpillCanceled
  BY <1>3, LeaveKeeps DEF SpillCanceled, Counts
<1>4. CASE Report
  BY <1>4 DEF Report, Counts, Places, Ended, Scanning
<1>5. CASE PipelineEnds
  <2>1. UNCHANGED <<bytes, total>> /\ stage = "scan" BY <1>5 DEF PipelineEnds
  <2>2. CASE stage' = "reread" /\ UNCHANGED onDisk
    BY <2>1, <2>2 DEF Counts, Places, Ended, Scanning
  <2>3. CASE \E r : Leave(r)
    BY <2>1, <2>3, LeaveKeeps DEF Counts
  <2> QED BY <1>5, <2>2, <2>3 DEF PipelineEnds
<1>6. CASE Reread
  <2>1. UNCHANGED <<bytes, total>> /\ stage = "reread" BY <1>6 DEF Reread
  <2>2. CASE stage' = "deliver" /\ UNCHANGED onDisk
    BY <2>1, <2>2 DEF Counts, Places, Ended, Scanning
  <2>3. CASE \E r : Leave(r)
    BY <2>1, <2>3, LeaveKeeps DEF Counts
  <2> QED BY <1>6, <2>2, <2>3 DEF Reread
<1>7. CASE Deliver
  BY <1>7, LeaveKeeps DEF Deliver, Counts
<1>8. CASE Cancel
  BY <1>8 DEF Cancel, Counts, Places, Ended, Scanning
<1>9. CASE UNCHANGED pipeVars
  BY <1>9 DEF pipeVars, Counts, Places, Ended, Scanning
<1> QED BY <1>1, <1>2, <1>3, <1>4, <1>5, <1>6, <1>7, <1>8, <1>9 DEF PipeNext, Run

(* The pipeline runs over everything the writer sent, and the spill stays    *)
(* within one byte of its cap, whatever the reads return (spillBounded,      *)
(* ScanStdinWithOptions).                                                    *)
THEOREM PipeIsWhole ==
  ASSUME Pipe \subseteq Nat, Chunk \in Nat, Cap \in Nat
  PROVE  PipeSpec => []WholePipeScanned
<1>1. PipeInit => SpillInv BY SpillInit
<1>2. SpillInv /\ [PipeNext]_pipeVars => SpillInv' BY SpillStep
<1>3. SpillInv => WholePipeScanned
  BY DEF SpillInv, Counts, Places, Ended, Scanning, WholePipeScanned
<1> QED BY <1>1, <1>2, <1>3, PTL DEF PipeSpec

(* No spill file outlives the call, whichever return ended it                *)
(* (ScanStdinWithOptions' deferred removal).                                 *)
THEOREM SpillIsRemoved ==
  ASSUME Pipe \subseteq Nat, Chunk \in Nat, Cap \in Nat
  PROVE  PipeSpec => []SpillRemoved
<1>1. PipeInit => SpillInv BY SpillInit
<1>2. SpillInv /\ [PipeNext]_pipeVars => SpillInv' BY SpillStep
<1>3. SpillInv => SpillRemoved BY DEF SpillInv, Places, SpillRemoved
<1> QED BY <1>1, <1>2, <1>3, PTL DEF PipeSpec

-----------------------------------------------------------------------------
(* What is delivered, and how it matches the outcome.                        *)

Finding == [hit : Nat, commit : {"none", "known"}]

(* The findings reported so far lie where the mode keeps them.               *)
Held == IF patch = TRUE THEN buffered ELSE delivered

(* Findings wait for attribution in patch mode only, and are handed over in  *)
(* one go or not at all.                                                     *)
Keeping ==
  /\ patch \in BOOLEAN /\ canceled \in BOOLEAN
  /\ buffered \in Seq(Finding) /\ delivered \in Seq(Finding)
  /\ patch = FALSE => buffered = <<>> /\ stage \notin {"reread", "deliver"}
  /\ patch = TRUE /\ stage # "returned" => delivered = <<>>

(* They are those of the bytes reported so far, which are of the spill.      *)
Reporting ==
  /\ at \in Nat /\ at <= total
  /\ stage \in {"start", "spill"} => at = 0
  /\ FindingsTo(Held, at)

(* An outcome is told once; success means the pipeline saw the last byte.    *)
(* In patch mode success, and a failure that no cancel accompanies, deliver  *)
(* all that is held, and a cancelled scan nothing.                           *)
Concluding ==
  /\ stage \in {"reread", "deliver"} => runErr \in {"ok", "failed"}
  /\ runErr = "ok" => Scanning \/ stage = "returned"
  /\ runErr = "ok" => at = total /\ total = bytes
  /\ stage # "returned" => result = "none"
  /\ result = "ok" => runErr = "ok" /\ Held = delivered
  /\ result = "failed" /\ Held # delivered => canceled = TRUE
  /\ patch = TRUE /\ result = "canceled" => delivered = <<>>
  /\ patch = TRUE => delivered \in {<<>>, buffered}

DeliveryInv == SpillInv /\ Keeping /\ Reporting /\ Concluding

(* One finding more, of the byte just reported, or none.                     *)
LEMMA FindingsGrow ==
  ASSUME NEW s \in Seq(Finding), NEW n \in Nat, FindingsTo(s, n), n + 1 \in Hits
  PROVE  /\ Append(s, Note(n + 1)) \in Seq(Finding)
         /\ FindingsTo(Append(s, Note(n + 1)), n + 1)
<1> DEFINE t == Append(s, Note(n + 1))
<1>1. Note(n + 1) \in Finding /\ Note(n + 1).hit = n + 1 BY DEF Note, Finding
<1>2. /\ t \in Seq(Finding) /\ Len(t) = Len(s) + 1
      /\ DOMAIN t = 1 .. Len(s) + 1 /\ DOMAIN s = 1 .. Len(s)
      /\ \A i \in 1 .. Len(s) : t[i] = s[i]
      /\ t[Len(s) + 1] = Note(n + 1)
      /\ Len(s) \in Nat
  BY <1>1
<1>3. \A i \in DOMAIN s : s[i].hit \in Hits /\ s[i].hit \in 1 .. n BY DEF FindingsTo
<1>4. \A i, j \in DOMAIN s : i < j => s[i].hit < s[j].hit BY DEF FindingsTo
<1>5. {t[i].hit : i \in DOMAIN t} = {s[i].hit : i \in DOMAIN s} \cup {n + 1}
  <2> HIDE DEF t
  <2> QED BY <1>1, <1>2
<1>6. Hits \cap 1 .. n + 1 = (Hits \cap 1 .. n) \cup {n + 1} OBVIOUS
<1>7. {t[i].hit : i \in DOMAIN t} = Hits \cap 1 .. n + 1
  BY <1>5, <1>6 DEF FindingsTo
<1>8. ASSUME NEW i \in DOMAIN t, NEW j \in DOMAIN t, i < j
      PROVE  t[i].hit < t[j].hit
  <2> HIDE DEF t
  <2>1. i \in 1 .. Len(s) /\ t[i] = s[i] BY <1>2, <1>8
  <2>2. CASE j \in 1 .. Len(s)
    <3>1. t[j] = s[j] BY <1>2, <2>2
    <3> QED BY <1>2, <1>4, <1>8, <2>1, <2>2, <3>1
  <2>3. CASE j = Len(s) + 1
    <3>1. t[j].hit = n + 1 BY <1>1, <1>2, <2>3
    <3>2. s[i].hit \in 1 .. n BY <1>2, <1>3, <2>1
    <3> QED BY <2>1, <3>1, <3>2
  <2> QED BY <1>2, <1>8, <2>2, <2>3
<1> QED BY <1>2, <1>7, <1>8 DEF FindingsTo

(* A byte without a finding adds none.                                       *)
LEMMA FindingsStay ==
  ASSUME NEW s, NEW n \in Nat, FindingsTo(s, n), n + 1 \notin Hits
  PROVE  FindingsTo(s, n + 1)
<1>1. Hits \cap 1 .. n + 1 = Hits \cap 1 .. n OBVIOUS
<1> QED BY <1>1 DEF FindingsTo

(* The second reading changes no finding but for its commit (attributePatch).*)
LEMMA StampsKeep ==
  ASSUME buffered \in Seq(Finding), NEW n, NEW m, FindingsTo(buffered, m)
  PROVE  Stamped(n) \in Seq(Finding) /\ FindingsTo(Stamped(n), m)
<1>1. DOMAIN Stamped(n) = DOMAIN buffered BY DEF Stamped
<1>2. ASSUME NEW i \in DOMAIN buffered
      PROVE  Stamped(n)[i] \in Finding /\ Stamped(n)[i].hit = buffered[i].hit
  <2>1. buffered[i] \in Finding BY <1>2
  <2>2. Stamped(n)[i] = IF i <= n THEN [buffered[i] EXCEPT !.commit = "known"] ELSE buffered[i]
    BY <1>2 DEF Stamped
  <2> QED BY <2>1, <2>2 DEF Finding
<1>3. Stamped(n) \in Seq(Finding)
  <2>1. Len(buffered) \in Nat /\ DOMAIN buffered = 1 .. Len(buffered) OBVIOUS
  <2>2. Stamped(n) \in [1 .. Len(buffered) -> Finding] BY <1>1, <1>2, <2>1 DEF Stamped
  <2> QED BY <2>1, <2>2
<1>4. {Stamped(n)[i].hit : i \in DOMAIN Stamped(n)} = {buffered[i].hit : i \in DOMAIN buffered}
  BY <1>1, <1>2
<1> QED BY <1>1, <1>2, <1>3, <1>4 DEF FindingsTo

(* No byte holds no finding.                                                 *)
LEMMA NothingFound == <<>> \in Seq(Finding) /\ FindingsTo(<<>>, 0)
<1>1. DOMAIN <<>> = {} OBVIOUS
<1>2. {<<>>[i].hit : i \in DOMAIN <<>>} = {} BY <1>1
<1>3. 1 .. 0 = {} OBVIOUS
<1> QED BY <1>1, <1>2, <1>3 DEF FindingsTo

(* And is all that no finding can be of.                                     *)
LEMMA NothingYet ==
  ASSUME NEW s \in Seq(Finding), FindingsTo(s, 0)
  PROVE  s = <<>>
<1>1. DOMAIN s = 1 .. Len(s) /\ Len(s) \in Nat OBVIOUS
<1>2. \A i \in DOMAIN s : s[i].hit \in 1 .. 0 BY DEF FindingsTo
<1>3. DOMAIN s = {} BY <1>2
<1> QED BY <1>1, <1>3

(* Nothing is found or told before the pipeline starts.                      *)
LEMMA DeliveryInit ==
  ASSUME Pipe \subseteq Nat, Cap \in Nat
  PROVE  PipeInit => DeliveryInv
<1> SUFFICES ASSUME PipeInit PROVE DeliveryInv OBVIOUS
<1>1. SpillInv BY SpillInit
<1>2. /\ stage = "start" /\ at = 0 /\ buffered = <<>> /\ delivered = <<>>
      /\ total = 0 /\ runErr = "none" /\ result = "none"
  BY DEF PipeInit
<1>3. patch \in BOOLEAN /\ canceled \in BOOLEAN BY Zenon DEF PipeInit
<1>4. Keeping BY <1>2, <1>3, NothingFound DEF Keeping
<1>5. Held = <<>> BY <1>2 DEF Held
<1>6. Reporting BY <1>2, <1>5, NothingFound DEF Reporting
<1>7. Concluding BY <1>2 DEF Concluding
<1> QED BY <1>1, <1>4, <1>6, <1>7 DEF DeliveryInv

(* Each step of the call, and a cancel, keeps it.                            *)
LEMMA DeliveryStep ==
  ASSUME Chunk \in Nat, Cap \in Nat
  PROVE  DeliveryInv /\ [PipeNext]_pipeVars => DeliveryInv'
<1> SUFFICES ASSUME DeliveryInv, [PipeNext]_pipeVars PROVE DeliveryInv' OBVIOUS
<1>0. SpillInv' BY SpillStep DEF DeliveryInv
<1>k. Keeping /\ Reporting /\ Concluding /\ SpillInv BY DEF DeliveryInv
<1>t. at \in Nat /\ total \in Nat /\ at <= total /\ bytes \in Nat
  BY <1>k DEF Reporting, SpillInv, Counts
<1>1. CASE Start
  <2>1. UNCHANGED <<patch, bytes, total, at, buffered, delivered, canceled, runErr>>
    BY <1>1 DEF Start
  <2>2. Held' = Held BY <2>1 DEF Held
  <2>3. stage = "start" BY <1>1 DEF Start
  <2>4. \/ stage' = "spill" /\ result' = result
        \/ stage' = "returned" /\ result' \in {"canceled", "refused"}
    BY <1>1 DEF Start, Return
  <2>5. Keeping' BY <1>k, <2>1, <2>3, <2>4 DEF Keeping
  <2>6. Reporting' BY <1>k, <2>1, <2>2, <2>3, <2>4 DEF Reporting
  <2>7. Concluding' BY <1>k, <2>1, <2>2, <2>3, <2>4 DEF Concluding, Scanning, Keeping
  <2> QED BY <1>0, <2>5, <2>6, <2>7 DEF DeliveryInv
<1>2. CASE SpillRead
  <2>1. UNCHANGED <<patch, bytes, at, buffered, delivered, canceled, runErr>> /\ stage = "spill"
    BY <1>2 DEF SpillRead
  <2>2. Held' = Held BY <2>1 DEF Held
  <2>3. at = 0 /\ runErr # "ok" /\ result = "none" BY <1>k, <2>1 DEF Reporting, Concluding, Scanning
  <2>4. total' \in Nat BY <1>0 DEF SpillInv, Counts
  <2>5. \/ stage' \in {"spill", "scan"} /\ result' = result
        \/ stage' = "returned" /\ result' \in {"cap", "failed"}
    BY <1>2, <2>1 DEF SpillRead, Leave, Return
  <2>6. Keeping' BY <1>k, <2>1, <2>5 DEF Keeping
  <2>7. Reporting' BY <1>k, <2>1, <2>2, <2>3, <2>4 DEF Reporting
  <2>8. Held = delivered
    <3>1. Held \in Seq(Finding) BY <1>k DEF Held, Keeping
    <3>2. Held = <<>> BY <1>k, <2>3, <3>1, NothingYet DEF Reporting
    <3> QED BY <1>k, <2>1, <3>2 DEF Held, Keeping
  <2>9. Concluding' BY <1>k, <2>1, <2>2, <2>3, <2>5, <2>8 DEF Concluding, Scanning, Keeping
  <2> QED BY <1>0, <2>6, <2>7, <2>9 DEF DeliveryInv
<1>3. CASE SpillCanceled
  <2>1. /\ UNCHANGED <<patch, bytes, total, at, buffered, delivered, canceled, runErr>>
        /\ stage = "spill" /\ stage' = "returned" /\ result' = "canceled"
    BY <1>3 DEF SpillCanceled, Leave, Return
  <2>2. Held' = Held BY <2>1 DEF Held
  <2>3. at = 0 /\ runErr # "ok" BY <1>k, <2>1 DEF Reporting, Concluding, Scanning
  <2>4. Keeping' BY <1>k, <2>1 DEF Keeping
  <2>5. Reporting' BY <1>k, <2>1, <2>2 DEF Reporting
  <2>6. Concluding' BY <1>k, <2>1, <2>2, <2>3 DEF Concluding, Scanning, Keeping
  <2> QED BY <1>0, <2>4, <2>5, <2>6 DEF DeliveryInv
<1>4. CASE Report
  <2>1. /\ UNCHANGED <<patch, bytes, stage, total, canceled, runErr, result>>
        /\ stage = "scan" /\ at < total /\ at' = at + 1
    BY <1>4 DEF Report
  <2>2. runErr # "ok" BY <1>k, <2>1, <1>t DEF Concluding
  <2>3. /\ patch = TRUE => UNCHANGED delivered
        /\ patch = FALSE => UNCHANGED buffered
        /\ at + 1 \notin Hits => UNCHANGED <<buffered, delivered>>
        /\ at + 1 \in Hits => Held' = Append(Held, Note(at + 1))
    BY <1>4, <2>1 DEF Report, Held
  <2>4. Held \in Seq(Finding) BY <1>k DEF Keeping, Held
  <2>5. Held' \in Seq(Finding) /\ FindingsTo(Held', at + 1)
    <3>1. CASE at + 1 \in Hits
      BY <1>k, <1>t, <2>3, <2>4, <3>1, FindingsGrow DEF Reporting
    <3>2. CASE at + 1 \notin Hits
      <4>1. Held' = Held BY <2>1, <2>3, <3>2 DEF Held
      <4> QED BY <1>k, <1>t, <2>4, <3>2, <4>1, FindingsStay DEF Reporting
    <3> QED BY <3>1, <3>2
  <2>6. Keeping' BY <1>k, <2>1, <2>3, <2>5 DEF Keeping, Held
  <2>7. Reporting' BY <1>t, <2>1, <2>5 DEF Reporting, FindingsTo
  <2>8. Concluding' BY <1>k, <2>1, <2>2, <2>6 DEF Concluding, Keeping, Scanning
  <2> QED BY <1>0, <2>6, <2>7, <2>8 DEF DeliveryInv
<1>5. CASE PipelineEnds
  <2>1. /\ UNCHANGED <<patch, bytes, total, at, buffered, delivered, canceled>>
        /\ stage = "scan" /\ result = "none"
    BY <1>5, <1>k DEF PipelineEnds, Concluding
  <2>2. PICK e \in Endings :
          /\ runErr' = e
          /\ IF patch /\ ~canceled /\ buffered # <<>>
               THEN stage' = "reread" /\ UNCHANGED <<onDisk, result>>
               ELSE Leave(IF patch /\ canceled /\ e = "ok" THEN "canceled" ELSE e)
    BY <1>5 DEF PipelineEnds
  <2>3. /\ e \in {"failed", "ok", "canceled"}
        /\ e = "ok" => at = total
        /\ e = "canceled" => canceled = TRUE
    BY <1>k DEF Endings, Keeping
  <2>4. total = bytes BY <1>k, <2>1 DEF SpillInv, Ended, Scanning
  <2>5. Held' = Held BY <2>1 DEF Held
  <2>6. CASE stage' = "reread"
    <3>1. patch = TRUE /\ canceled = FALSE /\ UNCHANGED result
      BY <1>k, <2>1, <2>2, <2>6 DEF Keeping, Leave, Return
    <3>2. Keeping' BY <1>k, <2>1, <2>6, <3>1 DEF Keeping
    <3>3. Reporting' BY <1>k, <2>1, <2>5, <2>6 DEF Reporting
    <3>4. Concluding' BY <1>k, <2>1, <2>2, <2>3, <2>4, <2>6, <3>1 DEF Concluding, Scanning
    <3> QED BY <1>0, <3>2, <3>3, <3>4 DEF DeliveryInv
  <2>7. CASE stage' # "reread"
    <3>1. /\ patch = FALSE \/ canceled = TRUE \/ buffered = <<>>
          /\ stage' = "returned"
          /\ result' = IF patch = TRUE /\ canceled = TRUE /\ e = "ok" THEN "canceled" ELSE e
      BY <1>k, <2>2, <2>7 DEF Keeping, Leave, Return
    <3>2. Keeping' BY <1>k, <2>1, <3>1 DEF Keeping
    <3>3. Reporting' BY <1>k, <2>1, <2>5, <3>1 DEF Reporting
    <3>4. patch = TRUE => delivered = <<>> BY <1>k, <2>1 DEF Keeping
    <3>5. Held = delivered \/ (patch = TRUE /\ canceled = TRUE)
      BY <1>k, <3>1, <3>4 DEF Held, Keeping
    <3>6. Concluding' BY <2>1, <2>2, <2>3, <2>4, <2>5, <3>1, <3>4, <3>5 DEF Concluding
    <3> QED BY <1>0, <3>2, <3>3, <3>6 DEF DeliveryInv
  <2> QED BY <2>6, <2>7
<1>6. CASE Reread
  <2>1. /\ UNCHANGED <<patch, bytes, total, at, delivered, canceled, runErr>>
        /\ stage = "reread" /\ result = "none" /\ patch = TRUE /\ delivered = <<>>
        /\ runErr \in {"ok", "failed"}
    BY <1>6, <1>k DEF Reread, Concluding, Keeping
  <2>2. CASE canceled = TRUE
    <3>1. /\ UNCHANGED buffered /\ stage' = "returned"
          /\ result' = IF runErr = "ok" THEN "canceled" ELSE runErr
      BY <1>6, <2>2 DEF Reread, Leave, Return
    <3>2. Held' = Held BY <2>1, <3>1 DEF Held
    <3>3. Keeping' BY <1>k, <2>1, <3>1 DEF Keeping
    <3>4. Reporting' BY <1>k, <2>1, <3>1, <3>2 DEF Reporting
    <3>5. Concluding' BY <1>k, <2>1, <2>2, <3>1 DEF Concluding
    <3> QED BY <1>0, <3>3, <3>4, <3>5 DEF DeliveryInv
  <2>3. CASE canceled = FALSE
    <3>1. stage' = "deliver" /\ UNCHANGED result BY <1>6, <2>3 DEF Reread
    <3>2. PICK n \in 0 .. Len(buffered) : buffered' = Stamped(n) BY <1>6, <2>3 DEF Reread
    <3>3. Held = buffered /\ Held' = buffered' BY <2>1 DEF Held
    <3>4. buffered' \in Seq(Finding) /\ FindingsTo(buffered', at)
      BY <1>k, <3>2, <3>3, StampsKeep DEF Keeping, Reporting
    <3>5. Keeping' BY <1>k, <2>1, <3>1, <3>4 DEF Keeping
    <3>6. Reporting' BY <1>k, <2>1, <3>1, <3>3, <3>4 DEF Reporting
    <3>7. Concluding' BY <1>k, <2>1, <3>1 DEF Concluding, Scanning
    <3> QED BY <1>0, <3>5, <3>6, <3>7 DEF DeliveryInv
  <2> QED BY <1>k, <2>2, <2>3 DEF Keeping
<1>7. CASE Deliver
  <2>1. /\ UNCHANGED <<patch, bytes, total, at, buffered, canceled, runErr>>
        /\ stage = "deliver" /\ stage' = "returned" /\ result' = runErr
        /\ delivered' = delivered \o buffered
    BY <1>7 DEF Deliver, Leave, Return
  <2>2. runErr \in {"ok", "failed"} /\ patch = TRUE /\ delivered = <<>>
    BY <1>k, <2>1 DEF Concluding, Keeping
  <2>3. delivered' = buffered BY <1>k, <2>1, <2>2 DEF Keeping
  <2>4. Held = buffered /\ Held' = buffered BY <2>1, <2>2 DEF Held
  <2>5. Keeping' BY <1>k, <2>1, <2>2, <2>3 DEF Keeping
  <2>6. Reporting' BY <1>k, <2>1, <2>4 DEF Reporting
  <2>7. Concluding' BY <1>k, <2>1, <2>2, <2>3, <2>4 DEF Concluding
  <2> QED BY <1>0, <2>5, <2>6, <2>7 DEF DeliveryInv
<1>8. CASE Cancel
  <2>1. /\ UNCHANGED <<patch, bytes, stage, total, at, buffered, delivered, runErr, result>>
        /\ canceled' = TRUE /\ stage # "returned"
    BY <1>8 DEF Cancel
  <2>2. Held' = Held BY <2>1 DEF Held
  <2>3. Keeping' BY <1>k, <2>1 DEF Keeping
  <2>4. Reporting' BY <1>k, <2>1, <2>2 DEF Reporting
  <2>5. Concluding' BY <1>k, <2>1, <2>2 DEF Concluding, Scanning
  <2> QED BY <1>0, <2>3, <2>4, <2>5 DEF DeliveryInv
<1>9. CASE UNCHANGED pipeVars
  <2>1. UNCHANGED <<patch, bytes, stage, total, at, buffered, delivered, canceled, runErr, result>>
    BY <1>9 DEF pipeVars
  <2>2. Held' = Held BY <2>1 DEF Held
  <2>3. Keeping' BY <1>k, <2>1 DEF Keeping
  <2>4. Reporting' BY <1>k, <2>1, <2>2 DEF Reporting
  <2>5. Concluding' BY <1>k, <2>1, <2>2 DEF Concluding, Scanning
  <2> QED BY <1>0, <2>3, <2>4, <2>5 DEF DeliveryInv
<1> QED BY <1>1, <1>2, <1>3, <1>4, <1>5, <1>6, <1>7, <1>8, <1>9 DEF PipeNext, Run

(* The caller gets the findings of the pipe in order and each once: all of   *)
(* them when the scan succeeded, those of the bytes read when it failed, and *)
(* in patch mode none when it was cancelled (scanPatch).                     *)
THEOREM DeliveryIsTold ==
  ASSUME Pipe \subseteq Nat, Chunk \in Nat, Cap \in Nat
  PROVE  PipeSpec => []DeliveryMatchesOutcome
<1>1. PipeInit => DeliveryInv BY DeliveryInit
<1>2. DeliveryInv /\ [PipeNext]_pipeVars => DeliveryInv' BY DeliveryStep
<1>3. DeliveryInv => DeliveryMatchesOutcome
  <2> SUFFICES ASSUME DeliveryInv PROVE DeliveryMatchesOutcome OBVIOUS
  <2>k. Keeping /\ Reporting /\ Concluding /\ SpillInv BY DEF DeliveryInv
  <2>1. /\ at \in 0 .. bytes
        /\ FindingsTo(Held, at)
        /\ FindingsTo(<<>>, 0) /\ 0 \in 0 .. bytes
    BY <2>k, NothingFound DEF Reporting, SpillInv, Counts
  <2>2. delivered = <<>> \/ delivered = Held BY <2>k DEF Keeping, Concluding, Held
  <2>3. \E n \in 0 .. bytes : FindingsTo(delivered, n) BY <2>1, <2>2
  <2>4. result = "ok" => FindingsTo(delivered, bytes) BY <2>k, <2>1 DEF Concluding
  <2>5. ASSUME result = "failed", ~(patch /\ canceled)
        PROVE  FindingsTo(delivered, at)
    <3>1. patch = FALSE \/ canceled = FALSE BY <2>k, <2>5, Zenon DEF Keeping
    <3>2. delivered = Held BY <2>k, <2>5, <3>1 DEF Concluding, Held
    <3> QED BY <2>1, <3>2
  <2>6. ASSUME patch, result = "canceled" PROVE delivered = <<>>
    <3>1. patch = TRUE BY <2>k, <2>6, Zenon DEF Keeping
    <3> QED BY <2>k, <2>6, <3>1 DEF Concluding
  <2> QED BY <2>3, <2>4, <2>5, <2>6 DEF DeliveryMatchesOutcome
<1> QED BY <1>1, <1>2, <1>3, PTL DEF PipeSpec

-----------------------------------------------------------------------------
(* The matches of a block.                                                    *)

Char == {Zero} \cup UNION {{t[i] : i \in DOMAIN t} : t \in Texts}
Cut  == [offset : Int, overlap : {0, scanOverlap}, final : BOOLEAN, data : Seq(Char)]

(* Data d lies in text T from offset o on.                                    *)
LiesAt(T, d, o) ==
  /\ T \in Seq(Char) /\ d \in Seq(Char) /\ o \in Nat /\ o + Len(d) <= Len(T)
  /\ \A i \in 1 .. Len(d) : d[i] = T[o + i]

LEMMA TextsAreSeqs == \A t \in Texts : t \in Seq(Char)
<1>1. SUFFICES ASSUME NEW t \in Texts PROVE t \in Seq(Char)
  OBVIOUS
<1>2. t \in Seq({t[i] : i \in DOMAIN t}) /\ {t[i] : i \in DOMAIN t} \subseteq Char
  BY MatchAssumption DEF Char
<1> QED
  BY <1>2, SeqMonotonic

(* The leading run of letters ends somewhere, and the trailing one begins.    *)
LEMMA LeadingRun ==
  ASSUME NEW d \in Seq(Char)
  PROVE  \E s \in 0 .. Len(d) : RunOf(d, 0, s) /\ (s = Len(d) \/ d[s + 1] \notin Letter)
<1> DEFINE Stops == {s \in 0 .. Len(d) : s = Len(d) \/ d[s + 1] \notin Letter}
<1>1. Len(d) \in Nat
  OBVIOUS
<1>2. Len(d) \in Stops /\ Stops \subseteq Nat
  BY <1>1
<1>3. PICK s \in Stops : \A y \in Stops : s <= y
  BY <1>2, LeastNat
<1>4. ASSUME NEW i \in 0 + 1 .. s PROVE d[i] \in Letter
  <2>1. i - 1 \in 0 .. Len(d) /\ i - 1 < s /\ i - 1 # Len(d) /\ (i - 1) + 1 = i
    BY <1>1, <1>3, <1>4
  <2>2. i - 1 \notin Stops
    <3> HIDE DEF Stops
    <3> QED
      BY <1>1, <1>2, <1>3, <2>1
  <2> QED
    BY <2>1, <2>2
<1> QED
  BY <1>3, <1>4 DEF RunOf

LEMMA TrailingRun ==
  ASSUME NEW d \in Seq(Char), NEW lo \in 0 .. Len(d)
  PROVE  \E e \in lo .. Len(d) : RunOf(d, e, Len(d)) /\ (e = lo \/ d[e] \notin Letter)
<1> DEFINE Stops == {k \in 0 .. Len(d) - lo : k = Len(d) - lo \/ d[Len(d) - k] \notin Letter}
<1>1. Len(d) \in Nat /\ lo \in Nat /\ lo <= Len(d)
  OBVIOUS
<1>2. Len(d) - lo \in Stops /\ Stops \subseteq Nat
  BY <1>1
<1>3. PICK k \in Stops : \A y \in Stops : k <= y
  BY <1>2, LeastNat
<1>4. ASSUME NEW i \in (Len(d) - k) + 1 .. Len(d) PROVE d[i] \in Letter
  <2>1. /\ Len(d) - i \in 0 .. Len(d) - lo /\ Len(d) - i < k /\ Len(d) - i # Len(d) - lo
        /\ Len(d) - (Len(d) - i) = i
    BY <1>1, <1>3, <1>4
  <2>2. Len(d) - i \notin Stops
    <3> HIDE DEF Stops
    <3> QED
      BY <1>1, <1>2, <1>3, <2>1
  <2> QED
    BY <2>1, <2>2
<1>5. Len(d) - k \in lo .. Len(d) /\ (Len(d) - k = lo \/ d[Len(d) - k] \notin Letter)
  BY <1>1, <1>3
<1>6. RunOf(d, Len(d) - k, Len(d))
  BY <1>4 DEF RunOf
<1> QED
  BY <1>5, <1>6

(* What trimEdgeFragments leaves: all, but for runs of letters at an edge     *)
(* that is not the target's.                                                  *)
LEMMA TrimLeaves ==
  ASSUME NEW d \in Seq(Char), NEW first \in BOOLEAN, NEW final \in BOOLEAN,
         NEW win, win = trimEdgeFragments(d, first, final)
  PROVE  /\ win[1] \in 0 .. Len(d) /\ win[2] \in win[1] .. Len(d)
         /\ IF first THEN win[1] = 0
            ELSE RunOf(d, 0, win[1]) /\ (win[1] = Len(d) \/ d[win[1] + 1] \notin Letter)
         /\ IF final THEN win[2] = Len(d)
            ELSE RunOf(d, win[2], Len(d)) /\ (win[2] = win[1] \/ d[win[2]] \notin Letter)
<1> DEFINE lo == IF first THEN 0
                 ELSE CHOOSE s \in 0 .. Len(d) : RunOf(d, 0, s) /\ (s = Len(d) \/ d[s + 1] \notin Letter)
           hi == IF final THEN Len(d)
                 ELSE CHOOSE e \in lo .. Len(d) : RunOf(d, e, Len(d)) /\ (e = lo \/ d[e] \notin Letter)
<1>1. Len(d) \in Nat
  OBVIOUS
<1>2. /\ lo \in 0 .. Len(d)
      /\ ~first => RunOf(d, 0, lo) /\ (lo = Len(d) \/ d[lo + 1] \notin Letter)
  BY <1>1, LeadingRun
<1>3. win = <<lo, hi>>
  BY DEF trimEdgeFragments
<1> HIDE DEF lo
<1>4. /\ hi \in lo .. Len(d)
      /\ ~final => RunOf(d, hi, Len(d)) /\ (hi = lo \/ d[hi] \notin Letter)
  <2>1. \E e \in lo .. Len(d) : RunOf(d, e, Len(d)) /\ (e = lo \/ d[e] \notin Letter)
    BY <1>2, TrailingRun
  <2>2. Len(d) \in lo .. Len(d)
    BY <1>1, <1>2
  <2> QED
    BY <2>1, <2>2
<1>5. first => lo = 0
  BY DEF lo
<1>6. final => hi = Len(d)
  OBVIOUS
<1> HIDE DEF hi
<1> QED
  BY <1>2, <1>3, <1>4, <1>5, <1>6


(* What is in d between the offsets i and j.                                  *)
Piece(d, i, j) == SubSeq(d, i + 1, j)

(* The same bytes, by their offset in the data and in the text.               *)
LEMMA SameBytes ==
  ASSUME NEW T, NEW d, NEW o, LiesAt(T, d, o), NEW i \in Nat, NEW j \in Nat, i <= j, j <= Len(d)
  PROVE  Piece(d, i, j) = Piece(T, o + i, o + j)
<1> DEFINE x == SubSeq(d, i + 1, j)
           y == SubSeq(T, (o + i) + 1, o + j)
<1>1. /\ o \in Nat /\ Len(d) \in Nat /\ Len(T) \in Nat /\ o + Len(d) <= Len(T)
      /\ T \in Seq(Char) /\ d \in Seq(Char)
  BY DEF LiesAt
<1>2. \A k \in i + 1 .. j : d[k] \in Char
  BY <1>1, ElementOfSeq
<1>3. \A k \in (o + i) + 1 .. o + j : T[k] \in Char
  <2>1. \A k \in (o + i) + 1 .. o + j : k \in 1 .. Len(T)
    BY <1>1
  <2> QED
    BY <1>1, <2>1, ElementOfSeq
<1>4. /\ x \in Seq(Char) /\ Len(x) = j - i
      /\ \A k \in 1 .. j - i : x[k] = d[i + k]
  <2>1. i + 1 \in Int /\ j \in Int /\ j - (i + 1) + 1 = j - i /\ (i + 1 <= j \/ j - i = 0)
    OBVIOUS
  <2>2. \A k \in 1 .. j - i : (i + 1) + k - 1 = i + k
    OBVIOUS
  <2> QED
    BY <1>2, <2>1, <2>2, SubSeqProperties
<1>5. /\ y \in Seq(Char) /\ Len(y) = j - i
      /\ \A k \in 1 .. j - i : y[k] = T[o + (i + k)]
  <2>1. ASSUME NEW m \in Int, m = (o + i) + 1, NEW n \in Int, n = o + j
        PROVE  /\ SubSeq(T, m, n) \in Seq(Char) /\ Len(SubSeq(T, m, n)) = j - i
               /\ \A k \in 1 .. j - i : SubSeq(T, m, n)[k] = T[o + (i + k)]
    <3>1. \A k \in m .. n : T[k] \in Char
      BY <1>3, <2>1
    <3>2. /\ SubSeq(T, m, n) \in Seq(Char)
          /\ Len(SubSeq(T, m, n)) = IF m <= n THEN n - m + 1 ELSE 0
          /\ \A k \in 1 .. n - m + 1 : SubSeq(T, m, n)[k] = T[m + k - 1]
      BY <3>1, SubSeqProperties
    <3>3. n - m + 1 = j - i /\ (m <= n \/ j - i = 0)
      BY <1>1, <2>1
    <3>4. \A k \in 1 .. j - i : m + k - 1 = o + (i + k)
      BY <1>1, <2>1
    <3> QED
      BY <3>2, <3>3, <3>4
  <2>2. (o + i) + 1 \in Int /\ o + j \in Int
    BY <1>1
  <2> QED
    BY <2>1, <2>2
<1>6. \A k \in 1 .. j - i : i + k \in 1 .. Len(d)
  BY <1>1
<1>7. \A k \in 1 .. j - i : x[k] = y[k]
  BY <1>4, <1>5, <1>6 DEF LiesAt
<1> HIDE DEF x, y
<1>8. x = y
  BY <1>4, <1>5, <1>7, SeqEqual
<1> QED
  BY <1>8 DEF x, y, Piece

LEMMA SameRun ==
  ASSUME NEW T, NEW d, NEW o, LiesAt(T, d, o), NEW i \in Nat, NEW j \in Nat, j <= Len(d)
  PROVE  RunOf(d, i, j) <=> RunOf(T, o + i, o + j)
<1>1. o \in Nat /\ Len(d) \in Nat
  BY DEF LiesAt
<1>2. ASSUME RunOf(d, i, j), NEW k \in o + i + 1 .. o + j PROVE T[k] \in Letter
  <2>1. k - o \in i + 1 .. j /\ k - o \in 1 .. Len(d) /\ o + (k - o) = k
    BY <1>1
  <2> QED
    BY <1>2, <2>1 DEF LiesAt, RunOf
<1>3. ASSUME RunOf(T, o + i, o + j), NEW k \in i + 1 .. j PROVE d[k] \in Letter
  <2>1. o + k \in o + i + 1 .. o + j /\ k \in 1 .. Len(d)
    BY <1>1
  <2> QED
    BY <1>3, <2>1 DEF LiesAt, RunOf
<1> QED
  BY <1>2, <1>3 DEF RunOf

LEMMA OccurrenceIs ==
  ASSUME NEW kind, NEW p, Len(p) \in Nat, NEW d, NEW lo \in Nat, NEW hi \in Nat,
         NEW m \in Occurrences(kind, p, d, lo, hi)
  PROVE  \E s \in Nat, e \in Nat :
           /\ m = Found(kind, s, e) /\ e = s + Len(p) /\ lo <= s /\ e <= hi
           /\ Piece(d, s, e) = p
<1>1. PICK i \in lo .. hi - Len(p) : SubSeq(d, i + 1, i + Len(p)) = p /\ m = Found(kind, i, i + Len(p))
  BY DEF Occurrences
<1>2. i \in Nat /\ i + Len(p) \in Nat /\ lo <= i /\ i + Len(p) <= hi
  OBVIOUS
<1> QED
  BY <1>1, <1>2 DEF Piece

LEMMA OccurrenceOf ==
  ASSUME NEW kind, NEW p, Len(p) \in Nat, NEW d, NEW lo \in Nat, NEW hi \in Nat,
         NEW s \in Nat, NEW e \in Nat, e = s + Len(p), lo <= s, e <= hi, Piece(d, s, e) = p
  PROVE  Found(kind, s, e) \in Occurrences(kind, p, d, lo, hi)
<1>1. s \in lo .. hi - Len(p)
  OBVIOUS
<1> QED
  BY <1>1 DEF Occurrences, Piece

(* An occurrence in the data is one in the text, and the other way round.     *)
LEMMA OccurrenceUp ==
  ASSUME NEW T, NEW d, NEW o, LiesAt(T, d, o), NEW kind, NEW p, Len(p) \in Nat,
         NEW lo \in Nat, NEW hi \in Nat, hi <= Len(d),
         NEW m \in Occurrences(kind, p, d, lo, hi)
  PROVE  \E s \in Nat, e \in Nat :
           /\ m = Found(kind, s, e) /\ e = s + Len(p) /\ lo <= s /\ e <= hi
           /\ Found(kind, o + s, o + e) \in Occurrences(kind, p, T, 0, Len(T))
<1>1. PICK s \in Nat, e \in Nat :
           /\ m = Found(kind, s, e) /\ e = s + Len(p) /\ lo <= s /\ e <= hi
           /\ Piece(d, s, e) = p
  BY OccurrenceIs
<1>2. o \in Nat /\ Len(d) \in Nat /\ Len(T) \in Nat /\ o + Len(d) <= Len(T)
  BY DEF LiesAt
<1>3. s <= e /\ e <= Len(d)
  BY <1>1, <1>2
<1>4. p = Piece(T, o + s, o + e)
  BY <1>1, <1>3, SameBytes
<1>5. o + s \in Nat /\ o + e \in Nat /\ o + e = (o + s) + Len(p) /\ o + e <= Len(T) /\ 0 <= o + s
  BY <1>1, <1>2, <1>3
<1>6. Found(kind, o + s, o + e) \in Occurrences(kind, p, T, 0, Len(T))
  BY <1>2, <1>4, <1>5, OccurrenceOf
<1> QED
  BY <1>1, <1>6

LEMMA OccurrenceDown ==
  ASSUME NEW T, NEW d, NEW o, LiesAt(T, d, o), NEW kind, NEW p, Len(p) \in Nat,
         NEW lo \in Nat, NEW hi \in Nat, hi <= Len(d), NEW s \in Nat, NEW e \in Nat,
         Found(kind, o + s, o + e) \in Occurrences(kind, p, T, 0, Len(T)), lo <= s, e <= hi
  PROVE  Found(kind, s, e) \in Occurrences(kind, p, d, lo, hi)
<1>1. o \in Nat /\ Len(d) \in Nat /\ Len(T) \in Nat
  BY DEF LiesAt
<1>2. PICK x \in Nat, y \in Nat :
           /\ Found(kind, o + s, o + e) = Found(kind, x, y) /\ y = x + Len(p)
           /\ Piece(T, x, y) = p
  BY <1>1, OccurrenceIs
<1>3. x = o + s /\ y = o + e
  BY <1>2 DEF Found
<1>4. e = s + Len(p) /\ s <= e /\ e <= Len(d)
  BY <1>1, <1>2, <1>3
<1>5. Piece(d, s, e) = p
  BY <1>2, <1>3, <1>4, SameBytes
<1> QED
  BY <1>4, <1>5, OccurrenceOf

(* The run of d between lo and hi that goes from s to e.                      *)
IsRun(d, lo, hi, s, e) ==
  /\ lo <= s /\ s < e /\ e <= hi /\ RunOf(d, s, e)
  /\ s = lo \/ d[s] \notin Letter
  /\ e = hi \/ d[e + 1] \notin Letter

LEMMA RunIs ==
  ASSUME NEW d, NEW lo \in Nat, NEW hi \in Nat, NEW r \in Runs(d, lo, hi)
  PROVE  \E s \in Nat, e \in Nat : r = <<s, e>> /\ IsRun(d, lo, hi, s, e)
<1>1. PICK s \in lo .. hi, e \in lo .. hi : r = <<s, e>>
  BY DEF Runs
<1>2. s \in Nat /\ e \in Nat /\ lo <= s /\ e <= hi
  OBVIOUS
<1>3. s < e /\ RunOf(d, s, e) /\ (s = lo \/ d[s] \notin Letter) /\ (e = hi \/ d[e + 1] \notin Letter)
  BY <1>1 DEF Runs
<1> QED
  BY <1>1, <1>2, <1>3 DEF IsRun

LEMMA RunOfIs ==
  ASSUME NEW d, NEW lo \in Nat, NEW hi \in Nat, NEW s \in Nat, NEW e \in Nat
  PROVE  <<s, e>> \in Runs(d, lo, hi) <=> IsRun(d, lo, hi, s, e)
<1>1. ASSUME IsRun(d, lo, hi, s, e) PROVE <<s, e>> \in Runs(d, lo, hi)
  <2>1. s \in lo .. hi /\ e \in lo .. hi
    BY <1>1 DEF IsRun
  <2> QED
    BY <1>1, <2>1 DEF IsRun, Runs
<1>2. ASSUME <<s, e>> \in Runs(d, lo, hi) PROVE IsRun(d, lo, hi, s, e)
  <2>1. PICK x \in Nat, y \in Nat : <<s, e>> = <<x, y>> /\ IsRun(d, lo, hi, x, y)
    BY <1>2, RunIs
  <2> QED
    BY <2>1
<1> QED
  BY <1>1, <1>2

(* What is left of data that lies in a text at o, and how.                    *)
Windowed(T, d, o, n, final, lo, hi) ==
  /\ LiesAt(T, d, o) /\ lo \in Nat /\ hi \in Nat /\ lo <= hi /\ hi <= Len(d)
  /\ trimEdgeFragments(d, n = 0, final) = <<lo, hi>>
  /\ IF n = 0 THEN lo = 0 ELSE RunOf(d, 0, lo) /\ (lo = Len(d) \/ d[lo + 1] \notin Letter)
  /\ IF final THEN hi = Len(d) /\ o + Len(d) = Len(T)
     ELSE RunOf(d, hi, Len(d)) /\ (hi = lo \/ d[hi] \notin Letter)

LEMMA WindowOf ==
  ASSUME NEW T, NEW d, NEW o, LiesAt(T, d, o), NEW n, NEW final \in BOOLEAN,
         final => o + Len(d) = Len(T)
  PROVE  \E lo, hi : Windowed(T, d, o, n, final, lo, hi)
<1>1. d \in Seq(Char) /\ Len(d) \in Nat
  BY DEF LiesAt
<1>2. PICK first \in BOOLEAN : first = (n = 0)
  OBVIOUS
<1>3. PICK win : win = trimEdgeFragments(d, first, final)
  OBVIOUS
<1>4. /\ win[1] \in 0 .. Len(d) /\ win[2] \in win[1] .. Len(d)
      /\ IF first THEN win[1] = 0
         ELSE RunOf(d, 0, win[1]) /\ (win[1] = Len(d) \/ d[win[1] + 1] \notin Letter)
      /\ IF final THEN win[2] = Len(d)
         ELSE RunOf(d, win[2], Len(d)) /\ (win[2] = win[1] \/ d[win[2]] \notin Letter)
  BY <1>1, <1>3, TrimLeaves
<1>5. win = <<win[1], win[2]>>
  BY <1>3 DEF trimEdgeFragments
<1>6. win = trimEdgeFragments(d, n = 0, final)
  BY <1>2, <1>3
<1>7. ASSUME NEW lo, lo = win[1], NEW hi, hi = win[2] PROVE Windowed(T, d, o, n, final, lo, hi)
  <2>1. lo \in Nat /\ hi \in Nat /\ lo <= hi /\ hi <= Len(d)
    BY <1>1, <1>4, <1>7
  <2> QED
    BY <1>2, <1>4, <1>5, <1>6, <1>7, <2>1 DEF Windowed
<1> QED
  BY <1>7

(* A run of what is left of the data is one of the text, but for the first of *)
(* a block that follows nothing.                                              *)
LEMMA RunUp ==
  ASSUME NEW T, NEW d, NEW o, NEW n, NEW final, NEW lo, NEW hi,
         Windowed(T, d, o, n, final, lo, hi), NEW s \in Nat, NEW e \in Nat, IsRun(d, lo, hi, s, e)
  PROVE  IsRun(T, 0, Len(T), o + s, o + e) \/ (n = 0 /\ s = 0)
<1>1. /\ o \in Nat /\ Len(d) \in Nat /\ Len(T) \in Nat /\ o + Len(d) <= Len(T)
      /\ lo \in Nat /\ hi \in Nat /\ lo <= hi /\ hi <= Len(d)
      /\ lo <= s /\ s < e /\ e <= hi
  BY DEF Windowed, LiesAt, IsRun
<1>2. \A i \in 1 .. Len(d) : d[i] = T[o + i]
  BY DEF Windowed, LiesAt
<1>3. \A i \in s + 1 .. e : d[i] \in Letter
  BY DEF IsRun, RunOf
<1>4. s + 1 \in s + 1 .. e /\ e \in s + 1 .. e
  BY <1>1
<1>5. RunOf(T, o + s, o + e)
  BY SMTT(30), <1>1, SameRun DEF IsRun, Windowed
<1>6. (o + s = 0 \/ T[o + s] \notin Letter) \/ (n = 0 /\ s = 0)
  <2>1. CASE s = lo
    <3>1. n # 0 => lo = Len(d)
      BY <1>3, <1>4, <2>1 DEF Windowed
    <3> QED
      BY <1>1, <2>1, <3>1 DEF Windowed
  <2>2. CASE s # lo
    <3>1. d[s] \notin Letter /\ s \in 1 .. Len(d)
      BY <1>1, <2>2 DEF IsRun
    <3> QED
      BY <1>2, <3>1
  <2> QED
    BY <2>1, <2>2
<1>7. o + e = Len(T) \/ T[(o + e) + 1] \notin Letter
  <2>1. CASE e = hi
    <3>1. final \/ hi = lo
      BY <1>3, <1>4, <2>1 DEF Windowed
    <3>2. final
      BY <1>1, <2>1, <3>1
    <3> QED
      BY <2>1, <3>2 DEF Windowed
  <2>2. CASE e # hi
    <3>1. d[e + 1] \notin Letter /\ e + 1 \in 1 .. Len(d) /\ o + (e + 1) = (o + e) + 1
      BY <1>1, <2>2 DEF IsRun
    <3> QED
      BY <1>2, <3>1
  <2> QED
    BY <2>1, <2>2
<1>8. 0 <= o + s /\ o + s < o + e /\ o + e <= Len(T)
  BY <1>1
<1> QED
  BY <1>5, <1>6, <1>7, <1>8 DEF IsRun

LEMMA RunDown ==
  ASSUME NEW T, NEW d, NEW o, NEW n, NEW final, NEW lo, NEW hi,
         Windowed(T, d, o, n, final, lo, hi), NEW s \in Nat, NEW e \in Nat, lo <= s, e <= hi,
         IsRun(T, 0, Len(T), o + s, o + e)
  PROVE  IsRun(d, lo, hi, s, e)
<1>1. /\ o \in Nat /\ Len(d) \in Nat /\ Len(T) \in Nat /\ o + Len(d) <= Len(T)
      /\ lo \in Nat /\ hi \in Nat /\ hi <= Len(d) /\ o + s < o + e
  BY DEF Windowed, LiesAt, IsRun
<1>2. \A i \in 1 .. Len(d) : d[i] = T[o + i]
  BY DEF Windowed, LiesAt
<1>3. s < e /\ e <= Len(d)
  BY <1>1
<1>4. RunOf(d, s, e)
  BY <1>3, SameRun DEF IsRun, Windowed
<1>5. s = lo \/ d[s] \notin Letter
  <2>1. SUFFICES ASSUME s # lo PROVE d[s] \notin Letter
    OBVIOUS
  <2>2. s \in 1 .. Len(d) /\ o + s # 0
    BY <1>1, <1>3, <2>1
  <2> QED
    BY <1>2, <2>2 DEF IsRun
<1>6. e = hi \/ d[e + 1] \notin Letter
  <2>1. SUFFICES ASSUME e # hi PROVE d[e + 1] \notin Letter
    OBVIOUS
  <2>2. e + 1 \in 1 .. Len(d) /\ o + e # Len(T) /\ o + (e + 1) = (o + e) + 1
    BY <1>1, <1>3, <2>1
  <2> QED
    BY <1>2, <2>2 DEF IsRun
<1> QED
  BY <1>3, <1>4, <1>5, <1>6 DEF IsRun

(* Words of the list, and two of them that are neighbours.                    *)
IsWord(d, lo, hi, s, e) == IsRun(d, lo, hi, s, e) /\ Piece(d, s, e) \in Words

IsPhrase(d, lo, hi, s, x, y, e) ==
  /\ IsWord(d, lo, hi, s, x) /\ IsWord(d, lo, hi, y, e) /\ x < y /\ e - s <= MaxSpan
  /\ \A i \in Nat, j \in Nat : IsRun(d, lo, hi, i, j) => ~(x < i /\ j < y)

LEMMA WordPairs ==
  ASSUME NEW d, NEW lo \in Nat, NEW hi \in Nat, NEW t \in ListedWords(d, <<lo, hi>>)
  PROVE  \E s \in Nat, e \in Nat : t = <<s, e>>
<1>1. t \in Runs(d, lo, hi)
  BY DEF ListedWords
<1> QED
  BY <1>1, RunIs

LEMMA WordsAre ==
  ASSUME NEW d, NEW lo \in Nat, NEW hi \in Nat
  PROVE  \A s \in Nat, e \in Nat : <<s, e>> \in ListedWords(d, <<lo, hi>>) <=> IsWord(d, lo, hi, s, e)
<1>1. ListedWords(d, <<lo, hi>>) = {t \in Runs(d, lo, hi) : SubSeq(d, t[1] + 1, t[2]) \in Words}
  BY DEF ListedWords
<1>2. ASSUME NEW s \in Nat, NEW e \in Nat
      PROVE  <<s, e>> \in ListedWords(d, <<lo, hi>>) <=> IsWord(d, lo, hi, s, e)
  <2>1. <<s, e>>[1] = s /\ <<s, e>>[2] = e
    OBVIOUS
  <2>2. <<s, e>> \in Runs(d, lo, hi) <=> IsRun(d, lo, hi, s, e)
    BY RunOfIs
  <2> QED
    BY <1>1, <2>1, <2>2 DEF IsWord, Piece
<1> QED
  BY <1>2

LEMMA PhrasesAre ==
  ASSUME NEW d, NEW lo \in Nat, NEW hi \in Nat
  PROVE  \A m : m \in findBIP39Phrases(d, <<lo, hi>>) <=>
           \E s \in Nat, x \in Nat, y \in Nat, e \in Nat :
             m = Found("phrase", s, e) /\ IsPhrase(d, lo, hi, s, x, y, e)
<1> DEFINE valid == ListedWords(d, <<lo, hi>>)
           Near(p) == /\ p[1][2] < p[2][1] /\ p[2][2] - p[1][1] <= MaxSpan
                      /\ ~\E t \in Runs(d, lo, hi) : p[1][2] < t[1] /\ t[2] < p[2][1]
<1>1. findBIP39Phrases(d, <<lo, hi>>) =
        {Found("phrase", p[1][1], p[2][2]) : p \in {q \in valid \X valid : Near(q)}}
  BY DEF findBIP39Phrases
<1>2. ASSUME NEW s \in Nat, NEW x \in Nat, NEW y \in Nat, NEW e \in Nat
      PROVE  (<<s, x>> \in valid /\ <<y, e>> \in valid /\ Near(<<<<s, x>>, <<y, e>>>>))
               <=> IsPhrase(d, lo, hi, s, x, y, e)
  <2>1. Near(<<<<s, x>>, <<y, e>>>>) <=>
          x < y /\ e - s <= MaxSpan /\ ~\E t \in Runs(d, lo, hi) : x < t[1] /\ t[2] < y
    OBVIOUS
  <2>2. (\E t \in Runs(d, lo, hi) : x < t[1] /\ t[2] < y)
          <=> \E i \in Nat, j \in Nat : IsRun(d, lo, hi, i, j) /\ x < i /\ j < y
    <3>1. ASSUME NEW t \in Runs(d, lo, hi), x < t[1], t[2] < y
          PROVE  \E i \in Nat, j \in Nat : IsRun(d, lo, hi, i, j) /\ x < i /\ j < y
      <4>1. PICK i \in Nat, j \in Nat : t = <<i, j>> /\ IsRun(d, lo, hi, i, j)
        BY RunIs
      <4> QED
        BY <3>1, <4>1
    <3>2. ASSUME NEW i \in Nat, NEW j \in Nat, IsRun(d, lo, hi, i, j), x < i, j < y
          PROVE  \E t \in Runs(d, lo, hi) : x < t[1] /\ t[2] < y
      <4>1. <<i, j>> \in Runs(d, lo, hi) /\ <<i, j>>[1] = i /\ <<i, j>>[2] = j
        BY <3>2, RunOfIs
      <4> QED
        BY <3>2, <4>1
    <3> QED
      BY <3>1, <3>2
  <2>3. /\ <<s, x>> \in valid <=> IsWord(d, lo, hi, s, x)
        /\ <<y, e>> \in valid <=> IsWord(d, lo, hi, y, e)
    BY WordsAre
  <2> HIDE DEF valid, Near
  <2> QED
    BY <2>1, <2>2, <2>3 DEF IsPhrase
<1>3. \A t \in valid : \E s \in Nat, e \in Nat : t = <<s, e>>
  BY WordPairs
<1> HIDE DEF valid, Near
<1>4. ASSUME NEW m \in findBIP39Phrases(d, <<lo, hi>>)
      PROVE  \E s \in Nat, x \in Nat, y \in Nat, e \in Nat :
               m = Found("phrase", s, e) /\ IsPhrase(d, lo, hi, s, x, y, e)
  <2>1. PICK p \in valid \X valid : Near(p) /\ m = Found("phrase", p[1][1], p[2][2])
    BY <1>1
  <2>2. p[1] \in valid /\ p[2] \in valid /\ p = <<p[1], p[2]>>
    OBVIOUS
  <2>3. PICK s \in Nat, x \in Nat : p[1] = <<s, x>>
    BY <1>3, <2>2
  <2>4. PICK y \in Nat, e \in Nat : p[2] = <<y, e>>
    BY <1>3, <2>2
  <2>5. p = <<<<s, x>>, <<y, e>>>> /\ m = Found("phrase", s, e)
    BY <2>1, <2>2, <2>3, <2>4
  <2>6. IsPhrase(d, lo, hi, s, x, y, e)
    BY <1>2, <2>1, <2>2, <2>3, <2>4, <2>5
  <2> QED
    BY <2>5, <2>6
<1>5. ASSUME NEW s \in Nat, NEW x \in Nat, NEW y \in Nat, NEW e \in Nat, IsPhrase(d, lo, hi, s, x, y, e)
      PROVE  Found("phrase", s, e) \in findBIP39Phrases(d, <<lo, hi>>)
  <2>1. <<<<s, x>>, <<y, e>>>> \in {q \in valid \X valid : Near(q)}
    BY <1>2, <1>5
  <2>2. <<<<s, x>>, <<y, e>>>>[1][1] = s /\ <<<<s, x>>, <<y, e>>>>[2][2] = e
    OBVIOUS
  <2> QED
    BY <1>1, <2>1, <2>2
<1> QED
  BY <1>4, <1>5

LEMMA WordUp ==
  ASSUME NEW T, NEW d, NEW o, NEW n, NEW final, NEW lo, NEW hi,
         Windowed(T, d, o, n, final, lo, hi), NEW s \in Nat, NEW e \in Nat, IsWord(d, lo, hi, s, e)
  PROVE  IsWord(T, 0, Len(T), o + s, o + e) \/ (n = 0 /\ s = 0)
<1>1. s <= e /\ e <= Len(d)
  BY DEF Windowed, LiesAt, IsWord, IsRun
<1>2. Piece(d, s, e) = Piece(T, o + s, o + e)
  BY <1>1, SameBytes DEF Windowed
<1> QED
  BY <1>2, RunUp DEF IsWord

LEMMA WordDown ==
  ASSUME NEW T, NEW d, NEW o, NEW n, NEW final, NEW lo, NEW hi,
         Windowed(T, d, o, n, final, lo, hi), NEW s \in Nat, NEW e \in Nat, lo <= s, e <= hi,
         IsWord(T, 0, Len(T), o + s, o + e)
  PROVE  IsWord(d, lo, hi, s, e)
<1>1. o \in Nat /\ Len(d) \in Nat /\ hi \in Nat /\ hi <= Len(d) /\ o + s < o + e
  BY DEF Windowed, LiesAt, IsWord, IsRun
<1>2. s <= e /\ e <= Len(d)
  BY <1>1
<1>3. Piece(d, s, e) = Piece(T, o + s, o + e)
  BY <1>2, SameBytes DEF Windowed
<1> QED
  BY <1>3, RunDown DEF IsWord

LEMMA PhraseUp ==
  ASSUME NEW T, NEW d, NEW o, NEW n, NEW final, NEW lo, NEW hi,
         Windowed(T, d, o, n, final, lo, hi),
         NEW s \in Nat, NEW x \in Nat, NEW y \in Nat, NEW e \in Nat, IsPhrase(d, lo, hi, s, x, y, e)
  PROVE  IsPhrase(T, 0, Len(T), o + s, o + x, o + y, o + e) \/ (n = 0 /\ s = 0)
<1>1. /\ o \in Nat /\ lo \in Nat /\ hi \in Nat /\ lo <= s /\ s < x /\ x < y /\ y < e /\ e <= hi
      /\ MaxSpan \in Nat /\ e - s <= MaxSpan
  BY MatchAssumption DEF Windowed, LiesAt, IsPhrase, IsWord, IsRun
<1>2. IsWord(T, 0, Len(T), o + s, o + x) \/ (n = 0 /\ s = 0)
  BY WordUp DEF IsPhrase
<1>3. IsWord(T, 0, Len(T), o + y, o + e)
  BY <1>1, WordUp DEF IsPhrase
<1>4. o + x < o + y /\ (o + e) - (o + s) <= MaxSpan
  BY <1>1
<1>5. ASSUME NEW i \in Nat, NEW j \in Nat, IsRun(T, 0, Len(T), i, j), o + x < i, j < o + y PROVE FALSE
  <2>1. i < j
    BY <1>5 DEF IsRun
  <2>2. ASSUME NEW k, k = i - o, NEW l, l = j - o PROVE FALSE
    <3>1. k \in Nat /\ l \in Nat /\ o + k = i /\ o + l = j /\ x < k /\ l < y /\ lo <= k /\ l <= hi
      BY <1>1, <1>5, <2>1, <2>2
    <3>2. IsRun(d, lo, hi, k, l)
      BY <1>5, <3>1, RunDown
    <3> QED
      BY <3>1, <3>2 DEF IsPhrase
  <2> QED
    BY <2>2
<1> QED
  BY <1>2, <1>3, <1>4, <1>5 DEF IsPhrase

LEMMA PhraseDown ==
  ASSUME NEW T, NEW d, NEW o, NEW n, NEW final, NEW lo, NEW hi,
         Windowed(T, d, o, n, final, lo, hi),
         NEW s \in Nat, NEW x \in Nat, NEW y \in Nat, NEW e \in Nat, lo <= s, e <= hi,
         IsPhrase(T, 0, Len(T), o + s, o + x, o + y, o + e)
  PROVE  IsPhrase(d, lo, hi, s, x, y, e)
<1>1. /\ o \in Nat /\ lo \in Nat /\ hi \in Nat /\ o + s < o + x /\ o + x < o + y /\ o + y < o + e
      /\ MaxSpan \in Nat /\ (o + e) - (o + s) <= MaxSpan
  BY MatchAssumption DEF Windowed, LiesAt, IsPhrase, IsWord, IsRun
<1>2. s < x /\ x < y /\ y < e /\ e - s <= MaxSpan /\ lo <= y /\ x <= hi
  BY <1>1
<1>3. IsWord(d, lo, hi, s, x) /\ IsWord(d, lo, hi, y, e)
  BY <1>2, WordDown DEF IsPhrase
<1>4. ASSUME NEW i \in Nat, NEW j \in Nat, IsRun(d, lo, hi, i, j), x < i, j < y PROVE FALSE
  <2>1. i # 0 /\ o + i \in Nat /\ o + j \in Nat /\ o + x < o + i /\ o + j < o + y
    BY <1>1, <1>4
  <2>2. IsRun(T, 0, Len(T), o + i, o + j)
    BY <1>4, <2>1, RunUp
  <2> QED
    BY <2>1, <2>2 DEF IsPhrase
<1> QED
  BY <1>2, <1>3, <1>4 DEF IsPhrase

LEMMA SeedsAre ==
  ASSUME NEW d, NEW lo \in Nat, NEW hi \in Nat
  PROVE  \A m : m \in findElectrumSeeds(d, <<lo, hi>>) <=>
           \E s \in Nat, e \in Nat : m = Found("seed", s, e) /\ IsWord(d, lo, hi, s, e)
<1>1. ASSUME NEW m \in findElectrumSeeds(d, <<lo, hi>>)
      PROVE  \E s \in Nat, e \in Nat : m = Found("seed", s, e) /\ IsWord(d, lo, hi, s, e)
  <2>1. PICK t \in ListedWords(d, <<lo, hi>>) : m = Found("seed", t[1], t[2])
    BY DEF findElectrumSeeds
  <2>2. PICK s \in Nat, e \in Nat : t = <<s, e>>
    BY WordPairs
  <2>3. m = Found("seed", s, e) /\ IsWord(d, lo, hi, s, e)
    BY <2>1, <2>2, WordsAre
  <2> QED
    BY <2>3
<1>2. ASSUME NEW s \in Nat, NEW e \in Nat, IsWord(d, lo, hi, s, e)
      PROVE  Found("seed", s, e) \in findElectrumSeeds(d, <<lo, hi>>)
  <2>1. <<s, e>> \in ListedWords(d, <<lo, hi>>) /\ <<s, e>>[1] = s /\ <<s, e>>[2] = e
    BY <1>2, WordsAre
  <2> QED
    BY <2>1 DEF findElectrumSeeds
<1> QED
  BY <1>1, <1>2

(* The patterns looked for in the raw bytes, and in what the edges leave.     *)
Raw   == {<<"needle", Needle>>, <<"object", Object>>, <<"pem", Header>>}
Edged == {<<"key", Key>>, <<"token", Token>>}

LEMMA PatternsFit ==
  ASSUME NEW kind, NEW p, <<kind, p>> \in Raw \cup Edged
  PROVE  /\ Len(p) \in Nat /\ 1 <= Len(p) /\ Len(p) <= MaxSpan /\ MaxSpan \in Nat
         /\ kind \notin {"seed", "phrase"}
<1>1. MaxSpan \in Nat /\ \A x \in {Needle, Object, Header, Key, Token} : Len(x) \in 1 .. MaxSpan
  BY MatchAssumption
<1>2. p \in {Needle, Object, Header, Key, Token} /\ kind \notin {"seed", "phrase"}
  BY DEF Raw, Edged
<1> QED
  BY <1>1, <1>2

(* What the text holds, by kind.                                              *)
TextHas(m, s, e) ==
  \/ /\ e - s <= MaxSpan
     /\ \E p : <<m.kind, p>> \in Raw \cup Edged /\ m \in Occurrences(m.kind, p, text, 0, Len(text))
  \/ m.kind = "seed" /\ IsWord(text, 0, Len(text), s, e)
  \/ /\ m.kind = "phrase" /\ e - s <= MaxSpan
     /\ \E x \in Nat, y \in Nat : IsPhrase(text, 0, Len(text), s, x, y, e)

LEMMA InTextIs ==
  ASSUME Len(text) \in Nat, NEW m \in InText
  PROVE  \E s \in Nat, e \in Nat :
           m = Found(m.kind, s, e) /\ s < e /\ e <= Len(text) /\ TextHas(m, s, e)
<1>1. ASSUME NEW kind, NEW p, <<kind, p>> \in Raw \cup Edged,
             m \in Occurrences(kind, p, text, 0, Len(text))
      PROVE  \E s \in Nat, e \in Nat :
               m = Found(m.kind, s, e) /\ s < e /\ e <= Len(text) /\ TextHas(m, s, e)
  <2>1. Len(p) \in Nat /\ 1 <= Len(p) /\ Len(p) <= MaxSpan /\ MaxSpan \in Nat
    BY <1>1, PatternsFit
  <2>2. PICK s \in Nat, e \in Nat : m = Found(kind, s, e) /\ e = s + Len(p) /\ e <= Len(text)
    BY <1>1, <2>1, OccurrenceIs
  <2>3. m.kind = kind
    BY <2>2 DEF Found
  <2>4. s < e /\ e - s <= MaxSpan
    BY <2>1, <2>2
  <2> QED
    BY <1>1, <2>2, <2>3, <2>4 DEF TextHas
<1>2. CASE m \in findElectrumSeeds(text, <<0, Len(text)>>)
  <2>1. PICK s \in Nat, e \in Nat : m = Found("seed", s, e) /\ IsWord(text, 0, Len(text), s, e)
    BY <1>2, SeedsAre
  <2>2. m.kind = "seed"
    BY <2>1 DEF Found
  <2>3. s < e /\ e <= Len(text)
    BY <2>1 DEF IsWord, IsRun
  <2> QED
    BY <2>1, <2>2, <2>3 DEF TextHas
<1>3. CASE m \in findBIP39Phrases(text, <<0, Len(text)>>)
  <2>1. PICK s \in Nat, x \in Nat, y \in Nat, e \in Nat :
               m = Found("phrase", s, e) /\ IsPhrase(text, 0, Len(text), s, x, y, e)
    BY <1>3, PhrasesAre
  <2>2. m.kind = "phrase"
    BY <2>1 DEF Found
  <2>3. s < x /\ x < y /\ y < e /\ e <= Len(text) /\ e - s <= MaxSpan
    BY <2>1 DEF IsPhrase, IsWord, IsRun
  <2>4. s < e
    BY <2>3
  <2> QED
    BY <2>1, <2>2, <2>3, <2>4 DEF TextHas
<1>4. \/ m \in Occurrences("needle", Needle, text, 0, Len(text))
      \/ m \in Occurrences("object", Object, text, 0, Len(text))
      \/ m \in Occurrences("pem", Header, text, 0, Len(text))
      \/ m \in Occurrences("token", Token, text, 0, Len(text))
      \/ m \in Occurrences("key", Key, text, 0, Len(text))
      \/ m \in findElectrumSeeds(text, <<0, Len(text)>>) \/ m \in findBIP39Phrases(text, <<0, Len(text)>>)
  BY DEF InText, findKeystores, findSecrets, findKeys, All
<1> QED
  BY <1>1, <1>2, <1>3, <1>4 DEF Raw, Edged

LEMMA InTextHas ==
  ASSUME Len(text) \in Nat
  PROVE  /\ \A kind, p : <<kind, p>> \in Raw \cup Edged =>
              Occurrences(kind, p, text, 0, Len(text)) \subseteq InText
         /\ \A s \in Nat, e \in Nat : IsWord(text, 0, Len(text), s, e) => Found("seed", s, e) \in InText
         /\ \A s \in Nat, x \in Nat, y \in Nat, e \in Nat :
              IsPhrase(text, 0, Len(text), s, x, y, e) => Found("phrase", s, e) \in InText
<1>1. \A kind, p : <<kind, p>> \in Raw \cup Edged =>
        Occurrences(kind, p, text, 0, Len(text)) \subseteq InText
  BY DEF Raw, Edged, InText, findKeystores, findSecrets, findKeys, All
<1>2. findElectrumSeeds(text, <<0, Len(text)>>) \subseteq InText
      /\ findBIP39Phrases(text, <<0, Len(text)>>) \subseteq InText
  BY DEF InText, All
<1> QED
  BY <1>1, <1>2, SeedsAre, PhrasesAre

(* A block that lies in text T as its offset says.                            *)
LiesIn(T, b) ==
  /\ b \in Cut /\ LiesAt(T, b.data, b.offset) /\ (b.final => b.offset + Len(b.data) = Len(T))
  /\ b.overlap < Len(b.data) /\ Len(b.data) <= b.overlap + Block

(* Such a block by its parts, and the window that its edges leave.            *)
BlockIs(T, b, d, o, n, lo, hi) ==
  /\ d = b.data /\ o = b.offset /\ n = b.overlap /\ n \in Nat /\ (n = 0 \/ n = MaxSpan)
  /\ n < Len(d) /\ Len(d) <= n + Block
  /\ Windowed(T, d, o, n, b.final, lo, hi)

LEMMA BlockParts ==
  ASSUME NEW T, NEW b, LiesIn(T, b)
  PROVE  \E d, o, n, lo, hi : BlockIs(T, b, d, o, n, lo, hi)
<1>1. b.overlap \in Nat /\ (b.overlap = 0 \/ b.overlap = MaxSpan) /\ b.final \in BOOLEAN
  BY MatchAssumption DEF LiesIn, Cut, scanOverlap
<1>2. LiesAt(T, b.data, b.offset) /\ (b.final => b.offset + Len(b.data) = Len(T))
  BY DEF LiesIn
<1>3. PICK lo, hi : Windowed(T, b.data, b.offset, b.overlap, b.final, lo, hi)
  BY <1>1, <1>2, WindowOf
<1>4. BlockIs(T, b, b.data, b.offset, b.overlap, lo, hi)
  BY <1>1, <1>3 DEF BlockIs, LiesIn
<1> QED
  BY <1>4

LEMMA MatchesAre ==
  ASSUME NEW T, NEW b, NEW d, NEW o, NEW n, NEW lo, NEW hi, BlockIs(T, b, d, o, n, lo, hi), NEW m
  PROVE  /\ m \in Matches(b) =>
              /\ m.end > n
              /\ \/ \E kind, p : <<kind, p>> \in Raw /\ m \in Occurrences(kind, p, d, 0, Len(d))
                 \/ \E kind, p : <<kind, p>> \in Edged /\ m \in Occurrences(kind, p, d, lo, hi)
                 \/ m \in findElectrumSeeds(d, <<lo, hi>>)
                 \/ m \in findBIP39Phrases(d, <<lo, hi>>)
         /\ m.end > n =>
              /\ \A kind, p : <<kind, p>> \in Raw /\ kind # "needle"
                                /\ m \in Occurrences(kind, p, d, 0, Len(d)) => m \in Matches(b)
              /\ \A kind, p : <<kind, p>> \in Edged /\ m \in Occurrences(kind, p, d, lo, hi)
                                => m \in Matches(b)
              /\ m \in findElectrumSeeds(d, <<lo, hi>>) =>
                   \/ m \in Matches(b)
                   \/ suppressedByBIP39(m, findBIP39Phrases(d, <<lo, hi>>))
              /\ m \in findBIP39Phrases(d, <<lo, hi>>) => m \in Matches(b)
<1> DEFINE win == <<lo, hi>>
           exact == findBIP39Phrases(d, win)
           seeds == {x \in findElectrumSeeds(d, win) : ~suppressedByBIP39(x, exact)}
           found == findKeystores(d) \cup findSecrets(d, win) \cup findKeys(d, win) \cup seeds \cup exact
           needles == Occurrences("needle", Needle, d, 0, Len(d))
<1>1. trimEdgeFragments(b.data, b.overlap = 0, b.final) = win /\ b.data = d /\ b.overlap = n
  BY DEF BlockIs, Windowed
<1>2. Matches(b) = firstOnly({x \in needles : EndsPast(b, x)}) \cup {x \in found : EndsPast(b, x)}
  <2> HIDE DEF win
  <2> QED
    BY <1>1 DEF Matches
<1>3. \A x : EndsPast(b, x) <=> x.end > n
  BY <1>1 DEF EndsPast
<1>4. {x \in needles : EndsPast(b, x)} = {x \in needles : x.end > n}
  BY <1>3
<1>5. win[1] = lo /\ win[2] = hi
  OBVIOUS
<1>6. /\ findKeystores(d) = Occurrences("object", Object, d, 0, Len(d))
      /\ findSecrets(d, win) = Occurrences("pem", Header, d, 0, Len(d))
                             \cup Occurrences("token", Token, d, lo, hi)
      /\ findKeys(d, win) = Occurrences("key", Key, d, lo, hi)
  BY <1>5 DEF findKeystores, findSecrets, findKeys
<1> HIDE DEF win
<1>7. m \in found <=>
        \/ m \in Occurrences("object", Object, d, 0, Len(d)) \/ m \in Occurrences("pem", Header, d, 0, Len(d))
        \/ m \in Occurrences("token", Token, d, lo, hi) \/ m \in Occurrences("key", Key, d, lo, hi)
        \/ m \in seeds \/ m \in exact
  BY <1>6
<1>8. m \in firstOnly({x \in needles : x.end > n}) => m \in needles /\ m.end > n
  BY DEF firstOnly
<1> HIDE DEF found, needles
<1>9. ASSUME m \in Matches(b)
      PROVE  m.end > n /\ (m \in needles \/ m \in found)
  BY <1>2, <1>3, <1>4, <1>8, <1>9
<1>10. ASSUME m.end > n, m \in found PROVE m \in Matches(b)
  BY <1>2, <1>3, <1>10
<1>12. /\ m \in needles <=> m \in Occurrences("needle", Needle, d, 0, Len(d))
       /\ m \in exact <=> m \in findBIP39Phrases(d, <<lo, hi>>)
       /\ m \in seeds <=> /\ m \in findElectrumSeeds(d, <<lo, hi>>)
                          /\ ~suppressedByBIP39(m, findBIP39Phrases(d, <<lo, hi>>))
  BY DEF needles, win
<1> HIDE DEF exact, seeds
<1>13. ASSUME m \in Matches(b)
       PROVE  /\ m.end > n
              /\ \/ \E kind, p : <<kind, p>> \in Raw /\ m \in Occurrences(kind, p, d, 0, Len(d))
                 \/ \E kind, p : <<kind, p>> \in Edged /\ m \in Occurrences(kind, p, d, lo, hi)
                 \/ m \in findElectrumSeeds(d, <<lo, hi>>)
                 \/ m \in findBIP39Phrases(d, <<lo, hi>>)
  <2>1. \A kind, p : <<kind, p>> \in {<<"needle", Needle>>, <<"object", Object>>, <<"pem", Header>>}
                       => <<kind, p>> \in Raw
    BY DEF Raw
  <2>2. \A kind, p : <<kind, p>> \in {<<"key", Key>>, <<"token", Token>>} => <<kind, p>> \in Edged
    BY DEF Edged
  <2> QED
    BY <1>7, <1>9, <1>12, <1>13, <2>1, <2>2
<1>14. ASSUME m.end > n, NEW kind, NEW p, <<kind, p>> \in Raw, kind # "needle",
              m \in Occurrences(kind, p, d, 0, Len(d))
       PROVE  m \in Matches(b)
  BY <1>7, <1>10, <1>14 DEF Raw
<1>15. ASSUME m.end > n, NEW kind, NEW p, <<kind, p>> \in Edged, m \in Occurrences(kind, p, d, lo, hi)
       PROVE  m \in Matches(b)
  BY <1>7, <1>10, <1>15 DEF Edged
<1>16. ASSUME m.end > n
       PROVE  /\ m \in findElectrumSeeds(d, <<lo, hi>>) =>
                   \/ m \in Matches(b)
                   \/ suppressedByBIP39(m, findBIP39Phrases(d, <<lo, hi>>))
              /\ m \in findBIP39Phrases(d, <<lo, hi>>) => m \in Matches(b)
  BY <1>7, <1>10, <1>12, <1>16
<1>18. m \in Matches(b) =>
              /\ m.end > n
              /\ \/ \E kind, p : <<kind, p>> \in Raw /\ m \in Occurrences(kind, p, d, 0, Len(d))
                 \/ \E kind, p : <<kind, p>> \in Edged /\ m \in Occurrences(kind, p, d, lo, hi)
                 \/ m \in findElectrumSeeds(d, <<lo, hi>>)
                 \/ m \in findBIP39Phrases(d, <<lo, hi>>)
  BY <1>13
<1>19. m.end > n =>
              /\ \A kind, p : <<kind, p>> \in Raw /\ kind # "needle"
                                /\ m \in Occurrences(kind, p, d, 0, Len(d)) => m \in Matches(b)
              /\ \A kind, p : <<kind, p>> \in Edged /\ m \in Occurrences(kind, p, d, lo, hi)
                                => m \in Matches(b)
  BY <1>14, <1>15
<1> HIDE DEF found, seeds, needles, exact
<1> QED
  BY <1>16, <1>18, <1>19

LEMMA BlockFacts ==
  ASSUME NEW T, NEW b, NEW d, NEW o, NEW n, NEW lo, NEW hi, BlockIs(T, b, d, o, n, lo, hi)
  PROVE  /\ o \in Nat /\ n \in Nat /\ lo \in Nat /\ hi \in Nat /\ Len(d) \in Nat /\ Len(T) \in Nat
         /\ lo <= hi /\ hi <= Len(d) /\ o + Len(d) <= Len(T) /\ n < Len(d) /\ LiesAt(T, d, o)
BY DEF BlockIs, Windowed, LiesAt

LEMMA RawMatch ==
  ASSUME NEW T, NEW b, NEW d, NEW o, NEW n, NEW lo, NEW hi, BlockIs(T, b, d, o, n, lo, hi),
         NEW kind, NEW p, <<kind, p>> \in Raw, kind # "needle",
         NEW m \in Occurrences(kind, p, d, 0, Len(d)), m.end > n
  PROVE  m \in Matches(b)
BY MatchesAre

LEMMA EdgedMatch ==
  ASSUME NEW T, NEW b, NEW d, NEW o, NEW n, NEW lo, NEW hi, BlockIs(T, b, d, o, n, lo, hi),
         NEW kind, NEW p, <<kind, p>> \in Edged, NEW m \in Occurrences(kind, p, d, lo, hi), m.end > n
  PROVE  m \in Matches(b)
BY MatchesAre

LEMMA PhraseMatch ==
  ASSUME NEW T, NEW b, NEW d, NEW o, NEW n, NEW lo, NEW hi, BlockIs(T, b, d, o, n, lo, hi),
         NEW m \in findBIP39Phrases(d, <<lo, hi>>), m.end > n
  PROVE  m \in Matches(b)
BY MatchesAre

LEMMA SeedMatch ==
  ASSUME NEW T, NEW b, NEW d, NEW o, NEW n, NEW lo, NEW hi, BlockIs(T, b, d, o, n, lo, hi),
         NEW m \in findElectrumSeeds(d, <<lo, hi>>), m.end > n
  PROVE  m \in Matches(b) \/ suppressedByBIP39(m, findBIP39Phrases(d, <<lo, hi>>))
BY MatchesAre

LEMMA NeedleMatch ==
  ASSUME NEW T, NEW b, NEW d, NEW o, NEW n, NEW lo, NEW hi, BlockIs(T, b, d, o, n, lo, hi),
         NEW F, F = {x \in Occurrences("needle", Needle, d, 0, Len(d)) : x.end > n}, NEW m \in firstOnly(F)
  PROVE  m \in Matches(b)
<1>1. {x \in Occurrences("needle", Needle, b.data, 0, Len(b.data)) : EndsPast(b, x)} = F
  BY DEF EndsPast, BlockIs
<1>2. firstOnly({x \in Occurrences("needle", Needle, b.data, 0, Len(b.data)) : EndsPast(b, x)})
        \subseteq Matches(b)
  BY DEF Matches
<1> QED
  BY <1>1, <1>2

(* What a block reports is in the text, but for what starts with a block that *)
(* follows nothing.                                                           *)
LEMMA MatchesUp ==
  ASSUME NEW b, NEW d, NEW o, NEW n, NEW lo, NEW hi, BlockIs(text, b, d, o, n, lo, hi),
         NEW m \in Matches(b)
  PROVE  \E s \in Nat, e \in Nat :
           /\ m = Found(m.kind, s, e) /\ n < e /\ e <= Len(d)
           /\ \/ Found(m.kind, o + s, o + e) \in InText
              \/ m.kind \in {"seed", "phrase"} /\ n = 0 /\ s = 0
<1>0. /\ o \in Nat /\ n \in Nat /\ lo \in Nat /\ hi \in Nat /\ Len(d) \in Nat /\ Len(text) \in Nat
      /\ lo <= hi /\ hi <= Len(d) /\ o + Len(d) <= Len(text) /\ n < Len(d) /\ LiesAt(text, d, o)
  BY BlockFacts
<1> USE <1>0
<1>1. m.end > n
  BY MatchesAre
<1>2. ASSUME NEW kind, NEW p, <<kind, p>> \in Raw \cup Edged, NEW l \in Nat, NEW h \in Nat, h <= Len(d),
             m \in Occurrences(kind, p, d, l, h)
      PROVE  \E s \in Nat, e \in Nat :
               /\ m = Found(m.kind, s, e) /\ n < e /\ e <= Len(d)
               /\ Found(m.kind, o + s, o + e) \in InText
  <2>1. Len(p) \in Nat
    BY <1>2, PatternsFit
  <2>2. PICK s \in Nat, e \in Nat :
           /\ m = Found(kind, s, e) /\ e <= h
           /\ Found(kind, o + s, o + e) \in Occurrences(kind, p, text, 0, Len(text))
    BY <1>2, <2>1, OccurrenceUp
  <2>3. m.kind = kind /\ m.end = e
    BY <2>2 DEF Found
  <2>4. n < e /\ e <= Len(d)
    BY <1>1, <1>2, <2>2, <2>3
  <2>5. Found(kind, o + s, o + e) \in InText
    BY <1>2, <2>2, InTextHas
  <2> QED
    BY <2>2, <2>3, <2>4, <2>5
<1>3. CASE m \in findElectrumSeeds(d, <<lo, hi>>)
  <2>1. PICK s \in Nat, e \in Nat : m = Found("seed", s, e) /\ IsWord(d, lo, hi, s, e)
    BY <1>3, SeedsAre
  <2>2. m.kind = "seed" /\ m.end = e
    BY <2>1 DEF Found
  <2>3. n < e /\ e <= Len(d)
    BY <1>1, <2>1, <2>2 DEF IsWord, IsRun
  <2>4. IsWord(text, 0, Len(text), o + s, o + e) \/ (n = 0 /\ s = 0)
    BY <2>1, WordUp DEF BlockIs
  <2>5. Found("seed", o + s, o + e) \in InText \/ (n = 0 /\ s = 0)
    BY <2>4, InTextHas
  <2> QED
    BY <2>1, <2>2, <2>3, <2>5
<1>4. CASE m \in findBIP39Phrases(d, <<lo, hi>>)
  <2>1. PICK s \in Nat, x \in Nat, y \in Nat, e \in Nat :
               m = Found("phrase", s, e) /\ IsPhrase(d, lo, hi, s, x, y, e)
    BY <1>4, PhrasesAre
  <2>2. m.kind = "phrase" /\ m.end = e
    BY <2>1 DEF Found
  <2>3. n < e /\ e <= Len(d)
    BY <1>1, <2>1, <2>2 DEF IsPhrase, IsWord, IsRun
  <2>4. IsPhrase(text, 0, Len(text), o + s, o + x, o + y, o + e) \/ (n = 0 /\ s = 0)
    BY <2>1, PhraseUp DEF BlockIs
  <2>5. Found("phrase", o + s, o + e) \in InText \/ (n = 0 /\ s = 0)
    BY <2>4, InTextHas
  <2> QED
    BY <2>1, <2>2, <2>3, <2>5
<1>5. \/ \E kind, p : <<kind, p>> \in Raw /\ m \in Occurrences(kind, p, d, 0, Len(d))
      \/ \E kind, p : <<kind, p>> \in Edged /\ m \in Occurrences(kind, p, d, lo, hi)
      \/ m \in findElectrumSeeds(d, <<lo, hi>>)
      \/ m \in findBIP39Phrases(d, <<lo, hi>>)
  BY MatchesAre
<1>6. CASE \E kind, p : <<kind, p>> \in Raw /\ m \in Occurrences(kind, p, d, 0, Len(d))
  BY <1>2, <1>6
<1>7. CASE \E kind, p : <<kind, p>> \in Edged /\ m \in Occurrences(kind, p, d, lo, hi)
  BY <1>2, <1>7
<1> QED
  BY <1>3, <1>4, <1>5, <1>6, <1>7

(* A needle, an object or a header that ends past the overlap is reported, a  *)
(* needle unless an earlier one is.                                           *)
LEMMA RawDown ==
  ASSUME NEW b, NEW d, NEW o, NEW n, NEW lo, NEW hi, BlockIs(text, b, d, o, n, lo, hi),
         NEW kind, NEW p, <<kind, p>> \in Raw, NEW s \in Nat, NEW e \in Nat, n < e, e <= Len(d),
         Found(kind, o + s, o + e) \in Occurrences(kind, p, text, 0, Len(text))
  PROVE  \/ Found(kind, s, e) \in Matches(b)
         \/ kind = "needle" /\ \E x \in Nat, y \in Nat :
              Found("needle", x, y) \in Matches(b) /\ x < s /\ n < y /\ y <= Len(d)
<1>0. /\ o \in Nat /\ n \in Nat /\ lo \in Nat /\ hi \in Nat /\ Len(d) \in Nat /\ Len(text) \in Nat
      /\ lo <= hi /\ hi <= Len(d) /\ o + Len(d) <= Len(text) /\ n < Len(d) /\ LiesAt(text, d, o)
  BY BlockFacts
<1> USE <1>0
<1>1. Len(p) \in Nat
  BY PatternsFit
<1>2. Found(kind, s, e) \in Occurrences(kind, p, d, 0, Len(d))
  <2>1. ASSUME NEW l \in Nat, l = 0, NEW h \in Nat, h = Len(d)
        PROVE  Found(kind, s, e) \in Occurrences(kind, p, d, l, h)
    <3>1. l <= s /\ e <= h /\ h <= Len(d)
      BY <2>1
    <3> QED
      BY <1>1, <3>1, OccurrenceDown
  <2> QED
    BY <2>1
<1>3. Found(kind, s, e).start = s /\ Found(kind, s, e).end = e
  BY DEF Found
<1>4. CASE kind # "needle"
  BY <1>2, <1>3, <1>4, RawMatch
<1>5. CASE kind = "needle"
  <2> DEFINE F == {x \in Occurrences("needle", Needle, d, 0, Len(d)) : x.end > n}
             S == {x \in Nat : \E y \in Nat : Found("needle", x, y) \in F}
  <2>1. p = Needle /\ Len(Needle) \in Nat
    BY <1>1, <1>5 DEF Raw
  <2>2. \A m \in F : \E x \in Nat, y \in Nat : m = Found("needle", x, y) /\ y <= Len(d)
    BY SMTT(30), <2>1, OccurrenceIs
  <2>3. \A x, y : Found("needle", x, y).start = x /\ Found("needle", x, y).end = y
    BY DEF Found
  <2>4. Found("needle", s, e) \in F
    BY <1>2, <1>3, <1>5, <2>1
  <2> HIDE DEF F
  <2>5. s \in S /\ S \subseteq Nat
    BY <2>4
  <2>6. PICK x \in S : \A z \in S : x <= z
    BY <2>5, LeastNat
  <2>7. PICK y \in Nat : Found("needle", x, y) \in F
    BY <2>6
  <2>8. x \in Nat /\ x <= s
    BY <2>5, <2>6
  <2>9. \A m \in F : x <= m.start
    <3>1. SUFFICES ASSUME NEW m \in F PROVE x <= m.start
      OBVIOUS
    <3>2. PICK i \in Nat, j \in Nat : m = Found("needle", i, j)
      BY <2>2
    <3>3. i \in S /\ m.start = i
      BY <2>3, <3>2
    <3> HIDE DEF S
    <3> QED
      BY <2>6, <3>3
  <2>10. Found("needle", x, y) \in firstOnly(F)
    BY <2>3, <2>7, <2>9 DEF firstOnly
  <2>11. Found("needle", x, y) \in Matches(b)
    BY <2>10, NeedleMatch DEF F
  <2>12. n < y /\ y <= Len(d)
    <3>1. Found("needle", x, y).end > n
      BY <2>7 DEF F
    <3>2. PICK i \in Nat, j \in Nat : Found("needle", x, y) = Found("needle", i, j) /\ j <= Len(d)
      BY <2>2, <2>7
    <3>3. j = y
      BY SMTT(30), <2>3, <3>2
    <3> QED
      BY <2>3, <3>1, <3>2, <3>3
  <2>13. CASE x = s
    <3>1. ASSUME NEW v \in Nat, NEW z \in Nat, Found("needle", v, z) \in F
          PROVE  z = v + Len(Needle)
      <4>2. Found("needle", v, z) \in Occurrences("needle", Needle, d, 0, Len(d))
        BY <3>1 DEF F
      <4>3. PICK k \in 0 .. Len(d) - Len(Needle) : Found("needle", v, z) = Found("needle", k, k + Len(Needle))
        BY <4>2 DEF Occurrences
      <4> QED
        BY <4>3 DEF Found
    <3>4. y = e
      BY <2>4, <2>7, <2>13, <3>1
    <3> QED
      BY <1>5, <2>11, <2>13, <3>4
  <2>14. CASE x < s
    BY <1>5, <2>8, <2>11, <2>12, <2>14
  <2> QED
    BY <2>8, <2>13, <2>14
<1> QED
  BY <1>4, <1>5

(* What is made of runs is reported if the edges leave it, a seed unless a    *)
(* phrase around it is.                                                       *)
LEMMA RunsDown ==
  ASSUME NEW b, NEW d, NEW o, NEW n, NEW lo, NEW hi, BlockIs(text, b, d, o, n, lo, hi),
         NEW s \in Nat, NEW e \in Nat, n < e, lo <= s, e <= hi
  PROVE  /\ \A kind, p : <<kind, p>> \in Edged
                         /\ Found(kind, o + s, o + e) \in Occurrences(kind, p, text, 0, Len(text))
                           => Found(kind, s, e) \in Matches(b)
         /\ IsWord(text, 0, Len(text), o + s, o + e) =>
              \/ Found("seed", s, e) \in Matches(b)
              \/ \E x \in Nat, y \in Nat : /\ Found("phrase", x, y) \in Matches(b)
                                           /\ x <= s /\ e <= y /\ y - x > e - s
         /\ \A x \in Nat, y \in Nat : IsPhrase(text, 0, Len(text), o + s, o + x, o + y, o + e) =>
              Found("phrase", s, e) \in Matches(b)
<1>0. /\ o \in Nat /\ n \in Nat /\ lo \in Nat /\ hi \in Nat /\ Len(d) \in Nat /\ Len(text) \in Nat
      /\ lo <= hi /\ hi <= Len(d) /\ o + Len(d) <= Len(text) /\ n < Len(d) /\ LiesAt(text, d, o)
  BY BlockFacts
<1> USE <1>0
<1>1. \A k, x, y : Found(k, x, y).start = x /\ Found(k, x, y).end = y
  BY DEF Found
<1>2. ASSUME NEW kind, NEW p, <<kind, p>> \in Edged,
             Found(kind, o + s, o + e) \in Occurrences(kind, p, text, 0, Len(text))
      PROVE  Found(kind, s, e) \in Matches(b)
  <2>1. Len(p) \in Nat
    BY <1>2, PatternsFit
  <2>2. Found(kind, s, e) \in Occurrences(kind, p, d, lo, hi)
    BY <1>2, <2>1, OccurrenceDown
  <2> QED
    BY <1>1, <1>2, <2>2, EdgedMatch
<1>3. ASSUME NEW x \in Nat, NEW y \in Nat, IsPhrase(text, 0, Len(text), o + s, o + x, o + y, o + e)
      PROVE  Found("phrase", s, e) \in Matches(b)
  <2>1. IsPhrase(d, lo, hi, s, x, y, e)
    BY <1>3, PhraseDown DEF BlockIs
  <2>2. Found("phrase", s, e) \in findBIP39Phrases(d, <<lo, hi>>)
    BY <2>1, PhrasesAre
  <2> QED
    BY <1>1, <2>2, PhraseMatch
<1>4. ASSUME IsWord(text, 0, Len(text), o + s, o + e)
      PROVE  \/ Found("seed", s, e) \in Matches(b)
             \/ \E x \in Nat, y \in Nat : /\ Found("phrase", x, y) \in Matches(b)
                                          /\ x <= s /\ e <= y /\ y - x > e - s
  <2>1. IsWord(d, lo, hi, s, e)
    BY <1>4, WordDown DEF BlockIs
  <2>2. Found("seed", s, e) \in findElectrumSeeds(d, <<lo, hi>>)
    BY <2>1, SeedsAre
  <2>3. \/ Found("seed", s, e) \in Matches(b)
        \/ suppressedByBIP39(Found("seed", s, e), findBIP39Phrases(d, <<lo, hi>>))
    BY <1>1, <2>2, SeedMatch
  <2>4. ASSUME suppressedByBIP39(Found("seed", s, e), findBIP39Phrases(d, <<lo, hi>>))
        PROVE  \E x \in Nat, y \in Nat : /\ Found("phrase", x, y) \in Matches(b)
                                         /\ x <= s /\ e <= y /\ y - x > e - s
    <3>1. PICK m \in findBIP39Phrases(d, <<lo, hi>>) :
            m.start <= s /\ e <= m.end /\ m.end - m.start > e - s
      BY <1>1, <2>4 DEF suppressedByBIP39
    <3>2. PICK x \in Nat, y \in Nat : m = Found("phrase", x, y)
      BY SMTT(30), PhrasesAre
    <3>3. x <= s /\ e <= y /\ y - x > e - s /\ m.end > n
      BY SMTT(30), <1>1, <3>1, <3>2
    <3>4. m \in Matches(b)
      BY <3>1, <3>3, PhraseMatch
    <3> QED
      BY <3>2, <3>3, <3>4
  <2> QED
    BY <2>3, <2>4
<1> QED
  BY <1>2, <1>3, <1>4

-----------------------------------------------------------------------------
(* The blocks of a target.                                                    *)

(* What the detector reports of a block.                                      *)
ReportsOf(b) ==
  {[kind |-> m.kind, start |-> b.offset + m.start, end |-> b.offset + m.end,
    by |-> b.offset + b.overlap] : m \in Matches(b)}

MatchTypes ==
  /\ text \in Texts /\ pos \in Nat /\ haveTail \in BOOLEAN
  /\ tail \in Seq(Char) /\ Len(tail) = scanOverlap /\ cut \in Seq(Cut)
  /\ block # None => cut # <<>> /\ block = cut[Len(cut)]

(* The blocks lie one behind the other, with a gap before one that has no     *)
(* overlap; the tail is what lies before the next.                            *)
Placed ==
  /\ \A i \in 1 .. Len(cut) : /\ LiesIn(text, cut[i]) /\ To(cut[i]) <= pos
                              /\ ~haveTail => To(cut[i]) < pos
  /\ \A i, j \in 1 .. Len(cut) : i < j =>
       /\ To(cut[i]) <= From(cut[j])
       /\ cut[j].overlap = 0 => To(cut[i]) < From(cut[j])
  /\ haveTail => /\ scanOverlap <= pos /\ pos <= Len(text)
                 /\ \A k \in 1 .. scanOverlap : tail[k] = text[(pos - scanOverlap) + k]

(* All blocks but the one on its way have been reported.                      *)
Detected == {i \in 1 .. Len(cut) : block = None \/ i < Len(cut)}
AllReported == reports = UNION {ReportsOf(cut[i]) : i \in Detected}

MatchInv == MatchTypes /\ (Sound => Placed) /\ AllReported

LEMMA NewBlockIs ==
  ASSUME MatchTypes, NEW n \in 1 .. Block, pos + n <= Len(text), NEW final \in BOOLEAN,
         NEW b, b = NewBlock(n, final)
  PROVE  /\ b \in Cut /\ b # None /\ b.offset = pos - prefix /\ b.overlap = prefix /\ b.final = final
         /\ prefix \in {0, scanOverlap} /\ scanOverlap \in Nat \ {0}
         /\ Len(b.data) = prefix + n
         /\ \A k \in 1 .. Len(b.data) :
              b.data[k] = IF k <= prefix THEN tail[k] ELSE text[pos + (k - prefix)]
<1>1. scanOverlap \in Nat \ {0} /\ prefix \in {0, scanOverlap} /\ (prefix # 0 <=> haveTail)
  BY MatchAssumption DEF scanOverlap, prefix, MatchTypes
<1>2. text \in Seq(Char) /\ Len(text) \in Nat /\ pos \in Nat /\ n \in Nat /\ 1 <= n /\ n <= Block
  BY TextsAreSeqs, MatchAssumption DEF MatchTypes
<1> DEFINE front == IF haveTail THEN tail ELSE <<>>
           rest  == SubSeq(text, pos + 1, pos + n)
<1>3. front \in Seq(Char) /\ Len(front) = prefix /\ (prefix # 0 => front = tail)
  BY <1>1, EmptySeq DEF MatchTypes, prefix
<1>4. rest \in Seq(Char) /\ Len(rest) = n /\ \A k \in 1 .. n : rest[k] = text[pos + k]
  <2>1. \A k \in pos + 1 .. pos + n : text[k] \in Char
    <3>1. \A k \in pos + 1 .. pos + n : k \in 1 .. Len(text)
      BY <1>2
    <3> QED
      BY <1>2, <3>1, ElementOfSeq
  <2>2. /\ pos + 1 \in Int /\ pos + n \in Int /\ pos + 1 <= pos + n
        /\ (pos + n) - (pos + 1) + 1 = n /\ \A k \in 1 .. n : (pos + 1) + k - 1 = pos + k
    BY <1>2
  <2> QED
    BY <2>1, <2>2, SubSeqProperties
<1>5. /\ b.data = front \o rest /\ b.offset = pos - prefix /\ b.overlap = prefix /\ b.final = final
      /\ b = [offset |-> pos - prefix, overlap |-> prefix, final |-> final, data |-> front \o rest]
  BY DEF NewBlock
<1> HIDE DEF front, rest
<1>6. /\ front \o rest \in Seq(Char) /\ Len(front \o rest) = prefix + n
      /\ \A k \in 1 .. prefix + n :
           (front \o rest)[k] = IF k <= prefix THEN front[k] ELSE rest[k - prefix]
  BY <1>3, <1>4, ConcatProperties
<1>7. \A k \in 1 .. prefix + n :
        (front \o rest)[k] = IF k <= prefix THEN tail[k] ELSE text[pos + (k - prefix)]
  <2>1. SUFFICES ASSUME NEW k \in 1 .. prefix + n
                 PROVE  (front \o rest)[k] = IF k <= prefix THEN tail[k] ELSE text[pos + (k - prefix)]
    OBVIOUS
  <2>2. CASE k <= prefix
    <3>1. prefix # 0
      BY <1>1, <2>2
    <3> QED
      BY <1>3, <1>6, <2>2, <3>1
  <2>3. CASE ~(k <= prefix)
    <3>1. k - prefix \in 1 .. n
      BY <1>1, <1>2, <2>3
    <3> QED
      BY <1>4, <1>6, <2>3, <3>1
  <2> QED
    BY <2>2, <2>3
<1>8. b \in Cut
  <2>1. pos - prefix \in Int
    BY <1>1, <1>2
  <2> QED
    BY <1>1, <1>5, <1>6, <2>1 DEF Cut
<1>9. b # None
  <2>1. DOMAIN b = {"offset", "overlap", "final", "data"}
    BY <1>5
  <2>2. DOMAIN None = {}
    BY DEF None
  <2> QED
    BY <2>1, <2>2
<1> QED
  BY <1>1, <1>5, <1>6, <1>7, <1>8, <1>9

(* The tail that a long enough block leaves is what lies before its end.      *)
LEMMA NewTailIs ==
  ASSUME NEW d \in Seq(Char), NEW v \in Nat \ {0}, Len(d) >= v
  PROVE  /\ SubSeq(d, Len(d) - v + 1, Len(d)) \in Seq(Char)
         /\ Len(SubSeq(d, Len(d) - v + 1, Len(d))) = v
         /\ \A k \in 1 .. v : SubSeq(d, Len(d) - v + 1, Len(d))[k] = d[(Len(d) - v) + k]
<1>1. Len(d) \in Nat /\ v \in Nat /\ 1 <= v
  OBVIOUS
<1>2. /\ Len(d) - v + 1 \in Int /\ Len(d) \in Int /\ Len(d) - v + 1 <= Len(d)
      /\ Len(d) - (Len(d) - v + 1) + 1 = v
      /\ \A k \in 1 .. v : (Len(d) - v + 1) + k - 1 = (Len(d) - v) + k
  BY <1>1
<1>3. \A k \in Len(d) - v + 1 .. Len(d) : d[k] \in Char
  <2>1. \A k \in Len(d) - v + 1 .. Len(d) : k \in 1 .. Len(d)
    BY <1>1
  <2> QED
    BY <2>1, ElementOfSeq
<1> QED
  BY <1>2, <1>3, SubSeqProperties

(* A block of sound data lies in the text behind what is read.                *)
LEMMA NewBlockLies ==
  ASSUME MatchTypes, Placed, NEW n \in 1 .. Block, pos + n <= Len(text), NEW final \in BOOLEAN,
         final => pos + n = Len(text), NEW b, b = NewBlock(n, final)
  PROVE  /\ LiesIn(text, b) /\ From(b) = pos /\ To(b) = pos + n
         /\ b.overlap = 0 => ~haveTail
<1> DEFINE d == b.data
           o == b.offset
<1>1. /\ b \in Cut /\ b.offset = pos - prefix /\ b.overlap = prefix /\ b.final = final
      /\ prefix \in {0, scanOverlap} /\ scanOverlap \in Nat \ {0} /\ Len(d) = prefix + n
      /\ \A k \in 1 .. Len(d) : d[k] = IF k <= prefix THEN tail[k] ELSE text[pos + (k - prefix)]
  BY NewBlockIs
<1>2. pos \in Nat /\ n \in Nat /\ 1 <= n /\ n <= Block /\ Block \in Nat /\ text \in Seq(Char)
      /\ Len(text) \in Nat /\ d \in Seq(Char)
  <2>1. pos \in Nat /\ text \in Seq(Char)
    BY TextsAreSeqs DEF MatchTypes
  <2>2. d \in Seq(Char)
    BY <1>1 DEF Cut
  <2>3. Block \in Nat /\ n \in Nat /\ 1 <= n /\ n <= Block
    BY MatchAssumption
  <2>4. Len(text) \in Nat
    BY <2>1
  <2> QED
    BY <2>1, <2>2, <2>3, <2>4
<1>3. prefix # 0 => haveTail
  BY DEF prefix
<1>4. prefix # 0 => /\ prefix = scanOverlap /\ scanOverlap <= pos
                    /\ \A k \in 1 .. scanOverlap : tail[k] = text[(pos - scanOverlap) + k]
  BY <1>1, <1>3 DEF Placed
<1>5. o \in Nat /\ o = pos - prefix /\ o + Len(d) = pos + n
  BY <1>1, <1>2, <1>4
<1>6. ASSUME NEW k \in 1 .. Len(d) PROVE d[k] = text[o + k]
  <2>1. CASE k <= prefix
    <3>1. prefix # 0 /\ k \in 1 .. scanOverlap
      BY <1>1, <1>4, <2>1
    <3> QED
      BY <1>1, <1>4, <1>5, <2>1, <3>1
  <2>2. CASE ~(k <= prefix)
    <3>1. pos + (k - prefix) = o + k
      BY <1>1, <1>2, <1>5
    <3> QED
      BY <1>1, <2>2, <3>1
  <2> QED
    BY <2>1, <2>2
<1>7. LiesAt(text, d, o)
  BY <1>2, <1>5, <1>6 DEF LiesAt
<1>8. LiesIn(text, b)
  <2>1. prefix < Len(d) /\ Len(d) <= prefix + Block
    BY <1>1, <1>2
  <2>2. final => o + Len(d) = Len(text)
    BY <1>5
  <2> QED
    BY <1>1, <1>7, <2>1, <2>2 DEF LiesIn
<1>9. From(b) = pos /\ To(b) = pos + n
  <2>1. (pos - prefix) + prefix = pos
    BY <1>1, <1>2
  <2> QED
    BY <1>1, <1>5, <2>1 DEF From, To
<1>10. prefix = 0 => ~haveTail
  BY <1>1 DEF prefix
<1> QED
  BY <1>1, <1>8, <1>9, <1>10

-----------------------------------------------------------------------------
LEMMA MatchInvInit == MatchInit => MatchInv
<1> SUFFICES ASSUME MatchInit PROVE MatchInv
  OBVIOUS
<1>1. /\ text \in Texts /\ start \in Nat /\ pos = start /\ haveTail = FALSE /\ block = None
      /\ cut = <<>> /\ reports = {} /\ tail = [i \in 1 .. scanOverlap |-> Zero]
  BY MatchAssumption DEF MatchInit
<1>2. scanOverlap \in Nat
  BY MatchAssumption DEF scanOverlap
<1>3. tail \in Seq(Char) /\ Len(tail) = scanOverlap
  <2>1. tail \in [1 .. scanOverlap -> Char]
    BY <1>1 DEF Char
  <2> QED
    BY <1>2, <2>1, SeqDef
<1>4. cut \in Seq(Cut) /\ Len(cut) = 0 /\ 1 .. Len(cut) = {}
  BY <1>1, EmptySeq
<1>5. MatchTypes
  BY <1>1, <1>3, <1>4 DEF MatchTypes
<1>6. Placed
  BY <1>1, <1>4 DEF Placed
<1>7. AllReported
  <2>1. Detected = {}
    BY <1>4 DEF Detected
  <2> QED
    BY <1>1, <2>1 DEF AllReported
<1> QED
  BY <1>5, <1>6, <1>7 DEF MatchInv

LEMMA SendBlockKeeps ==
  ASSUME MatchInv, SendBlock
  PROVE  MatchInv'
<1>1. /\ MatchTypes /\ AllReported /\ (Sound => Placed) /\ block = None
      /\ haveTail' = TRUE /\ text' = text /\ reports' = reports
  BY DEF MatchInv, SendBlock
<1>2. PICK n \in 1 .. Block :
        /\ pos + n <= Len(text) /\ pos' = pos + n
        /\ block' = NewBlock(n, pos + n = Len(text) /\ n < Block)
        /\ cut' = Append(cut, NewBlock(n, pos + n = Len(text) /\ n < Block))
        /\ LET b == NewBlock(n, pos + n = Len(text) /\ n < Block)
           IN tail' = IF Len(b.data) >= scanOverlap
                        THEN SubSeq(b.data, Len(b.data) - scanOverlap + 1, Len(b.data)) ELSE tail
  BY DEF SendBlock
<1>3. PICK final \in BOOLEAN : final = (pos + n = Len(text) /\ n < Block)
  OBVIOUS
<1>4. PICK b : b = NewBlock(n, final)
  OBVIOUS
<1>5. /\ block' = b /\ cut' = Append(cut, b)
      /\ tail' = IF Len(b.data) >= scanOverlap
                   THEN SubSeq(b.data, Len(b.data) - scanOverlap + 1, Len(b.data)) ELSE tail
  BY <1>2, <1>3, <1>4
<1>6. final => pos + n = Len(text)
  BY <1>3
<1>7. b \in Cut /\ b # None /\ scanOverlap \in Nat \ {0} /\ b.data \in Seq(Char)
  BY <1>1, <1>2, <1>4, NewBlockIs DEF Cut
<1>8. cut \in Seq(Cut) /\ pos \in Nat /\ n \in Nat /\ 1 <= n /\ Block \in Nat
  BY <1>1, MatchAssumption DEF MatchTypes
<1>9. PICK l \in Nat : l = Len(cut)
  BY <1>8
<1>10. /\ cut' \in Seq(Cut) /\ Len(cut') = l + 1 /\ cut'[l + 1] = b
       /\ \A i \in 1 .. l : cut'[i] = cut[i]
  BY <1>5, <1>7, <1>8, <1>9, AppendProperties
<1>11. MatchTypes'
  <2>1. tail' \in Seq(Char) /\ Len(tail') = scanOverlap
    BY <1>1, <1>5, <1>7, NewTailIs DEF MatchTypes
  <2>2. cut' # <<>> /\ block' = cut'[Len(cut')]
    <3>1. Len(<<>>) = 0 /\ l + 1 # 0
      BY <1>9
    <3> QED
      BY <1>5, <1>10, <3>1
  <2>3. text' \in Texts /\ pos' \in Nat
    BY <1>1, <1>2, <1>8 DEF MatchTypes
  <2>4. scanOverlap' = scanOverlap
    BY DEF scanOverlap
  <2> QED
    BY <1>1, <1>10, <2>1, <2>2, <2>3, <2>4 DEF MatchTypes
<1>12. ASSUME Sound' PROVE Placed'
  <2>1. /\ Len(b.data) >= scanOverlap /\ Sound
    <3>1. \A i \in 1 .. l + 1 : Len(cut'[i].data) >= scanOverlap
      BY <1>10, <1>12 DEF Sound, scanOverlap
    <3>2. l + 1 \in 1 .. l + 1 /\ \A i \in 1 .. l : i \in 1 .. l + 1
      BY <1>9
    <3>3. DOMAIN cut = 1 .. l
      BY <1>8, <1>9
    <3> QED
      BY <1>10, <3>1, <3>2, <3>3 DEF Sound
  <2>2. Placed
    BY <1>1, <2>1
  <2>3. /\ LiesIn(text, b) /\ From(b) = pos /\ To(b) = pos + n /\ (b.overlap = 0 => ~haveTail)
    BY <1>1, <1>2, <1>4, <1>6, <2>2, NewBlockLies
  <2>4. /\ \A i \in 1 .. l : LiesIn(text, cut[i]) /\ To(cut[i]) <= pos /\ (~haveTail => To(cut[i]) < pos)
        /\ \A i, j \in 1 .. l : i < j =>
             To(cut[i]) <= From(cut[j]) /\ (cut[j].overlap = 0 => To(cut[i]) < From(cut[j]))
    BY <1>9, <2>2 DEF Placed
  <2>5. \A i \in 1 .. l : To(cut[i]) \in Nat
    BY <2>4 DEF LiesIn, LiesAt, To
  <2>6. \A i \in 1 .. l + 1 : LiesIn(text, cut'[i]) /\ To(cut'[i]) <= pos + n
    <3>1. SUFFICES ASSUME NEW i \in 1 .. l + 1 PROVE LiesIn(text, cut'[i]) /\ To(cut'[i]) <= pos + n
      OBVIOUS
    <3>2. CASE i = l + 1
      BY <1>8, <1>10, <2>3, <3>2
    <3>3. CASE i \in 1 .. l
      <4>1. cut'[i] = cut[i] /\ LiesIn(text, cut[i]) /\ To(cut[i]) <= pos /\ To(cut[i]) \in Nat
        BY <1>10, <2>4, <2>5, <3>3
      <4> QED
        BY <1>8, <4>1
    <3> QED
      BY <1>9, <3>2, <3>3
  <2>7. \A i, j \in 1 .. l + 1 : i < j =>
          /\ To(cut'[i]) <= From(cut'[j])
          /\ cut'[j].overlap = 0 => To(cut'[i]) < From(cut'[j])
    <3>1. SUFFICES ASSUME NEW i \in 1 .. l + 1, NEW j \in 1 .. l + 1, i < j
                   PROVE  /\ To(cut'[i]) <= From(cut'[j])
                          /\ cut'[j].overlap = 0 => To(cut'[i]) < From(cut'[j])
      OBVIOUS
    <3>2. i \in 1 .. l /\ (j \in 1 .. l \/ j = l + 1) /\ cut'[i] = cut[i]
      BY <1>9, <1>10, <3>1
    <3>3. CASE j \in 1 .. l
      BY <1>10, <2>4, <3>1, <3>2, <3>3
    <3>4. CASE j = l + 1
      BY <1>10, <2>3, <2>4, <3>2, <3>4
    <3> QED
      BY <3>2, <3>3, <3>4
  <2>8. /\ scanOverlap <= pos + n
        /\ \A k \in 1 .. scanOverlap : tail'[k] = text[((pos + n) - scanOverlap) + k]
    <3>1. PICK d, o : d = b.data /\ o = b.offset
      OBVIOUS
    <3>2. /\ d \in Seq(Char) /\ o \in Nat /\ Len(d) \in Nat /\ o + Len(d) = pos + n
          /\ \A k \in 1 .. Len(d) : d[k] = text[o + k]
      BY <2>3, <3>1 DEF LiesIn, LiesAt, To
    <3>3. \A k \in 1 .. scanOverlap : tail'[k] = d[(Len(d) - scanOverlap) + k]
      BY <1>5, <1>7, <2>1, <3>1, NewTailIs
    <3>4. \A k \in 1 .. scanOverlap :
            /\ (Len(d) - scanOverlap) + k \in 1 .. Len(d)
            /\ o + ((Len(d) - scanOverlap) + k) = ((pos + n) - scanOverlap) + k
      <4>1. SUFFICES ASSUME NEW k \in 1 .. scanOverlap
                     PROVE  /\ (Len(d) - scanOverlap) + k \in 1 .. Len(d)
                            /\ o + ((Len(d) - scanOverlap) + k) = ((pos + n) - scanOverlap) + k
        OBVIOUS
      <4>2. scanOverlap \in Nat /\ Len(d) \in Nat /\ o \in Nat /\ scanOverlap <= Len(d) /\ o + Len(d) = pos + n
        BY <1>7, <2>1, <3>1, <3>2
      <4>3. (Len(d) - scanOverlap) + k \in 1 .. Len(d)
        BY <4>2
      <4>4. o + ((Len(d) - scanOverlap) + k) = ((o + Len(d)) - scanOverlap) + k
        BY <4>2
      <4> QED
        BY <4>2, <4>3, <4>4
    <3>5. scanOverlap <= pos + n
      BY <1>7, <1>8, <2>1, <3>1, <3>2
    <3> QED
      BY <3>2, <3>3, <3>4, <3>5
  <2>9. scanOverlap' = scanOverlap
    BY DEF scanOverlap
  <2> QED
    BY <1>1, <1>2, <1>10, <2>6, <2>7, <2>8, <2>9 DEF Placed
<1>13. AllReported'
  <2>1. Detected = 1 .. l
    BY <1>1, <1>9 DEF Detected
  <2>2. Detected' = {i \in 1 .. l + 1 : i < l + 1}
    BY <1>5, <1>7, <1>10 DEF Detected, None
  <2>3. Detected' = 1 .. l
    BY <1>9, <2>2
  <2>4. \A i \in 1 .. l : ReportsOf(cut'[i]) = ReportsOf(cut[i])
    BY <1>10
  <2> QED
    BY <1>1, <2>1, <2>3, <2>4 DEF AllReported
<1> QED
  BY <1>11, <1>12, <1>13 DEF MatchInv

LEMMA SkipUnreadableKeeps ==
  ASSUME MatchInv, SkipUnreadable
  PROVE  MatchInv'
<1>1. /\ MatchTypes /\ AllReported /\ (Sound => Placed)
      /\ pos' = pos + Block /\ haveTail' = FALSE /\ text' = text /\ tail' = tail
      /\ block' = block /\ cut' = cut /\ reports' = reports
  BY DEF MatchInv, SkipUnreadable
<1>2. pos \in Nat /\ Block \in Nat \ {0} /\ pos' \in Nat
  BY <1>1, MatchAssumption DEF MatchTypes
<1>3. scanOverlap' = scanOverlap
  BY DEF scanOverlap
<1>4. MatchTypes'
  BY <1>1, <1>2, <1>3 DEF MatchTypes
<1>5. ASSUME Sound' PROVE Placed'
  <2>1. Placed
    BY <1>1, <1>5 DEF Sound, scanOverlap
  <2>2. \A i \in 1 .. Len(cut) : LiesIn(text, cut[i]) /\ To(cut[i]) <= pos /\ To(cut[i]) \in Nat
    BY <2>1 DEF Placed, LiesIn, LiesAt, To
  <2>3. \A i \in 1 .. Len(cut) : To(cut[i]) <= pos + Block /\ To(cut[i]) < pos + Block
    BY <1>2, <2>2
  <2> QED
    BY <1>1, <1>3, <2>1, <2>2, <2>3 DEF Placed
<1>6. AllReported'
  BY <1>1 DEF AllReported, Detected, None
<1> QED
  BY <1>4, <1>5, <1>6 DEF MatchInv

LEMMA EndOfTargetKeeps ==
  ASSUME MatchInv, UNCHANGED <<text, pos, tail, haveTail, block, cut, reports>>
  PROVE  MatchInv'
<1>1. scanOverlap' = scanOverlap
  BY DEF scanOverlap
<1>2. MatchTypes'
  BY <1>1 DEF MatchInv, MatchTypes
<1>3. Sound' => Placed'
  BY <1>1 DEF MatchInv, Sound, Placed
<1>4. AllReported'
  BY DEF MatchInv, AllReported, Detected, None
<1> QED
  BY <1>2, <1>3, <1>4 DEF MatchInv

LEMMA detectWalletsKeeps ==
  ASSUME MatchInv, detectWallets
  PROVE  MatchInv'
<1>1. /\ MatchTypes /\ AllReported /\ (Sound => Placed) /\ block # None /\ block' = None
      /\ reports' = reports \cup ReportsOf(block)
      /\ UNCHANGED <<text, pos, tail, haveTail, cut>>
  BY DEF MatchInv, detectWallets, ReportsOf
<1>2. scanOverlap' = scanOverlap
  BY DEF scanOverlap
<1>3. MatchTypes'
  BY <1>1, <1>2 DEF MatchTypes, None
<1>4. Sound' => Placed'
  BY <1>1, <1>2 DEF Sound, Placed
<1>5. AllReported'
  <2>1. PICK l \in Nat : l = Len(cut) /\ l # 0
    BY <1>1, EmptySeq DEF MatchTypes
  <2>2. block = cut[l]
    BY <1>1, <2>1 DEF MatchTypes
  <2>3. Detected = {i \in 1 .. l : i < l}
    BY <1>1, <2>1 DEF Detected
  <2>4. Detected' = {i \in 1 .. l : TRUE}
    BY <1>1, <2>1 DEF Detected, None
  <2>5. Detected' = Detected \cup {l} /\ l \notin Detected
    BY <2>1, <2>3, <2>4
  <2>6. UNION {ReportsOf(cut[i]) : i \in Detected \cup {l}} =
          (UNION {ReportsOf(cut[i]) : i \in Detected}) \cup ReportsOf(cut[l])
    OBVIOUS
  <2>7. reports' = UNION {ReportsOf(cut[i]) : i \in Detected'}
    BY <1>1, <2>2, <2>5, <2>6 DEF AllReported
  <2> QED
    BY <1>1, <2>7 DEF AllReported
<1> QED
  BY <1>3, <1>4, <1>5 DEF MatchInv

(* The blocks lie over the text as they were read, and what is reported is    *)
(* what their matches are.                                                    *)
THEOREM BlocksLieInTheText == MatchSpec => []MatchInv
<1>1. MatchInv /\ [MatchNext]_matchVars => MatchInv'
  <2>1. SUFFICES ASSUME MatchInv, [MatchNext]_matchVars PROVE MatchInv'
    OBVIOUS
  <2>2. CASE SendBlock
    BY <2>1, <2>2, SendBlockKeeps
  <2>3. CASE SkipUnreadable
    BY <2>1, <2>3, SkipUnreadableKeeps
  <2>4. CASE EndOfTarget
    BY <2>1, <2>4, EndOfTargetKeeps DEF EndOfTarget
  <2>5. CASE detectWallets
    BY <2>1, <2>5, detectWalletsKeeps
  <2>6. CASE UNCHANGED matchVars
    BY <2>1, <2>6, EndOfTargetKeeps DEF matchVars
  <2> QED
    BY <2>1, <2>2, <2>3, <2>4, <2>5, <2>6 DEF MatchNext
<1> QED
  BY <1>1, MatchInvInit, PTL DEF MatchSpec

-----------------------------------------------------------------------------
(* A report stands for a match in a block that lies on the text.              *)
ReportFrom(r, i, d, o, n, lo, hi) ==
  /\ i \in 1 .. Len(cut) /\ BlockIs(text, cut[i], d, o, n, lo, hi)
  /\ \E s \in Nat, e \in Nat :
       /\ r = [kind |-> r.kind, start |-> o + s, end |-> o + e, by |-> o + n]
       /\ n < e /\ e <= Len(d)
       /\ \/ Found(r.kind, o + s, o + e) \in InText
          \/ r.kind \in {"seed", "phrase"} /\ n = 0 /\ s = 0

LEMMA ReportIs ==
  ASSUME MatchInv, Sound, NEW r \in reports
  PROVE  \E i, d, o, n, lo, hi : ReportFrom(r, i, d, o, n, lo, hi)
<1>1. AllReported /\ Placed
  BY DEF MatchInv
<1>2. PICK i \in 1 .. Len(cut) : r \in ReportsOf(cut[i])
  BY <1>1 DEF AllReported, Detected
<1>3. PICK b : b = cut[i]
  OBVIOUS
<1>4. PICK d, o, n, lo, hi : BlockIs(text, b, d, o, n, lo, hi)
  BY <1>1, <1>3, BlockParts DEF Placed
<1>5. b.offset = o /\ b.overlap = n
  BY <1>4 DEF BlockIs
<1>6. PICK m \in Matches(b) :
        r = [kind |-> m.kind, start |-> o + m.start, end |-> o + m.end, by |-> o + n]
  BY <1>2, <1>3, <1>5 DEF ReportsOf
<1>7. PICK s \in Nat, e \in Nat :
        /\ m = Found(m.kind, s, e) /\ n < e /\ e <= Len(d)
        /\ \/ Found(m.kind, o + s, o + e) \in InText
           \/ m.kind \in {"seed", "phrase"} /\ n = 0 /\ s = 0
  BY <1>4, MatchesUp
<1>8. m.start = s /\ m.end = e /\ r.kind = m.kind
  BY <1>6, <1>7 DEF Found
<1>9. r = [kind |-> r.kind, start |-> o + s, end |-> o + e, by |-> o + n]
  BY <1>6, <1>7, <1>8
<1>10. ReportFrom(r, i, d, o, n, lo, hi)
  BY <1>3, <1>4, <1>7, <1>8, <1>9 DEF ReportFrom
<1> QED
  BY <1>10

(* A match of a block that has been scanned is a report.                      *)
LEMMA MatchReported ==
  ASSUME MatchInv, block = None, NEW i \in 1 .. Len(cut), NEW b, b = cut[i],
         NEW d, NEW o, NEW n, NEW lo, NEW hi, BlockIs(text, b, d, o, n, lo, hi),
         NEW kind, NEW s \in Nat, NEW e \in Nat, Found(kind, s, e) \in Matches(b)
  PROVE  [kind |-> kind, start |-> o + s, end |-> o + e, by |-> o + n] \in reports
<1>1. AllReported /\ i \in Detected
  BY DEF MatchInv, Detected
<1>2. b.offset = o /\ b.overlap = n
  BY DEF BlockIs
<1>3. /\ Found(kind, s, e).kind = kind /\ Found(kind, s, e).start = s /\ Found(kind, s, e).end = e
  BY DEF Found
<1>4. [kind |-> kind, start |-> o + s, end |-> o + e, by |-> o + n] \in ReportsOf(b)
  BY <1>2, <1>3 DEF ReportsOf
<1> QED
  BY <1>1, <1>4 DEF AllReported

(* What is reported of sound blocks is in the text (detectWallets), but for a *)
(* seed or a phrase at the start of a block without an overlap.               *)
THEOREM EveryReportIsTrue == MatchSpec => []ReportsTrue
<1>1. ASSUME MatchInv, Sound, NEW r \in reports
      PROVE  \/ Found(r.kind, r.start, r.end) \in InText
             \/ /\ r.kind \in {"seed", "phrase"}
                /\ \E i \in DOMAIN cut : cut[i].overlap = 0 /\ cut[i].offset = r.start
  <2>1. PICK i, d, o, n, lo, hi : ReportFrom(r, i, d, o, n, lo, hi)
    BY <1>1, ReportIs
  <2>2. PICK s \in Nat, e \in Nat :
           /\ r = [kind |-> r.kind, start |-> o + s, end |-> o + e, by |-> o + n]
           /\ \/ Found(r.kind, o + s, o + e) \in InText
              \/ r.kind \in {"seed", "phrase"} /\ n = 0 /\ s = 0
    BY <2>1 DEF ReportFrom
  <2>3. r.start = o + s /\ r.end = o + e
    BY <2>2
  <2>4. i \in DOMAIN cut /\ cut[i].overlap = n /\ cut[i].offset = o /\ o \in Nat
    <3>1. i \in 1 .. Len(cut) /\ BlockIs(text, cut[i], d, o, n, lo, hi)
      BY <2>1 DEF ReportFrom
    <3>2. o \in Nat
      BY <3>1, BlockFacts
    <3>3. DOMAIN cut = 1 .. Len(cut)
      BY <1>1 DEF MatchInv, MatchTypes
    <3> QED
      BY <3>1, <3>2, <3>3 DEF BlockIs
  <2>5. s = 0 => r.start = o
    BY <2>3, <2>4
  <2> QED
    BY <2>2, <2>3, <2>4, <2>5
<1>2. MatchInv => ReportsTrue
  BY <1>1 DEF ReportsTrue
<1> QED
  BY <1>2, BlocksLieInTheText, PTL

(* One block only ends behind an offset and begins before it.                 *)
LEMMA BlockEdges ==
  ASSUME NEW b, NEW d, NEW o, NEW n, NEW lo, NEW hi, BlockIs(text, b, d, o, n, lo, hi)
  PROVE  From(b) = o + n /\ To(b) = o + Len(d) /\ From(b) \in Nat /\ To(b) \in Nat
<1>1. From(b) = o + n /\ To(b) = o + Len(d)
  BY DEF BlockIs, From, To
<1>2. o \in Nat /\ n \in Nat /\ Len(d) \in Nat
  BY BlockFacts
<1> QED
  BY <1>1, <1>2

LEMMA EdgesAreNat ==
  ASSUME Placed, NEW i \in 1 .. Len(cut)
  PROVE  From(cut[i]) \in Nat /\ To(cut[i]) \in Nat
<1>1. LiesIn(text, cut[i])
  BY DEF Placed
<1>2. PICK d, o, n, lo, hi : BlockIs(text, cut[i], d, o, n, lo, hi)
  BY <1>1, BlockParts
<1> QED
  BY <1>2, BlockEdges

LEMMA OneBlock ==
  ASSUME MatchTypes, Placed, NEW i \in 1 .. Len(cut), NEW j \in 1 .. Len(cut), NEW x \in Int,
         From(cut[i]) < x, x <= To(cut[i]), From(cut[j]) < x, x <= To(cut[j])
  PROVE  i = j
<1>1. From(cut[i]) \in Nat /\ To(cut[i]) \in Nat /\ From(cut[j]) \in Nat /\ To(cut[j]) \in Nat
  BY EdgesAreNat
<1>2. i < j => To(cut[i]) <= From(cut[j])
  BY DEF Placed
<1>3. j < i => To(cut[j]) <= From(cut[i])
  BY DEF Placed
<1>4. i \in Nat /\ j \in Nat
  BY DEF MatchTypes
<1> QED
  BY <1>1, <1>2, <1>3, <1>4

(* So there is one report at most of what ends in a block.                    *)
LEMMA OnlyReport ==
  ASSUME MatchInv, Sound, NEW j \in 1 .. Len(cut), NEW r \in reports,
         From(cut[j]) < r.end, r.end <= To(cut[j])
  PROVE  r = [kind |-> r.kind, start |-> r.start, end |-> r.end, by |-> From(cut[j])]
<1>1. PICK i, c, p, q, x, y : ReportFrom(r, i, c, p, q, x, y)
  BY ReportIs
<1>2. PICK u \in Nat, v \in Nat :
           /\ r = [kind |-> r.kind, start |-> p + u, end |-> p + v, by |-> p + q]
           /\ q < v /\ v <= Len(c)
  BY <1>1 DEF ReportFrom
<1>3. i \in 1 .. Len(cut) /\ BlockIs(text, cut[i], c, p, q, x, y)
  BY <1>1 DEF ReportFrom
<1>4. p \in Nat /\ q \in Nat /\ Len(c) \in Nat
  BY <1>3, BlockFacts
<1>5. From(cut[i]) = p + q /\ To(cut[i]) = p + Len(c)
  BY <1>3, BlockEdges
<1>6. r.start = p + u /\ r.end = p + v /\ r.by = p + q
  BY <1>2
<1>7. p + q < p + v /\ p + v <= p + Len(c) /\ p + v \in Int
  <2>1. q < v /\ v <= Len(c)
    BY <1>2
  <2> QED
    BY <1>4, <2>1
<1>8. i = j
  BY <1>3, <1>5, <1>6, <1>7, OneBlock DEF MatchInv
<1> QED
  BY <1>2, <1>5, <1>6, <1>8

(* What was read whole starts in the block in which it ends, if it is no      *)
(* longer than the overlap, or that is 0.                                     *)
LEMMA StartsInBlock ==
  ASSUME MatchInv, Sound, NEW m, NEW s \in Nat, NEW e \in Nat, m = Found(m.kind, s, e), s < e,
         NEW i \in 1 .. Len(cut), NEW j \in 1 .. Len(cut), From(cut[i]) <= s,
         \A k \in i .. j - 1 : To(cut[k]) = From(cut[k + 1]),
         NEW d, NEW o, NEW n, NEW lo, NEW hi, BlockIs(text, cut[j], d, o, n, lo, hi),
         o + n < e, e <= o + Len(d), n = 0 \/ e - s <= MaxSpan
  PROVE  o <= s
<1>1. o \in Nat /\ n \in Nat /\ Len(d) \in Nat /\ (n = 0 \/ n = MaxSpan) /\ MaxSpan \in Nat
  <2>1. o \in Nat /\ n \in Nat /\ Len(d) \in Nat
    BY BlockFacts
  <2>2. n = 0 \/ n = MaxSpan
    BY DEF BlockIs
  <2> QED
    BY <2>1, <2>2, MatchAssumption
<1>2. CASE n # 0
  BY <1>1, <1>2
<1>3. CASE n = 0
  <2>1. MatchTypes /\ Placed /\ i \in Nat /\ j \in Nat /\ Len(cut) \in Nat
    BY DEF MatchInv, MatchTypes
  <2>2. From(cut[i]) \in Nat /\ To(cut[i]) \in Nat /\ From(cut[j]) = o /\ To(cut[j]) = o + Len(d)
    BY <1>1, <1>3, <2>1, EdgesAreNat, BlockEdges
  <2>3. ~(j < i)
    <3>1. j < i => To(cut[j]) <= From(cut[i])
      BY <2>1 DEF Placed
    <3> QED
      BY <1>1, <2>2, <3>1
  <2>4. ~(i < j)
    <3>1. SUFFICES ASSUME i < j PROVE FALSE
      OBVIOUS
    <3>2. j - 1 \in i .. j - 1 /\ j - 1 \in 1 .. Len(cut) /\ (j - 1) + 1 = j /\ j - 1 < j
      BY <2>1, <3>1
    <3>3. To(cut[j - 1]) = From(cut[j])
      BY <3>2
    <3>4. cut[j].overlap = 0
      BY <1>3 DEF BlockIs
    <3>5. To(cut[j - 1]) < From(cut[j])
      BY <2>1, <3>2, <3>4 DEF Placed
    <3> QED
      BY <1>1, <2>2, <3>3, <3>5
  <2>5. i = j
    BY <2>1, <2>3, <2>4
  <2> QED
    BY <2>2, <2>5
<1> QED
  BY <1>2, <1>3

(* What is seen whole lies in the window that the edges leave.                *)
LEMMA SightIsWindow ==
  ASSUME NEW b, NEW d, NEW o, NEW n, NEW lo, NEW hi, BlockIs(text, b, d, o, n, lo, hi),
         NEW s \in Nat, NEW e \in Nat, s < e, e <= Len(d),
         b.final \/ ~RunOf(text, (o + e) - 1, o + Len(d)),
         n = 0 \/ ~RunOf(text, o, (o + s) + 1)
  PROVE  lo <= s /\ e <= hi
<1>1. /\ o \in Nat /\ n \in Nat /\ lo \in Nat /\ hi \in Nat /\ Len(d) \in Nat
      /\ lo <= hi /\ hi <= Len(d) /\ LiesAt(text, d, o)
  BY BlockFacts
<1>2. /\ IF n = 0 THEN lo = 0 ELSE RunOf(d, 0, lo)
      /\ IF b.final THEN hi = Len(d) ELSE RunOf(d, hi, Len(d))
  BY DEF BlockIs, Windowed
<1>3. lo <= s
  <2>1. SUFFICES ASSUME s < lo PROVE FALSE
    BY <1>1
  <2>2. n # 0
    BY <1>2, <2>1
  <2>3. s + 1 <= lo /\ s + 1 \in Nat /\ s + 1 <= Len(d) /\ 0 \in Nat
    BY <1>1, <2>1
  <2>4. RunOf(d, 0, s + 1)
    BY <1>1, <1>2, <2>2, <2>3 DEF RunOf
  <2>5. RunOf(text, o + 0, o + (s + 1))
    BY <1>1, <2>3, <2>4, SameRun
  <2>6. o + 0 = o /\ o + (s + 1) = (o + s) + 1
    BY <1>1
  <2> QED
    BY <2>2, <2>5, <2>6
<1>4. e <= hi
  <2>1. SUFFICES ASSUME hi < e PROVE FALSE
    BY <1>1
  <2>2. ~b.final
    BY <1>1, <1>2, <2>1
  <2>3. hi <= e - 1 /\ e - 1 \in Nat
    BY <1>1, <2>1
  <2>4. RunOf(d, e - 1, Len(d))
    BY <1>1, <1>2, <2>2, <2>3 DEF RunOf
  <2>5. RunOf(text, o + (e - 1), o + Len(d))
    BY <1>1, <2>3, <2>4, SameRun
  <2>6. o + (e - 1) = (o + e) - 1
    BY <1>1
  <2> QED
    BY <2>2, <2>5, <2>6
<1> QED
  BY <1>3, <1>4


LEMMA AtMostOne ==
  ASSUME NEW S, NEW R, S \subseteq {R}
  PROVE  /\ Cardinality(S) <= 1 /\ Cardinality(S) \in Nat
         /\ R \in S => Cardinality(S) = 1
         /\ R \notin S => S = {}
<1>1. IsFiniteSet({R}) /\ Cardinality({R}) = 1
  BY FS_Singleton
<1>2. IsFiniteSet({}) /\ Cardinality({}) = 0
  BY FS_EmptySet
<1>3. S = {} \/ S = {R}
  OBVIOUS
<1> QED
  BY <1>1, <1>2, <1>3

(* The one report that a match m between s and e has, if it has one.           *)
FoundAs(m, s, e, R) ==
  /\ Reported(m) \subseteq {R}
  /\ R \in reports => R \in Reported(m)
  /\ m.kind \in {"object", "pem"} => R \in reports
  /\ m.kind = "needle" =>
       \/ R \in reports
       \/ \E r \in reports : r.kind = "needle" /\ r.start < s /\ r.by < e /\ e <= r.by + Block
  /\ m.kind \notin {"object", "pem", "needle"} /\ InSight(m) =>
       \/ R \in reports
       \/ m.kind = "seed" /\ suppressedByBIP39(m, {r \in reports : r.kind = "phrase"})

(* What is read whole and within sight is reported by the block in which it   *)
(* ends, and by no other.                                                     *)
LEMMA FoundHere ==
  ASSUME MatchInv, Sound, Over, NEW m \in InText,
         NEW s \in Nat, NEW e \in Nat, m = Found(m.kind, s, e), s < e, TextHas(m, s, e),
         NEW i \in 1 .. Len(cut), NEW j \in 1 .. Len(cut), From(cut[i]) <= s,
         \A k \in i .. j - 1 : To(cut[k]) = From(cut[k + 1]),
         NEW d, NEW o, NEW n, NEW lo, NEW hi, BlockIs(text, cut[j], d, o, n, lo, hi),
         o + n < e, e <= o + Len(d),
         NEW R, R = [kind |-> m.kind, start |-> s, end |-> e, by |-> o + n]
  PROVE  FoundAs(m, s, e, R)
<1>1. /\ o \in Nat /\ n \in Nat /\ Len(d) \in Nat /\ Len(d) <= n + Block /\ Block \in Nat
      /\ (n = 0 \/ n = MaxSpan) /\ MaxSpan \in Nat /\ From(cut[j]) = o + n /\ To(cut[j]) = o + Len(d)
  <2>1. o \in Nat /\ n \in Nat /\ Len(d) \in Nat
    BY BlockFacts
  <2>2. From(cut[j]) = o + n /\ To(cut[j]) = o + Len(d)
    BY BlockEdges
  <2> QED
    BY <2>1, <2>2, MatchAssumption DEF BlockIs
<1>2. m.start = s /\ m.end = e
  BY DEF Found
<1>3. block = None
  BY DEF Over
<1>4. Reported(m) \subseteq {R}
  <2>1. SUFFICES ASSUME NEW r \in Reported(m) PROVE r = R
    OBVIOUS
  <2>2. r \in reports /\ r.kind = m.kind /\ r.start = s /\ r.end = e
    BY <1>2, <2>1 DEF Reported
  <2>3. r = [kind |-> r.kind, start |-> r.start, end |-> r.end, by |-> From(cut[j])]
    BY <1>1, <2>2, OnlyReport
  <2> QED
    BY <1>1, <2>2, <2>3
<1>5. R \in reports => R \in Reported(m)
  BY <1>2 DEF Reported
<1>6. n = 0 \/ e - s <= MaxSpan => o <= s
  BY <1>1, StartsInBlock
<1>7. \A u \in Nat, v \in Nat : s = o + u /\ e = o + v /\ Found(m.kind, u, v) \in Matches(cut[j]) => R \in reports
  <2>1. SUFFICES ASSUME NEW u \in Nat, NEW v \in Nat, s = o + u, e = o + v,
                        Found(m.kind, u, v) \in Matches(cut[j])
                 PROVE  R \in reports
    OBVIOUS
  <2>2. [kind |-> m.kind, start |-> o + u, end |-> o + v, by |-> o + n] \in reports
    BY <1>3, <2>1, MatchReported
  <2> QED
    BY <2>1, <2>2
<1>8. ASSUME NEW p, <<m.kind, p>> \in Raw, m \in Occurrences(m.kind, p, text, 0, Len(text)), e - s <= MaxSpan
      PROVE  \/ R \in reports
             \/ m.kind = "needle" /\ \E r \in reports :
                  r.kind = "needle" /\ r.start < s /\ r.by < e /\ e <= r.by + Block
  <2>1. o <= s
    BY <1>6, <1>8
  <2>2. PICK u \in Nat, v \in Nat : s = o + u /\ e = o + v
    <3>1. s - o \in Nat /\ e - o \in Nat /\ s = o + (s - o) /\ e = o + (e - o)
      BY <1>1, <2>1
    <3> QED
      BY <3>1
  <2>3. n < v /\ v <= Len(d)
    BY <1>1, <2>2
  <2>4. Found(m.kind, o + u, o + v) \in Occurrences(m.kind, p, text, 0, Len(text))
    BY <1>8, <2>2
  <2>5. \/ Found(m.kind, u, v) \in Matches(cut[j])
        \/ m.kind = "needle" /\ \E x \in Nat, y \in Nat :
             Found("needle", x, y) \in Matches(cut[j]) /\ x < u /\ n < y /\ y <= Len(d)
    BY <1>8, <2>3, <2>4, RawDown
  <2>6. ASSUME NEW x \in Nat, NEW y \in Nat, Found("needle", x, y) \in Matches(cut[j]), x < u
        PROVE  \E r \in reports : r.kind = "needle" /\ r.start < s /\ r.by < e /\ e <= r.by + Block
    <3>1. PICK r : r = [kind |-> "needle", start |-> o + x, end |-> o + y, by |-> o + n]
      OBVIOUS
    <3>2. r \in reports
      BY <1>3, <2>6, <3>1, MatchReported
    <3>3. o + x < s /\ o + n < e /\ e <= (o + n) + Block
      BY <1>1, <2>2, <2>6
    <3> QED
      BY <3>1, <3>2, <3>3
  <2> QED
    BY <1>7, <2>2, <2>5, <2>6
<1>9. ASSUME m.kind \notin {"object", "pem", "needle"}, InSight(m)
      PROVE  \/ R \in reports
             \/ m.kind = "seed" /\ suppressedByBIP39(m, {r \in reports : r.kind = "phrase"})
  <2>1. /\ cut[j].final \/ ~RunOf(text, e - 1, o + Len(d))
        /\ n = 0 \/ ~RunOf(text, o, s + 1)
    <3>1. PICK k \in DOMAIN cut :
            /\ From(cut[k]) < e /\ e <= To(cut[k])
            /\ cut[k].final \/ ~RunOf(text, e - 1, To(cut[k]))
            /\ cut[k].overlap = 0 \/ ~RunOf(text, cut[k].offset, s + 1)
      BY <1>2, <1>9 DEF InSight
    <3>2. k \in 1 .. Len(cut)
      BY <3>1 DEF MatchInv, MatchTypes
    <3>3. k = j
      BY SMTT(30), <1>1, <3>1, <3>2, OneBlock DEF MatchInv
    <3>4. cut[j].overlap = n /\ cut[j].offset = o
      BY DEF BlockIs
    <3> QED
      BY <1>1, <3>1, <3>3, <3>4
  <2>2. o <= s
    <3>1. ASSUME n # 0, s < o PROVE FALSE
      <4>1. RunOf(text, o, s + 1)
        BY <1>1, <3>1 DEF RunOf
      <4> QED
        BY <2>1, <3>1, <4>1
    <3> QED
      BY <1>1, <1>6, <3>1
  <2>3. PICK u \in Nat, v \in Nat : s = o + u /\ e = o + v
    <3>1. s - o \in Nat /\ e - o \in Nat /\ s = o + (s - o) /\ e = o + (e - o)
      BY <1>1, <2>2
    <3> QED
      BY <3>1
  <2>4. n < v /\ v <= Len(d) /\ u < v
    BY <1>1, <2>3
  <2>5. lo <= u /\ v <= hi
    <3>1. cut[j].final \/ ~RunOf(text, (o + v) - 1, o + Len(d))
      BY <2>1, <2>3
    <3>2. n = 0 \/ ~RunOf(text, o, (o + u) + 1)
      BY <2>1, <2>3
    <3> QED
      BY <2>4, <3>1, <3>2, SightIsWindow
  <2>6. CASE \E p : <<m.kind, p>> \in Raw \cup Edged /\ m \in Occurrences(m.kind, p, text, 0, Len(text))
    <3>1. PICK p : <<m.kind, p>> \in Edged /\ m \in Occurrences(m.kind, p, text, 0, Len(text))
      BY <1>9, <2>6 DEF Raw
    <3>2. Found(m.kind, o + u, o + v) \in Occurrences(m.kind, p, text, 0, Len(text))
      BY <2>3, <3>1
    <3>3. Found(m.kind, u, v) \in Matches(cut[j])
      BY <2>4, <2>5, <3>1, <3>2, RunsDown
    <3> QED
      BY <1>7, <2>3, <3>3
  <2>7. CASE m.kind = "seed" /\ IsWord(text, 0, Len(text), s, e)
    <3>1. IsWord(text, 0, Len(text), o + u, o + v)
      BY <2>3, <2>7
    <3>2. \/ Found("seed", u, v) \in Matches(cut[j])
          \/ \E x \in Nat, y \in Nat : /\ Found("phrase", x, y) \in Matches(cut[j])
                                       /\ x <= u /\ v <= y /\ y - x > v - u
      BY <2>4, <2>5, <3>1, RunsDown
    <3>3. ASSUME NEW x \in Nat, NEW y \in Nat, Found("phrase", x, y) \in Matches(cut[j]),
                 x <= u, v <= y, y - x > v - u
          PROVE  suppressedByBIP39(m, {r \in reports : r.kind = "phrase"})
      <4>1. PICK r : r = [kind |-> "phrase", start |-> o + x, end |-> o + y, by |-> o + n]
        OBVIOUS
      <4>2. r \in reports
        BY <1>3, <3>3, <4>1, MatchReported
      <4>3. o + x <= s /\ e <= o + y /\ (o + y) - (o + x) > e - s
        BY <1>1, <2>3, <3>3
      <4>4. r.kind = "phrase" /\ r.start <= m.start /\ m.end <= r.end /\ r.end - r.start > m.end - m.start
        BY <1>2, <4>1, <4>3
      <4> QED
        BY <4>2, <4>4 DEF suppressedByBIP39
    <3> QED
      BY <1>7, <2>3, <2>7, <3>2, <3>3
  <2>8. CASE m.kind = "phrase" /\ \E x \in Nat, y \in Nat : IsPhrase(text, 0, Len(text), s, x, y, e)
    <3>1. PICK x \in Nat, y \in Nat : IsPhrase(text, 0, Len(text), s, x, y, e)
      BY <2>8
    <3>2. s < x /\ x < y
      BY <3>1 DEF IsPhrase, IsWord, IsRun
    <3>3. PICK a \in Nat, c \in Nat : x = o + a /\ y = o + c
      <4>1. x - o \in Nat /\ y - o \in Nat /\ x = o + (x - o) /\ y = o + (y - o)
        BY <1>1, <2>2, <3>2
      <4> QED
        BY <4>1
    <3>4. IsPhrase(text, 0, Len(text), o + u, o + a, o + c, o + v)
      BY <2>3, <3>1, <3>3
    <3>5. Found("phrase", u, v) \in Matches(cut[j])
      BY <2>4, <2>5, <3>4, RunsDown
    <3> QED
      BY <1>7, <2>3, <2>8, <3>5
  <2> QED
    BY <2>6, <2>7, <2>8 DEF TextHas
<1>10. m.kind \in {"object", "pem", "needle"} =>
         \/ R \in reports
         \/ m.kind = "needle" /\ \E r \in reports :
              r.kind = "needle" /\ r.start < s /\ r.by < e /\ e <= r.by + Block
  <2>1. SUFFICES ASSUME m.kind \in {"object", "pem", "needle"}
                 PROVE  \E p : /\ <<m.kind, p>> \in Raw /\ e - s <= MaxSpan
                               /\ m \in Occurrences(m.kind, p, text, 0, Len(text))
    BY <1>8
  <2> QED
    BY <2>1 DEF TextHas, Raw, Edged
<1> QED
  BY <1>4, <1>5, <1>9, <1>10 DEF FoundAs

(* What is read whole is reported exactly once (detectWallets), as FoundOnce  *)
(* says it by kind.                                                           *)
THEOREM EachIsFoundOnce == MatchSpec => []FoundOnce
<1>1. ASSUME MatchInv, Over, Sound, NEW m \in InText, Whole(m)
      PROVE  CASE m.kind \in {"object", "pem"} -> Cardinality(Reported(m)) = 1
               [] m.kind = "needle" ->
                    \/ Cardinality(Reported(m)) = 1
                    \/ Reported(m) = {} /\ \E r \in reports :
                         r.kind = "needle" /\ r.start < m.start /\ r.by < m.end /\ m.end <= r.by + Block
               [] OTHER ->
                    /\ Cardinality(Reported(m)) <= 1
                    /\ InSight(m) => \/ Reported(m) # {}
                                     \/ m.kind = "seed"
                                        /\ suppressedByBIP39(m, {r \in reports : r.kind = "phrase"})
  <2>1. MatchTypes /\ Placed /\ Len(text) \in Nat
    BY <1>1, TextsAreSeqs DEF MatchInv, MatchTypes
  <2>2. PICK s \in Nat, e \in Nat : m = Found(m.kind, s, e) /\ s < e /\ TextHas(m, s, e)
    BY <1>1, <2>1, InTextIs
  <2>3. m.start = s /\ m.end = e
    BY <2>2 DEF Found
  <2>4. DOMAIN cut = 1 .. Len(cut)
    BY <2>1 DEF MatchTypes
  <2>5. PICK i \in 1 .. Len(cut), j \in 1 .. Len(cut) :
          /\ From(cut[i]) <= s /\ From(cut[j]) < e /\ e <= To(cut[j])
          /\ \A k \in i .. j - 1 : To(cut[k]) = From(cut[k + 1])
    BY <1>1, <2>3, <2>4 DEF Whole
  <2>6. PICK d, o, n, lo, hi : BlockIs(text, cut[j], d, o, n, lo, hi)
    BY <2>1, BlockParts DEF Placed
  <2>7. o + n < e /\ e <= o + Len(d)
    BY <2>5, <2>6, BlockEdges
  <2>8. PICK R : R = [kind |-> m.kind, start |-> s, end |-> e, by |-> o + n]
    OBVIOUS
  <2>9. /\ Reported(m) \subseteq {R}
        /\ R \in reports => R \in Reported(m)
        /\ m.kind \in {"object", "pem"} => R \in reports
        /\ m.kind = "needle" =>
             \/ R \in reports
             \/ \E r \in reports : r.kind = "needle" /\ r.start < s /\ r.by < e /\ e <= r.by + Block
        /\ m.kind \notin {"object", "pem", "needle"} /\ InSight(m) =>
             \/ R \in reports
             \/ m.kind = "seed" /\ suppressedByBIP39(m, {r \in reports : r.kind = "phrase"})
    <3>1. FoundAs(m, s, e, R)
      BY <1>1, <2>2, <2>5, <2>6, <2>7, <2>8, FoundHere
    <3> QED
      BY <3>1 DEF FoundAs
  <2>10. /\ Cardinality(Reported(m)) <= 1
         /\ R \in Reported(m) => Cardinality(Reported(m)) = 1
         /\ R \notin Reported(m) => Reported(m) = {}
    BY <2>9, AtMostOne
  <2>11. m.kind \in {"object", "pem"} => Cardinality(Reported(m)) = 1
    BY <2>9, <2>10
  <2>12. m.kind = "needle" =>
           \/ Cardinality(Reported(m)) = 1
           \/ Reported(m) = {} /\ \E r \in reports :
                r.kind = "needle" /\ r.start < m.start /\ r.by < m.end /\ m.end <= r.by + Block
    BY <2>3, <2>9, <2>10
  <2>13. m.kind \notin {"object", "pem", "needle"} =>
           /\ Cardinality(Reported(m)) <= 1
           /\ InSight(m) => \/ Reported(m) # {}
                            \/ m.kind = "seed"
                               /\ suppressedByBIP39(m, {r \in reports : r.kind = "phrase"})
    BY <2>9, <2>10
  <2> QED
    BY <2>11, <2>12, <2>13
<1>2. MatchInv => FoundOnce
  BY <1>1 DEF FoundOnce
<1> QED
  BY <1>2, BlocksLieInTheText, PTL
=============================================================================
