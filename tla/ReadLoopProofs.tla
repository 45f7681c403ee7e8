--------------------------- MODULE ReadLoopProofs ---------------------------
(* For media and blocks of any size: the bytes a scan vouches for are       *)
(* exactly those it read, its blocks hold what their offsets say, and the   *)
(* record of a complete scan verifies as long as they are unchanged.        *)
EXTENDS ReadLoop, FiniteSetTheorems, FunctionTheorems, SequenceTheorems, WellFoundedInduction, TLAPS

-----------------------------------------------------------------------------
(* The inductive invariant.                                                 *)

Places == {"root", "stored", "gzip", "entry"}

ReadTypes ==
  /\ media \in [Cells -> {0, 1}] /\ start \in Nat /\ kind \in {"raw", "range", "stdin"}
  /\ target \in Places /\ pc \in {"open", "read", "eof", "over", "panicked"}
  /\ currentOffset \in Nat
  /\ haveTail \in BOOLEAN /\ short \in BOOLEAN
  /\ \A s \in skipped : s.lo \in Nat /\ s.hi \in Nat /\ s.target \in Places

HashTypes == hashed \in Seq(Cells \X {0, 1})

(* What is hashed is in the order of the media, no cell twice.              *)
InOrder == \A i, j \in 1 .. Len(hashed) : i < j => hashed[i][1] < hashed[j][1]

RootSkips == {s \in skipped : s.target = "root"}

(* The cells after start up to cell n that are not skipped.                 *)
Due(from, n, skips) == {c \in Cells : c > from /\ c <= n /\ Outside(c, skips)}
HashedCells == {hashed[i][1] : i \in 1 .. Len(hashed)}

(* Nothing is skipped or hashed ahead of the read, and nothing behind it is *)
(* neither; once the root is at its end, that is all of it.                 *)
RootAhead ==
  /\ target = "root" /\ pc = "open" => hashed = <<>> /\ skipped = {}
  /\ target = "root" /\ pc \in {"read", "eof"} =>
       currentOffset >= start /\ \A s \in skipped : s.target = "root" /\ s.hi <= currentOffset

RootHashed ==
  /\ target = "root" /\ pc = "read" => HashedCells = Due(start, currentOffset, RootSkips)
  /\ target # "root" \/ pc = "eof" \/ (pc = "over" /\ log = <<>>) => HashedCells = Due(start, Media, RootSkips)
  /\ HashedCells \cap Bad = {}

(* The record of a complete scan is of what was hashed in the end.          *)
Logged ==
  \A i \in DOMAIN log :
    log[i].status = "complete" =>
      log[i] = finish("complete") /\ pc = "over" /\ HashedCells = Due(start, Media, RootSkips)

(* The overlap carried is what lies before the next read, unless the block  *)
(* it was taken from was too short for it.                                  *)
TailTrue ==
  pc = "read" /\ haveTail /\ ~short =>
    /\ currentOffset >= Overlap
    /\ tail = [i \in 1 .. Overlap |-> CellAt(currentOffset - Overlap + i - 1)]

HashInv == HashTypes /\ InOrder /\ RootHashed
BlockInv == TailTrue /\ BlocksTrueUnlessShort
ReadInv == ReadTypes /\ RootAhead /\ HashInv /\ Logged /\ BlockInv

-----------------------------------------------------------------------------
(* Numbers: least and greatest elements, and sets in ascending order.       *)

LEMMA LeastNat ==
  ASSUME NEW T, T \subseteq Nat, T # {}
  PROVE  \E x \in T : \A y \in T : x <= y
<1>1. \E x \in T : \A y \in T : ~(<<y, x>> \in OpToRel(<, Nat))
  BY NatLessThanWellFounded, WFMin
<1>2. PICK x \in T : \A y \in T : ~(<<y, x>> \in OpToRel(<, Nat))
  BY <1>1
<1>3. \A y \in T : ~(y < x)
  BY <1>2 DEF OpToRel
<1> QED
  BY <1>3

LEMMA GreatestNat ==
  ASSUME NEW m \in Nat, NEW T, T \subseteq 0 .. m, T # {}
  PROVE  \E x \in T : \A y \in T : y <= x
<1> DEFINE D == {m - t : t \in T}
<1>1. D \subseteq Nat /\ D # {}
  <2>1. \A t \in T : t \in Int /\ 0 <= t /\ t <= m
    OBVIOUS
  <2>2. \A t \in T : m - t \in Nat
    BY <2>1
  <2>3. PICK t \in T : TRUE
    OBVIOUS
  <2>4. m - t \in D
    OBVIOUS
  <2> QED
    BY <2>2, <2>4
<1>2. PICK d \in D : \A e \in D : d <= e
  BY <1>1, LeastNat
<1>3. PICK x \in T : d = m - x
  BY <1>2
<1>4. \A y \in T : m - x <= m - y
  BY <1>2, <1>3
<1> QED
  BY <1>4

(* The ascending order of the elements of an increasing sequence is that    *)
(* sequence.                                                                *)
LEMMA AscendingIs ==
  ASSUME NEW s \in Seq(Int), \A i, j \in 1 .. Len(s) : i < j => s[i] < s[j]
  PROVE  Ascending({s[i] : i \in 1 .. Len(s)}) = s
<1> DEFINE n == Len(s)
           S == {s[i] : i \in 1 .. n}
           Below(c) == {d \in S : d < c}
<1>1. n \in Nat /\ s \in [1 .. n -> Int] /\ \A i \in 1 .. n : s[i] \in Int
  BY LenProperties
<1>2. \A i, j \in 1 .. n : s[i] = s[j] => i = j
  BY <1>1
<1>3. ASSUME NEW k \in 0 .. n
      PROVE  Cardinality({s[i] : i \in 1 .. k}) = k
  <2> DEFINE K == {s[i] : i \in 1 .. k}
             f == [i \in 1 .. k |-> s[i]]
  <2>1. f \in [1 .. k -> K] /\ \A x \in K : \E i \in 1 .. k : f[i] = x
    OBVIOUS
  <2>2. \A i, j \in 1 .. k : f[i] = f[j] => i = j
    BY <1>1, <1>2
  <2>3. f \in Bijection(1 .. k, K)
    <3> HIDE DEF f, K
    <3> QED BY <2>1, <2>2, Fun_IsBij
  <2>4. ExistsBijection(1 .. k, K)
    BY <2>3 DEF ExistsBijection
  <2>5. k \in Nat /\ IsFiniteSet(1 .. k) /\ Cardinality(1 .. k) = k
    BY <1>1, FS_Interval
  <2> HIDE DEF f, K
  <2>6. Cardinality(K) = k
    BY <2>4, <2>5, FS_Bijection
  <2> QED
    BY <2>6 DEF K
<1>4. Cardinality(S) = n
  <2>1. n \in 0 .. n
    BY <1>1
  <2> HIDE DEF n
  <2> QED
    BY <1>3, <2>1
<1>5. ASSUME NEW i \in 1 .. n
      PROVE  Cardinality(Below(s[i])) = i - 1
  <2>1. Below(s[i]) = {s[j] : j \in 1 .. (i - 1)}
    <3>1. \A j \in 1 .. n : s[j] < s[i] => j < i
      BY <1>1
    <3>2. \A j \in 1 .. n : j < i => s[j] < s[i]
      OBVIOUS
    <3> QED
      BY <1>1, <3>1, <3>2
  <2>2. i - 1 \in 0 .. n
    BY <1>1
  <2> QED
    BY <1>3, <2>1, <2>2
<1>6. ASSUME NEW i \in 1 .. n
      PROVE  (CHOOSE c \in S : Cardinality(Below(c)) = i - 1) = s[i]
  <2> HIDE DEF Below
  <2>1. s[i] \in S /\ Cardinality(Below(s[i])) = i - 1
    BY <1>5
  <2>2. \A c \in S : Cardinality(Below(c)) = i - 1 => c = s[i]
    <3> SUFFICES ASSUME NEW k \in 1 .. n, Cardinality(Below(s[k])) = i - 1 PROVE s[k] = s[i]
      OBVIOUS
    <3>1. k - 1 = i - 1
      BY <1>5
    <3> QED
      BY <1>1, <3>1
  <2> HIDE DEF S
  <2> QED
    BY <2>1, <2>2
<1>7. Ascending(S) = [i \in 1 .. n |-> s[i]]
  BY <1>4, <1>6 DEF Ascending
<1> QED
  BY <1>1, <1>7

-----------------------------------------------------------------------------
(* A read: some cells that did not fail, and how it ended.                  *)

LEMMA Sizes ==
  ASSUME ReadTypes
  PROVE  Size \in Nat /\ (target = "root" => Size = Media) /\ Media \in Nat
BY ReadAssumption DEF ReadTypes, Size

LEMMA AttemptFacts ==
  ASSUME ReadTypes, NEW o \in Nat, NEW r \in Attempts(o)
  PROVE  /\ r.n \in Nat
         /\ r.n > 0 => o + r.n <= Size
         /\ target = "root" => \A i \in 0 .. r.n - 1 : o + i + 1 \notin Bad
         /\ r.err = "end" => o + r.n >= Size
<1> PICK f \in SUBSET Flaky : r = ReadFull(o, f)
  BY DEF Attempts
<1> DEFINE left == IF o < Size THEN Size - o ELSE 0
           most == IF left < BlockSize THEN left ELSE BlockSize
           good == {k \in 0 .. most : \A i \in o .. o + k - 1 : ~FailsAt(i, f)}
           n    == CHOOSE k \in good : \A j \in good : j <= k
<1>1. Size \in Nat /\ BlockSize \in Nat /\ BlockSize > 0
  BY Sizes, ReadAssumption
<1>2. /\ most \in Nat /\ (most > 0 => o + most <= Size)
      /\ most < BlockSize => o + most >= Size
  BY <1>1
<1>3. r.n = n /\ (r.err = "end" => n = most /\ n # BlockSize)
  <2> HIDE DEF n, most
  <2>1. r = [n |-> n, err |-> IF n = BlockSize THEN "none" ELSE IF n = most THEN "end" ELSE "bad"]
    BY DEF ReadFull, n, most, good, left
  <2> QED
    BY <2>1
<1> HIDE DEF most
<1>4. 0 \in good
  BY <1>2
<1>5. \E k \in good : \A j \in good : j <= k
  <2>1. good \subseteq 0 .. most
    OBVIOUS
  <2> HIDE DEF good
  <2> QED
    BY <1>2, <1>4, <2>1, GreatestNat
<1>6. n \in good
  <2> HIDE DEF good
  <2> QED
    BY <1>5
<1> HIDE DEF n
<1>7. n \in Nat /\ n <= most /\ \A i \in o .. o + n - 1 : ~FailsAt(i, f)
  BY <1>2, <1>6
<1>8. n > 0 => o + n <= Size
  BY <1>1, <1>2, <1>7
<1>9. n = most /\ n # BlockSize => o + n >= Size
  BY <1>1, <1>2 DEF most
<1>10. ASSUME target = "root", NEW i \in 0 .. n - 1
       PROVE  o + i + 1 \notin Bad
  <2>1. o + i \in o .. o + n - 1
    BY <1>7
  <2> QED
    BY <1>7, <1>10, <2>1 DEF FailsAt, InGzip, CellAt, CellOf
<1> QED
  BY <1>3, <1>7, <1>8, <1>9, <1>10

(* A block is delivered, or the end is reached, or a range is skipped.      *)
LEMMA ReadBlockCases ==
  ASSUME ReadBlock
  PROVE  /\ pc = "read" /\ ~stopped /\ target # "entry"
         /\ UNCHANGED <<media, start, kind, target, stopped, log, edits>>
         /\ \/ \E r \in Attempts(currentOffset) : r.n > 0 /\ Deliver(r)
            \/ /\ \E r \in Attempts(currentOffset) : r.n = 0 /\ (r.err = "end" \/ ~Seekable)
               /\ EndRead
            \/ Seekable /\ SkipRange
BY DEF ReadBlock

-----------------------------------------------------------------------------
(* Types, and what is skipped.                                              *)

LEMMA InitReadInv == Init => ReadInv
<1> SUFFICES ASSUME Init PROVE ReadInv
  OBVIOUS
<1> USE ReadAssumption DEF Init
<1>1. ReadTypes /\ RootAhead
  BY DEF ReadTypes, RootAhead, Places
<1>2. HashInv
  BY DEF HashInv, HashTypes, InOrder, RootHashed, HashedCells
<1>3. Logged /\ BlockInv
  BY DEF Logged, BlockInv, TailTrue, BlocksTrueUnlessShort
<1> QED
  BY <1>1, <1>2, <1>3 DEF ReadInv

(* The three outcomes of a read leave the rest alone.                       *)
others == <<media, start, kind, target, stopped, log, edits>>

LEMMA ReadBlockTypes ==
  ASSUME ReadTypes, ReadBlock
  PROVE  ReadTypes'
<1>1. UNCHANGED <<media, start, kind, target>>
  BY ReadBlockCases
<1>2. CASE \E r \in Attempts(currentOffset) : r.n > 0 /\ Deliver(r)
  <2>1. PICK r \in Attempts(currentOffset) : r.n > 0 /\ Deliver(r)
    BY <1>2
  <2>2. r.n \in Nat /\ currentOffset \in Nat
    BY <2>1, AttemptFacts DEF ReadTypes
  <2> QED
    BY <1>1, <2>1, <2>2 DEF Deliver, ReadTypes
<1>3. CASE EndRead
  BY <1>1, <1>3 DEF EndRead, ReadTypes
<1>4. CASE SkipRange
  <2> DEFINE gap == [target |-> target, lo |-> currentOffset, hi |-> currentOffset + BlockSize]
  <2>1. gap.lo \in Nat /\ gap.hi \in Nat /\ gap.target \in Places /\ currentOffset + BlockSize \in Nat
    BY ReadAssumption DEF ReadTypes
  <2> HIDE DEF gap
  <2>2. \A s \in skipped' : s.lo \in Nat /\ s.hi \in Nat /\ s.target \in Places
    BY <1>4, <2>1 DEF SkipRange, ReadTypes, gap
  <2> QED
    BY <1>1, <1>4, <2>1, <2>2 DEF SkipRange, ReadTypes
<1> QED
  BY <1>2, <1>3, <1>4, ReadBlockCases

LEMMA StepKeepsTypes ==
  ASSUME ReadTypes, [Next]_vars
  PROVE  ReadTypes'
<1>1. CASE OpenTarget
  BY <1>1 DEF OpenTarget, ReadTypes
<1>2. CASE ReadEntry
  BY <1>2 DEF ReadEntry, ReadTypes
<1>3. CASE NextTarget
  BY <1>3 DEF NextTarget, Following, ReadTypes, Places
<1>4. CASE Cancel \/ Record \/ UNCHANGED vars
  BY <1>4 DEF Cancel, Record, scan, vars, ReadTypes
<1>5. CASE Refuse
  BY <1>5 DEF Refuse, ReadTypes
<1>6. CASE Edit
  BY <1>6 DEF Edit, scan, ReadTypes
<1> QED
  BY <1>1, <1>2, <1>3, <1>4, <1>5, <1>6, ReadBlockTypes DEF Next, Reader

LEMMA StepKeepsRootAhead ==
  ASSUME ReadTypes, RootAhead, [Next]_vars
  PROVE  RootAhead'
<1>1. CASE OpenTarget
  BY <1>1 DEF OpenTarget, RootAhead, ReadTypes
<1>2. CASE ReadBlock
  <2>1. UNCHANGED <<target, start>> /\ pc = "read" /\ currentOffset \in Nat /\ start \in Nat
    BY <1>2, ReadBlockCases DEF ReadTypes
  <2>2. CASE \E r \in Attempts(currentOffset) : r.n > 0 /\ Deliver(r)
    <3>1. PICK r \in Attempts(currentOffset) : r.n > 0 /\ Deliver(r)
      BY <2>2
    <3>2. r.n \in Nat
      BY <2>1, <3>1, AttemptFacts
    <3> QED
      BY <2>1, <3>1, <3>2 DEF Deliver, RootAhead, ReadTypes
  <2>3. CASE EndRead
    BY <2>1, <2>3 DEF EndRead, RootAhead, ReadTypes
  <2>4. CASE SkipRange
    BY <2>1, <2>4, ReadAssumption DEF SkipRange, RootAhead, ReadTypes
  <2> QED
    BY <1>2, <2>2, <2>3, <2>4, ReadBlockCases
<1>3. CASE ReadEntry
  BY <1>3 DEF ReadEntry, RootAhead
<1>4. CASE NextTarget
  BY <1>4 DEF NextTarget, Following, RootAhead
<1>5. CASE Cancel \/ Record \/ Edit \/ UNCHANGED vars
  BY <1>5 DEF Cancel, Record, Edit, scan, vars, RootAhead
<1>6. CASE Refuse
  BY <1>6 DEF Refuse, RootAhead
<1> QED
  BY <1>1, <1>2, <1>3, <1>4, <1>5, <1>6 DEF Next, Reader

-----------------------------------------------------------------------------
(* What is hashed.                                                          *)

(* A read of the root hashes the cells it got, which lie behind all others. *)
LEMMA HashAppends ==
  ASSUME ReadTypes, RootAhead, HashInv, target = "root", pc = "read", UNCHANGED <<start, skipped>>,
         NEW o \in Nat, o = currentOffset, NEW n \in Nat, o + n <= Media,
         \A i \in 1 .. n : o + i \notin Bad,
         hashed' = hashed \o Hashable(n)
  PROVE  /\ HashTypes' /\ InOrder' /\ HashedCells' \cap Bad = {}
         /\ HashedCells' = Due(start, o + n, RootSkips)
<1> DEFINE m == Len(hashed)
           new == Hashable(n)
<1>1. o \in Nat /\ m \in Nat /\ Media \in Nat /\ hashed \in Seq(Cells \X {0, 1})
  BY Sizes DEF ReadTypes, HashInv, HashTypes
<1>2. new = [i \in 1 .. n |-> <<o + i, media[o + i]>>]
  BY <1>1 DEF Hashable, CellAt, CellOf
<1>3. new \in Seq(Cells \X {0, 1}) /\ Len(new) = n
  <2>1. \A i \in 1 .. n : o + i \in Cells
    BY <1>1 DEF Cells
  <2>2. \A i \in 1 .. n : <<o + i, media[o + i]>> \in Cells \X {0, 1}
    BY <2>1 DEF ReadTypes
  <2>3. new \in [1 .. n -> Cells \X {0, 1}]
    BY <1>2, <2>2
  <2> QED
    BY <2>3, IsASeq, LenProperties
<1>4. \A i \in 1 .. n : new[i][1] = o + i
  BY <1>2
<1> HIDE DEF new
<1>5. /\ hashed' \in Seq(Cells \X {0, 1}) /\ Len(hashed') = m + n
      /\ \A i \in 1 .. m + n : hashed'[i] = IF i <= m THEN hashed[i] ELSE new[i - m]
  BY <1>1, <1>3, ConcatProperties DEF new
<1>6. \A i \in 1 .. m + n : hashed'[i][1] = IF i <= m THEN hashed[i][1] ELSE o + (i - m)
  <2>1. \A i \in 1 .. m + n : i > m => i - m \in 1 .. n
    BY <1>1
  <2> QED
    BY <1>4, <1>5, <2>1
<1>7. HashedCells = Due(start, o, RootSkips) /\ \A i \in 1 .. m : hashed[i][1] <= o /\ hashed[i][1] \in Nat
  <2>1. HashedCells = Due(start, o, RootSkips)
    BY DEF HashInv, RootHashed
  <2>2. \A i \in 1 .. m : hashed[i][1] \in Due(start, o, RootSkips)
    BY <2>1 DEF HashedCells
  <2> QED
    BY <1>1, <2>1, <2>2 DEF Due, Cells
<1>8. InOrder'
  <2>1. \A i, j \in 1 .. m : i < j => hashed[i][1] < hashed[j][1]
    BY DEF HashInv, InOrder
  <2> QED
    BY <1>1, <1>5, <1>6, <1>7, <2>1 DEF InOrder
<1>9. HashedCells' = HashedCells \cup {c \in Cells : o < c /\ c <= o + n}
  <2>1. ASSUME NEW i \in 1 .. m + n
        PROVE  hashed'[i][1] \in HashedCells \cup {c \in Cells : o < c /\ c <= o + n}
    <3>1. CASE i <= m
      BY <1>1, <1>6, <3>1 DEF HashedCells
    <3>2. CASE ~(i <= m)
      <4>1. hashed'[i][1] = o + (i - m)
        BY <1>6, <3>2
      <4>2. i - m \in 1 .. n
        BY <1>1, <3>2
      <4> QED
        BY <1>1, <4>1, <4>2 DEF Cells
    <3> QED
      BY <3>1, <3>2
  <2>2. ASSUME NEW i \in 1 .. m
        PROVE  hashed[i][1] \in HashedCells'
    BY <1>1, <1>5, <1>6 DEF HashedCells
  <2>3. ASSUME NEW c \in Cells, o < c, c <= o + n
        PROVE  c \in HashedCells'
    <3> DEFINE k == m + (c - o)
    <3>1. k \in 1 .. m + n /\ ~(k <= m) /\ o + (k - m) = c
      BY <1>1, <2>3 DEF Cells
    <3> HIDE DEF k
    <3>2. hashed'[k][1] = c
      BY <1>6, <3>1
    <3> QED
      BY <1>5, <3>1, <3>2 DEF HashedCells
  <2>4. HashedCells' = {hashed'[i][1] : i \in 1 .. m + n} /\ HashedCells = {hashed[i][1] : i \in 1 .. m}
    BY <1>5 DEF HashedCells
  <2> QED
    BY <2>1, <2>2, <2>3, <2>4
<1>10. Due(start, o + n, RootSkips) = Due(start, o, RootSkips) \cup {c \in Cells : o < c /\ c <= o + n}
  <2>1. o >= start /\ start \in Nat
    BY DEF RootAhead, ReadTypes
  <2>2. \A c \in Cells : o < c => Outside(c, RootSkips)
    BY <1>1 DEF Outside, RootSkips, RootAhead, ReadTypes, Cells
  <2> QED
    BY <1>1, <2>1, <2>2 DEF Due, Cells, RootSkips
<1>11. \A c \in Cells : o < c /\ c <= o + n => c \notin Bad
  <2> SUFFICES ASSUME NEW c \in Cells, o < c, c <= o + n PROVE c \notin Bad
    OBVIOUS
  <2>1. c - o \in 1 .. n /\ o + (c - o) = c
    BY <1>1 DEF Cells
  <2> QED
    BY <2>1
<1> QED
  BY <1>5, <1>7, <1>8, <1>9, <1>10, <1>11 DEF HashTypes, HashInv, RootHashed

(* A step that hashes and skips nothing of the root.                        *)
LEMMA SameHash ==
  ASSUME HashInv, UNCHANGED <<hashed, start, RootSkips>>,
         (target = "root" /\ pc = "read")' => HashedCells = Due(start, currentOffset', RootSkips),
         (target # "root" \/ pc = "eof" \/ (pc = "over" /\ log = <<>>))' => HashedCells = Due(start, Media, RootSkips)
  PROVE  HashInv'
<1>1. HashTypes' /\ InOrder' /\ HashedCells' = HashedCells
  BY DEF HashInv, HashTypes, InOrder, HashedCells
<1> QED
  BY <1>1 DEF HashInv, RootHashed

LEMMA ReadBlockHashes ==
  ASSUME ReadTypes, RootAhead, HashInv, ReadBlock
  PROVE  HashInv'
<1> DEFINE o == currentOffset
<1>1. pc = "read" /\ target # "entry" /\ UNCHANGED <<media, start, target, log>>
  BY ReadBlockCases
<1>2. o \in Nat /\ Media \in Nat /\ Size \in Nat /\ (target = "root" => Size = Media /\ Seekable)
  BY Sizes DEF ReadTypes, Seekable
<1>3. target = "root" => HashedCells = Due(start, o, RootSkips)
  BY <1>1 DEF HashInv, RootHashed
<1>4. target # "root" => HashedCells = Due(start, Media, RootSkips)
  BY DEF HashInv, RootHashed
<1>5. CASE \E r \in Attempts(o) : r.n > 0 /\ Deliver(r)
  <2>1. PICK r \in Attempts(o) : r.n > 0 /\ Deliver(r)
    BY <1>5
  <2>2. /\ r.n \in Nat /\ o + r.n <= Size
        /\ target = "root" => \A i \in 0 .. r.n - 1 : o + i + 1 \notin Bad
        /\ r.err = "end" => o + r.n >= Size
    BY <1>2, <2>1, AttemptFacts
  <2>3. UNCHANGED skipped /\ currentOffset' = o + r.n /\ (pc' = "read" \/ pc' = "eof")
    BY <2>1 DEF Deliver
  <2>4. CASE target = "root"
    <3>1. ASSUME NEW i \in 1 .. r.n PROVE o + i \notin Bad
      <4>1. i - 1 \in 0 .. r.n - 1 /\ o + (i - 1) + 1 = o + i
        BY <1>2, <2>2
      <4> QED
        BY <2>2, <2>4, <4>1
    <3>2. hashed' = hashed \o Hashable(r.n)
      BY <2>1, <2>4 DEF Deliver
    <3>3. /\ HashTypes' /\ InOrder' /\ HashedCells' \cap Bad = {}
          /\ HashedCells' = Due(start, o + r.n, RootSkips)
      <4>1. /\ RootAhead /\ HashInv /\ target = "root" /\ pc = "read" /\ UNCHANGED <<start, skipped>>
            /\ o \in Nat /\ r.n \in Nat /\ o + r.n <= Media
        BY <1>1, <1>2, <2>2, <2>3, <2>4
      <4> QED
        BY <3>1, <3>2, <4>1, HashAppends
    <3>4. RootSkips' = RootSkips /\ start' = start /\ target' = "root"
      BY <1>1, <2>3, <2>4 DEF RootSkips
    <3>5. pc' = "eof" => Due(start, o + r.n, RootSkips) = Due(start, Media, RootSkips)
      <4>1. pc' = "eof" => o + r.n = Media
        BY <1>2, <2>1, <2>2, <2>4 DEF Deliver
      <4> QED
        BY <4>1
    <3> QED
      BY <2>3, <3>3, <3>4, <3>5 DEF HashInv, RootHashed
  <2>5. CASE target # "root"
    <3>1. UNCHANGED hashed
      BY <2>1, <2>5 DEF Deliver
    <3>2. RootSkips' = RootSkips
      BY <2>3 DEF RootSkips
    <3> QED
      BY <1>1, <1>4, <2>3, <2>5, <3>1, <3>2, SameHash
  <2> QED
    BY <2>4, <2>5
<1>6. CASE EndRead /\ \E r \in Attempts(o) : r.n = 0 /\ (r.err = "end" \/ ~Seekable)
  <2>1. UNCHANGED <<hashed, skipped, currentOffset>> /\ pc' = "eof"
    BY <1>6 DEF EndRead
  <2>2. ASSUME target = "root" PROVE HashedCells = Due(start, Media, RootSkips)
    <3>1. o >= Media
      BY <1>2, <1>6, <2>2, AttemptFacts
    <3>2. Due(start, o, RootSkips) = Due(start, Media, RootSkips)
      BY <1>2, <3>1 DEF Due, Cells
    <3> QED
      BY <1>3, <2>2, <3>2
  <2>3. RootSkips' = RootSkips
    BY <2>1 DEF RootSkips
  <2> QED
    BY <1>1, <1>4, <2>1, <2>2, <2>3, SameHash
<1>7. CASE SkipRange
  <2> DEFINE gap == [target |-> target, lo |-> o, hi |-> o + BlockSize]
  <2>1. UNCHANGED <<hashed, pc>> /\ currentOffset' = o + BlockSize /\ skipped' = skipped \cup {gap}
    BY <1>7 DEF SkipRange
  <2>2. CASE target # "root"
    <3>1. RootSkips' = RootSkips
      BY <2>1, <2>2 DEF RootSkips
    <3> QED
      BY <1>1, <1>4, <2>1, <2>2, <3>1, SameHash
  <2>3. CASE target = "root"
    <3>1. HashedCells' = HashedCells /\ HashTypes' /\ InOrder'
      BY <2>1 DEF HashInv, HashTypes, InOrder, HashedCells
    <3>2. RootSkips' = RootSkips \cup {gap}
      BY <2>1, <2>3 DEF RootSkips
    <3>3. \A c \in Cells : Outside(c, RootSkips') <=> Outside(c, RootSkips) /\ ~(o < c /\ c <= o + BlockSize)
      <4>1. gap.lo = o /\ gap.hi = o + BlockSize
        OBVIOUS
      <4> HIDE DEF gap
      <4> QED
        BY <3>2, <4>1 DEF Outside
    <3>4. Due(start, o, RootSkips) = {c \in Cells : c > start /\ c <= o + BlockSize /\ Outside(c, RootSkips')}
      BY <1>2, <3>3, ReadAssumption DEF Due, Cells
    <3>5. Due(start, currentOffset', RootSkips') = {c \in Cells : c > start /\ c <= o + BlockSize /\ Outside(c, RootSkips')}
      BY <1>1, <2>1 DEF Due
    <3> QED
      BY <1>1, <1>3, <2>1, <2>3, <3>1, <3>4, <3>5 DEF HashInv, RootHashed
  <2> QED
    BY <2>2, <2>3
<1> QED
  BY <1>5, <1>6, <1>7, ReadBlockCases

LEMMA StepKeepsHashInv ==
  ASSUME ReadTypes, RootAhead, HashInv, [Next]_vars
  PROVE  HashInv'
<1>1. CASE OpenTarget
  <2>1. UNCHANGED <<hashed, start, skipped, target>> /\ pc = "open" /\ pc' = "read"
    BY <1>1 DEF OpenTarget
  <2>2. ASSUME target = "root" PROVE HashedCells = Due(start, currentOffset', RootSkips)
    <3>1. HashedCells = {} /\ currentOffset' = start /\ start \in Nat
      BY <1>1, <2>1, <2>2 DEF RootAhead, HashedCells, OpenTarget, ReadTypes
    <3>2. Due(start, start, RootSkips) = {}
      BY <3>1 DEF Due, Cells
    <3> QED
      BY <3>1, <3>2
  <2>3. RootSkips' = RootSkips
    BY <2>1 DEF RootSkips
  <2> QED
    BY <2>1, <2>2, <2>3, SameHash DEF HashInv, RootHashed
<1>2. CASE ReadEntry \/ NextTarget
  <2>1. UNCHANGED <<hashed, start, skipped>> /\ pc' # "read" /\ (target # "root" \/ pc = "eof")
    BY <1>2 DEF ReadEntry, NextTarget
  <2>2. RootSkips' = RootSkips
    BY <2>1 DEF RootSkips
  <2> QED
    BY <2>1, <2>2, SameHash DEF HashInv, RootHashed
<1>3. CASE Refuse
  <2>1. UNCHANGED <<hashed, start, skipped, target>> /\ pc' = "over" /\ target = "root" /\ log' # <<>>
    BY <1>3 DEF Refuse
  <2>2. RootSkips' = RootSkips
    BY <2>1 DEF RootSkips
  <2> QED
    BY <2>1, <2>2, SameHash
<1>4. CASE Cancel \/ Record \/ Edit \/ UNCHANGED vars
  <2>1. UNCHANGED <<hashed, start, skipped, target, pc, currentOffset>> /\ (log = log' \/ log' # <<>>)
    BY <1>4 DEF Cancel, Record, Edit, scan, vars
  <2>2. RootSkips' = RootSkips
    BY <2>1 DEF RootSkips
  <2> QED
    BY <2>1, <2>2, SameHash DEF HashInv, RootHashed
<1> QED
  BY <1>1, <1>2, <1>3, <1>4, ReadBlockHashes DEF Next, Reader

-----------------------------------------------------------------------------
(* What is recorded.                                                        *)

LEMMA StepKeepsLogged ==
  ASSUME ReadTypes, HashInv, Logged, [Next]_vars
  PROVE  Logged'
<1>1. CASE Reader
  <2>1. log' = log /\ pc # "over"
    BY <1>1 DEF Reader, OpenTarget, ReadBlock, ReadEntry, NextTarget
  <2> QED
    BY <2>1 DEF Logged
<1>2. CASE Cancel
  BY <1>2 DEF Cancel, Logged
<1>3. CASE Record
  <2>1. UNCHANGED <<start, kind, hashed, skipped, pc>> /\ log = <<>>
    BY <1>3 DEF Record, scan
  <2>2. PICK s \in {"complete", "error", "canceled"} :
          log' = <<finish(s)>> /\ (s = "complete" => pc = "over")
    BY <1>3 DEF Record
  <2>3. finish(s)' = finish(s) /\ finish(s).status = s /\ HashedCells' = HashedCells
    BY <2>1 DEF finish, HashedCells
  <2>4. pc = "over" => HashedCells = Due(start, Media, RootSkips)
    BY <2>1 DEF HashInv, RootHashed
  <2>5. Due(start, Media, RootSkips)' = Due(start, Media, RootSkips)
    BY <2>1 DEF Due, RootSkips
  <2>6. ASSUME s = "complete" PROVE log'[1] = finish("complete")' /\ pc' = "over"
    BY <2>1, <2>2, <2>3, <2>6
  <2>7. DOMAIN log' = {1} /\ log'[1].status = s
    BY <2>2, <2>3
  <2> QED
    BY <2>1, <2>2, <2>3, <2>4, <2>5, <2>6, <2>7 DEF Logged
<1>4. CASE Refuse
  <2>1. log' = <<recordAttempt>> /\ recordAttempt.status # "complete"
    BY <1>4 DEF Refuse, recordAttempt
  <2> QED
    BY <2>1 DEF Logged
<1>5. CASE Edit \/ UNCHANGED vars
  <2>1. UNCHANGED <<start, kind, hashed, skipped, pc, log>>
    BY <1>5 DEF Edit, scan, vars
  <2> QED
    BY <2>1 DEF Logged, finish, HashedCells, Due, RootSkips, Outside
<1> QED
  BY <1>1, <1>2, <1>3, <1>4, <1>5 DEF Next

-----------------------------------------------------------------------------
(* What a block holds.                                                      *)

LEMMA CellTypes ==
  ASSUME NEW i \in Int
  PROVE  CellAt(i) \in Int /\ (target' = target => CellAt(i)' = CellAt(i))
BY ReadAssumption DEF CellAt, CellOf

(* The block made of what was read, behind an overlap that is true.         *)
LEMMA MakeBlockTrue ==
  ASSUME ReadTypes, TailTrue, pc = "read", ~short, NEW n \in Nat
  PROVE  /\ True(MakeBlock(n)) /\ MakeBlock(n).len \in Nat
         /\ MakeBlock(n).off + MakeBlock(n).len = currentOffset + n
<1> DEFINE b == MakeBlock(n)
           o == currentOffset
           kept == IF haveTail THEN tail ELSE <<>>
<1>1. o \in Nat /\ Overlap \in Nat /\ prefix \in Nat
  BY ReadAssumption DEF ReadTypes, prefix
<1>2. b.off = o - prefix /\ b.len = prefix + n /\ b.data = kept \o Fresh(n)
  BY DEF MakeBlock
<1>3. /\ kept \in Seq(Int) /\ Len(kept) = prefix /\ prefix <= o
      /\ \A i \in 1 .. prefix : kept[i] = CellAt(o - prefix + i - 1)
  <2>1. CASE haveTail
    <3>1. /\ prefix = Overlap /\ kept = tail /\ o >= Overlap
          /\ tail = [i \in 1 .. Overlap |-> CellAt(o - Overlap + i - 1)]
      BY <2>1 DEF prefix, TailTrue
    <3>2. \A i \in 1 .. Overlap : CellAt(o - Overlap + i - 1) \in Int
      BY <1>1, CellTypes
    <3>3. tail \in [1 .. Overlap -> Int]
      BY <3>1, <3>2
    <3>4. tail \in Seq(Int) /\ Len(tail) = Overlap
      BY <1>1, <3>3, IsASeq, LenProperties
    <3>5. \A i \in 1 .. Overlap : tail[i] = CellAt(o - Overlap + i - 1)
      BY <3>1
    <3> HIDE DEF kept
    <3> QED
      BY <3>1, <3>4, <3>5
  <2>2. CASE ~haveTail
    BY <1>1, <2>2 DEF prefix
  <2> QED
    BY <2>1, <2>2
<1>4. /\ Fresh(n) \in Seq(Int) /\ Len(Fresh(n)) = n
      /\ \A i \in 1 .. n : Fresh(n)[i] = CellAt(o + i - 1)
  <2>1. \A i \in 1 .. n : CellAt(o + i - 1) \in Int
    BY <1>1, CellTypes
  <2>2. Fresh(n) \in [1 .. n -> Int]
    BY <2>1 DEF Fresh
  <2> QED
    BY <2>2, IsASeq, LenProperties DEF Fresh
<1> HIDE DEF kept, b
<1>5. /\ b.data \in Seq(Int) /\ Len(b.data) = prefix + n
      /\ \A i \in 1 .. prefix + n : b.data[i] = IF i <= prefix THEN kept[i] ELSE Fresh(n)[i - prefix]
  <2> DEFINE fresh == Fresh(n)
  <2>1. Len(kept) = prefix /\ Len(fresh) = n /\ kept \in Seq(Int) /\ fresh \in Seq(Int) /\ b.data = kept \o fresh
    BY <1>2, <1>3, <1>4
  <2> HIDE DEF fresh
  <2>2. /\ kept \o fresh \in Seq(Int) /\ Len(kept \o fresh) = prefix + n
        /\ \A i \in 1 .. prefix + n : (kept \o fresh)[i] = IF i <= prefix THEN kept[i] ELSE fresh[i - prefix]
    BY <2>1, ConcatProperties
  <2> QED
    BY <2>1, <2>2 DEF fresh
<1>6. ASSUME NEW i \in 1 .. prefix + n
      PROVE  b.data[i] = CellAt(b.off + i - 1)
  <2>1. CASE i <= prefix
    BY <1>1, <1>2, <1>3, <1>5, <2>1
  <2>2. CASE ~(i <= prefix)
    <3>1. i - prefix \in 1 .. n
      BY <1>1, <2>2
    <3>2. b.data[i] = CellAt(o + (i - prefix) - 1)
      BY <1>4, <1>5, <2>2, <3>1
    <3>3. o + (i - prefix) - 1 = b.off + i - 1
      BY <1>1, <1>2
    <3> QED
      BY <3>2, <3>3
  <2> QED
    BY <2>1, <2>2
<1>7. b.data = [i \in 1 .. b.len |-> CellAt(b.off + i - 1)]
  <2>1. b.data \in [1 .. b.len -> Int]
    BY <1>2, <1>5, LenProperties
  <2> QED
    BY <1>2, <1>6, <2>1
<1>8. b.off >= 0 /\ b.len >= 0 /\ b.len \in Nat /\ b.off + b.len = o + n
  BY <1>1, <1>2, <1>3
<1> QED
  BY <1>7, <1>8 DEF True, b

(* The end of a true block is the overlap of the next.                      *)
LEMMA NextTailTrue ==
  ASSUME NEW b, True(b), b.len \in Nat, b.off \in Int, b.len >= Overlap, NEW o, o = b.off + b.len
  PROVE  o >= Overlap /\ NextTail(b) = [i \in 1 .. Overlap |-> CellAt(o - Overlap + i - 1)]
<1> DEFINE first == b.len - Overlap + 1
<1>1. Overlap \in Nat /\ first \in 1 .. b.len + 1 /\ b.off >= 0
  BY ReadAssumption DEF True
<1>2. NextTail(b) = SubSeq(b.data, first, b.len)
  BY DEF NextTail
<1>3. b.data \in Seq(Int) /\ Len(b.data) = b.len
  <2>1. \A i \in 1 .. b.len : CellAt(b.off + i - 1) \in Int
    BY CellTypes
  <2>2. b.data \in [1 .. b.len -> Int]
    BY <2>1 DEF True
  <2> QED
    BY <2>2, IsASeq, LenProperties
<1>4. /\ NextTail(b) \in Seq(Int) /\ Len(NextTail(b)) = Overlap
      /\ \A i \in 1 .. Overlap : NextTail(b)[i] = b.data[first + i - 1]
  <2>1. first \in Int /\ b.len \in Int /\ b.len - first + 1 = Overlap /\ (~(first <= b.len) => Overlap = 0)
    BY <1>1
  <2>2. \A i \in first .. b.len : b.data[i] \in Int
    <3>1. b.data \in [1 .. b.len -> Int]
      BY <1>3, LenProperties
    <3> QED
      BY <1>1, <3>1
  <2> HIDE DEF first
  <2> QED
    BY <1>1, <1>2, <2>1, <2>2, SubSeqProperties
<1>5. ASSUME NEW i \in 1 .. Overlap
      PROVE  b.data[first + i - 1] = CellAt(o - Overlap + i - 1)
  <2>1. first + i - 1 \in 1 .. b.len /\ b.off + (first + i - 1) - 1 = o - Overlap + i - 1
    BY <1>1
  <2>2. b.data[first + i - 1] = CellAt(b.off + (first + i - 1) - 1)
    BY <2>1 DEF True
  <2> QED
    BY <2>1, <2>2
<1>6. NextTail(b) \in [1 .. Overlap -> Int]
  BY <1>4, LenProperties
<1> HIDE DEF first
<1>7. \A i \in 1 .. Overlap : NextTail(b)[i] = CellAt(o - Overlap + i - 1)
  BY <1>4, <1>5
<1>8. o >= Overlap
  BY <1>1
<1> QED
  BY <1>6, <1>7, <1>8

LEMMA DeliverBlock ==
  ASSUME ReadTypes, BlockInv, pc = "read", target' = target,
         NEW r, r.n \in Nat, Deliver(r)
  PROVE  BlockInv'
<1> DEFINE b == MakeBlock(r.n)
<1>1. /\ sent' = b /\ short' = (short \/ b.len < Overlap) /\ tail' = NextTail(b) /\ haveTail' = TRUE
      /\ currentOffset' = currentOffset + r.n /\ pc' # "panicked"
  BY DEF Deliver
<1>2. short \in BOOLEAN /\ currentOffset \in Nat /\ Overlap \in Nat
  BY ReadAssumption DEF ReadTypes
<1>3. CASE short
  <2>1. short' = TRUE
    BY <1>1, <1>2, <1>3, Zenon
  <2> QED
    BY <2>1 DEF BlockInv, TailTrue, BlocksTrueUnlessShort
<1>4. CASE ~short
  <2>1. True(b) /\ b.len \in Nat /\ b.off + b.len = currentOffset + r.n
    BY <1>4, MakeBlockTrue DEF BlockInv
  <2>2. b.off \in Int
    BY <1>2 DEF MakeBlock, prefix
  <2> HIDE DEF b
  <2>3. True(sent)'
    <3>1. /\ b.data = [i \in 1 .. b.len |-> CellAt(b.off + i - 1)]
          /\ b.len >= 0 /\ b.off >= 0
      BY <2>1 DEF True
    <3> QED
      BY <1>1, <3>1 DEF True, CellAt
  <2>4. ASSUME ~short'
        PROVE  /\ currentOffset' >= Overlap
               /\ tail' = [i \in 1 .. Overlap |-> CellOf(target', currentOffset' - Overlap + i - 1)]
    <3>1. b.len >= Overlap
      <4>1. ~(b.len < Overlap)
        BY <1>1, <2>4, Zenon
      <4> QED
        BY <1>2, <2>1, <4>1
    <3> DEFINE o == currentOffset + r.n
    <3>2. o = b.off + b.len
      BY <2>1
    <3> HIDE DEF o
    <3>3. o >= Overlap /\ NextTail(b) = [i \in 1 .. Overlap |-> CellAt(o - Overlap + i - 1)]
      BY <2>1, <2>2, <3>1, <3>2, NextTailTrue
    <3>4. currentOffset' = o
      BY <1>1 DEF o
    <3> QED
      BY <1>1, <3>3, <3>4 DEF CellAt
  <2>5. TailTrue'
    BY <2>4 DEF TailTrue, CellAt
  <2> QED
    BY <2>3, <2>5 DEF BlockInv, BlocksTrueUnlessShort
<1> QED
  BY <1>3, <1>4

LEMMA StepKeepsBlockInv ==
  ASSUME ReadTypes, BlockInv, [Next]_vars
  PROVE  BlockInv'
<1>1. ASSUME UNCHANGED <<target, sent, short>>, pc' # "read" \/ haveTail' = FALSE,
             pc' # "panicked" => pc # "panicked"
      PROVE  BlockInv'
  BY <1>1 DEF BlockInv, TailTrue, BlocksTrueUnlessShort, True, CellAt
<1>2. CASE OpenTarget
  BY <1>1, <1>2 DEF OpenTarget
<1>3. CASE ReadBlock
  <2>1. UNCHANGED <<target>> /\ pc = "read"
    BY <1>3, ReadBlockCases
  <2>2. CASE \E r \in Attempts(currentOffset) : r.n > 0 /\ Deliver(r)
    BY <2>1, <2>2, DeliverBlock, AttemptFacts DEF ReadTypes
  <2>3. CASE EndRead
    BY <1>1, <2>1, <2>3 DEF EndRead
  <2>4. CASE SkipRange
    BY <1>1, <2>1, <2>4 DEF SkipRange
  <2> QED
    BY <1>3, <2>2, <2>3, <2>4, ReadBlockCases
<1>4. CASE ReadEntry
  BY <1>4 DEF ReadEntry, BlockInv, TailTrue, BlocksTrueUnlessShort
<1>5. CASE NextTarget
  BY <1>5 DEF NextTarget, BlockInv, TailTrue, BlocksTrueUnlessShort
<1>6. CASE Refuse
  BY <1>1, <1>6 DEF Refuse
<1>7. CASE Cancel \/ Record \/ Edit \/ UNCHANGED vars
  <2>1. UNCHANGED <<target, pc, currentOffset, tail, haveTail, sent, short>>
    BY <1>7 DEF Cancel, Record, Edit, scan, vars
  <2> QED
    BY <2>1 DEF BlockInv, TailTrue, BlocksTrueUnlessShort, True, CellAt
<1> QED
  BY <1>2, <1>3, <1>4, <1>5, <1>6, <1>7 DEF Next, Reader

-----------------------------------------------------------------------------
(* The theorems.                                                            *)

LEMMA ReadInvariant == Spec => []ReadInv
<1>1. ReadInv /\ [Next]_vars => ReadInv'
  BY StepKeepsTypes, StepKeepsRootAhead, StepKeepsHashInv, StepKeepsLogged, StepKeepsBlockInv DEF ReadInv
<1> QED
  BY <1>1, InitReadInv, PTL DEF Spec

(* Whatever fails to read, and wherever the read begins, a block that a     *)
(* target yields holds the bytes its offset says, until one block has been  *)
(* shorter than the overlap (readTarget's carry).                           *)
THEOREM BlocksAreTrue == Spec => []BlocksTrueUnlessShort
BY ReadInvariant, PTL DEF ReadInv, BlockInv

(* The cells hashed, in the order they were.                                *)
LEMMA HashOrder ==
  ASSUME HashTypes, InOrder
  PROVE  [i \in DOMAIN hashed |-> hashed[i][1]] = Ascending(HashedCells)
<1> DEFINE n == Len(hashed)
           cells == [i \in 1 .. n |-> hashed[i][1]]
<1>1. n \in Nat /\ DOMAIN hashed = 1 .. n /\ hashed \in [1 .. n -> Cells \X {0, 1}]
  BY LenProperties DEF HashTypes
<1>2. cells \in [1 .. n -> Int]
  BY <1>1 DEF Cells
<1>3. \A i \in 1 .. n : cells[i] = hashed[i][1]
  OBVIOUS
<1>4. HashedCells = {cells[i] : i \in 1 .. n}
  BY DEF HashedCells
<1>5. cells = [i \in DOMAIN hashed |-> hashed[i][1]]
  BY <1>1
<1> HIDE DEF cells
<1>6. cells \in Seq(Int) /\ Len(cells) = n
  BY <1>1, <1>2, IsASeq, LenProperties
<1>7. \A i, j \in 1 .. Len(cells) : i < j => cells[i] < cells[j]
  BY <1>3, <1>6 DEF InOrder
<1>8. Ascending({cells[i] : i \in 1 .. Len(cells)}) = cells
  BY <1>6, <1>7, AscendingIs
<1> QED
  BY <1>4, <1>5, <1>6, <1>8

(* Whatever fails to read, the hash of the root is over each of its bytes   *)
(* from the start on once and in order, but for the ranges reported as      *)
(* skipped: what a record vouches for is what was read.                     *)
THEOREM HashIsOfTheRead == Spec => []HashTiles
<1>1. ASSUME ReadInv, target = "root", pc = "eof"
      PROVE  [i \in DOMAIN hashed |-> hashed[i][1]] = Covered(finish("complete"))
  <2>1. HashedCells = Due(start, Media, RootSkips) /\ RootSkips = skipped
    BY <1>1 DEF ReadInv, HashInv, RootHashed, RootAhead, RootSkips
  <2>2. Due(start, Media, skipped) = {c \in 1 .. Media : c > start /\ Outside(c, skipped)}
    BY ReadAssumption DEF Due, Cells
  <2>3. Covered(finish("complete")) = Ascending({c \in 1 .. Media : c > start /\ Outside(c, skipped)})
    BY DEF Covered, finish
  <2> QED
    BY <1>1, <2>1, <2>2, <2>3, HashOrder DEF ReadInv, HashInv
<1> QED
  BY <1>1, ReadInvariant, PTL DEF HashTiles

(* Whatever fails to read, the record of a complete scan of a file, with    *)
(* nothing skipped but in the root, verifies exactly while the bytes it     *)
(* hashed are what they were (VerifyCaseLog).                               *)
THEOREM CompleteRecordsVerify == Spec => []CompleteVerifies
<1>1. ReadInv => CompleteVerifies
  <2> SUFFICES ASSUME ReadInv, NEW i \in DOMAIN log, log[i].status = "complete", kind # "stdin",
                      \A s \in log[i].skipped : s.target = "root"
               PROVE  Verdict(log[i]) = "OK"
                        <=> \A j \in DOMAIN log[i].hash : media[log[i].hash[j][1]] = log[i].hash[j][2]
    BY DEF CompleteVerifies
  <2> DEFINE r == log[i]
             due == Covered(r)
  <2>1. /\ r = finish("complete") /\ HashedCells = Due(start, Media, RootSkips)
        /\ kind \in {"raw", "range"} /\ HashedCells \cap Bad = {}
    BY DEF ReadInv, Logged, ReadTypes, HashInv, RootHashed
  <2>2. r.status = "complete" /\ r.kind = kind /\ r.start = start /\ r.size = Media /\ r.hash = hashed /\ r.skipped = skipped
    BY <2>1 DEF finish
  <2>3. RootSkips = skipped
    BY <2>2 DEF RootSkips
  <2>4. due = Ascending(HashedCells)
    <3>1. Due(start, Media, skipped) = {c \in 1 .. Media : c > start /\ Outside(c, skipped)}
      BY ReadAssumption DEF Due, Cells
    <3> QED
      BY <2>1, <2>2, <2>3, <3>1 DEF Covered
  <2>5. due = [j \in DOMAIN hashed |-> hashed[j][1]]
    BY <2>4, HashOrder DEF ReadInv, HashInv
  <2>6. hashed \in [1 .. Len(hashed) -> Cells \X {0, 1}] /\ DOMAIN hashed = 1 .. Len(hashed)
    BY LenProperties DEF ReadInv, HashInv, HashTypes
  <2>7. \A j \in DOMAIN due : due[j] \notin Bad
    BY <2>1, <2>5, <2>6 DEF HashedCells
  <2>8. [j \in DOMAIN due |-> <<due[j], media[due[j]]>>] = hashed
          <=> \A j \in DOMAIN hashed : media[hashed[j][1]] = hashed[j][2]
    <3>1. \A j \in DOMAIN hashed : hashed[j] = <<hashed[j][1], hashed[j][2]>>
      BY <2>6
    <3>2. [j \in DOMAIN due |-> <<due[j], media[due[j]]>>]
            = [j \in DOMAIN hashed |-> <<hashed[j][1], media[hashed[j][1]]>>]
      BY <2>5
    <3> HIDE DEF due
    <3> QED
      BY <2>6, <3>1, <3>2
  <2>9. Verdict(r) = "OK" <=> verifyRecord(r)
    BY <2>2 DEF Verdict, isAttemptRecord
  <2>10. verifyRecord(r) <=> [j \in DOMAIN due |-> <<due[j], media[due[j]]>>] = hashed
    BY <2>1, <2>2, <2>7 DEF verifyRecord
  <2> QED
    BY <2>2, <2>8, <2>9, <2>10
<1> QED
  BY <1>1, ReadInvariant, PTL
=============================================================================
