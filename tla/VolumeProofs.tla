---------------------------- MODULE VolumeProofs ----------------------------
(* What is proved of the volumes scanned without being mounted: the byte     *)
(* ranges their readers work with, the records of NTFS, the blocks, inodes   *)
(* and entries of ext, and the clusters of FAT.                              *)
EXTENDS Volumes, SequenceTheorems, FiniteSetTheorems, Recursion, TLAPS

-----------------------------------------------------------------------------
(* Ranges: what sorting and joining them keeps.                              *)

Ranges == [start : Nat, len : Nat \ {0}]
Ascend(s) == \A i, j \in DOMAIN s : i <= j => s[i].start <= s[j].start
Rising == {s \in Seq(Ranges) : Ascend(s)}
Of(e) == e.start .. End(e) - 1

LEMMA RangeIs ==
  ASSUME NEW e \in Ranges PROVE e.start \in Nat /\ e.len \in Nat \ {0}
  BY DEF Ranges

LEMMA RisingIs ==
  ASSUME NEW s \in Rising
  PROVE  /\ s \in Seq(Ranges) /\ Len(s) \in Nat /\ DOMAIN s = 1 .. Len(s)
         /\ \A i \in 1 .. Len(s) : s[i] \in Ranges /\ s[i].start \in Nat /\ s[i].len \in Nat \ {0}
         /\ \A i, j \in 1 .. Len(s) : i <= j => s[i].start <= s[j].start
<1>1. s \in Seq(Ranges) /\ Ascend(s)
  BY DEF Rising
<1>2. Len(s) \in Nat /\ DOMAIN s = 1 .. Len(s) /\ \A i \in 1 .. Len(s) : s[i] \in Ranges
  BY <1>1
<1> QED
  BY <1>1, <1>2, RangeIs DEF Ascend

(* The place of a range is found.                                            *)
LEMMA InsertedAt ==
  ASSUME NEW s \in Rising, NEW e \in Ranges
  PROVE  \E at \in 0 .. Len(s) :
           /\ \A i \in DOMAIN s : s[i].start <= e.start <=> i <= at
           /\ Inserted(s, e) =
                [i \in 1 .. Len(s) + 1 |-> IF i <= at THEN s[i] ELSE IF i = at + 1 THEN e ELSE s[i - 1]]
<1> DEFINE At(k) == \A i \in DOMAIN s : s[i].start <= e.start <=> i <= k
           E == {k \in 0 .. Len(s) : \A i \in DOMAIN s : i > k => s[i].start > e.start}
<1>1. PICK n \in Nat : n = Len(s)
  BY RisingIs
<1>2. DOMAIN s = 1 .. n /\ e.start \in Nat /\ \A i \in 1 .. n : s[i] \in Ranges /\ s[i].start \in Nat
  BY <1>1, RisingIs, RangeIs
<1>3. PICK k \in E : \A y \in E : k <= y
  <2>1. n \in E /\ E \subseteq Nat
    BY <1>1, <1>2
  <2> QED
    BY <2>1, NatLeast
<1>4. At(k)
  <2>1. k \in 0 .. n /\ \A i \in 1 .. n : i > k => s[i].start > e.start
    BY <1>1, <1>2, <1>3
  <2>2. CASE k = 0
    BY <1>2, <2>1, <2>2
  <2>3. CASE k # 0
    <3>1. k - 1 \in 0 .. n /\ k - 1 \notin E
      BY <1>3, <2>1, <2>3
    <3>2. PICK i \in 1 .. n : i > k - 1 /\ ~(s[i].start > e.start)
      BY <1>1, <1>2, <3>1
    <3>3. i = k
      BY <2>1, <3>2
    <3>4. \A j \in 1 .. n : j <= k => s[j].start <= s[k].start
      BY <1>2, <3>3 DEF Rising, Ascend
    <3> QED
      BY <1>2, <2>1, <3>2, <3>3, <3>4
  <2> QED
    BY <2>2, <2>3
<1>5. PICK at : at = CHOOSE x \in 0 .. Len(s) : At(x)
  OBVIOUS
<1>6. at \in 0 .. Len(s) /\ At(at)
  <2> HIDE DEF At
  <2> QED
    BY <1>3, <1>4, <1>5
<1>7. Inserted(s, e) =
        [i \in 1 .. Len(s) + 1 |-> IF i <= at THEN s[i] ELSE IF i = at + 1 THEN e ELSE s[i - 1]]
  BY <1>5 DEF Inserted
<1> QED
  BY <1>6, <1>7

LEMMA InsertedKeeps ==
  ASSUME NEW s \in Rising, NEW e \in Ranges
  PROVE  /\ Inserted(s, e) \in Rising
         /\ Bytes(Inserted(s, e)) = Bytes(s) \cup Of(e)
         /\ (\A i \in DOMAIN s : s[i].start <= e.start) => Inserted(s, e) = Append(s, e)
<1>1. PICK at \in 0 .. Len(s) :
        /\ \A i \in DOMAIN s : s[i].start <= e.start <=> i <= at
        /\ Inserted(s, e) =
             [i \in 1 .. Len(s) + 1 |-> IF i <= at THEN s[i] ELSE IF i = at + 1 THEN e ELSE s[i - 1]]
  BY InsertedAt
<1>2. PICK n \in Nat : n = Len(s)
  BY RisingIs
<1>3. PICK r : r = Inserted(s, e)
  OBVIOUS
<1>4. /\ DOMAIN s = 1 .. n /\ at \in 0 .. n
      /\ \A i \in 1 .. n : s[i] \in Ranges /\ s[i].start \in Nat
      /\ \A i \in 1 .. n : s[i].start <= e.start <=> i <= at
      /\ \A i, j \in 1 .. n : i <= j => s[i].start <= s[j].start
      /\ e.start \in Nat
  BY <1>1, <1>2, RisingIs, RangeIs
<1>5. /\ r = [i \in 1 .. n + 1 |-> IF i <= at THEN s[i] ELSE IF i = at + 1 THEN e ELSE s[i - 1]]
  BY <1>1, <1>2, <1>3
<1>6. /\ \A i \in 1 .. n + 1 : i <= at => i \in 1 .. n /\ r[i] = s[i]
      /\ r[at + 1] = e /\ at + 1 \in 1 .. n + 1
      /\ \A i \in 1 .. n + 1 : i > at + 1 => i - 1 \in 1 .. n /\ i - 1 > at /\ r[i] = s[i - 1]
      /\ \A i \in 1 .. n + 1 : i <= at \/ i = at + 1 \/ i > at + 1
  BY <1>4, <1>5
<1>7. \A i \in 1 .. n + 1 : r[i] \in Ranges
  BY <1>4, <1>6
<1>8. r \in Seq(Ranges) /\ Len(r) = n + 1 /\ DOMAIN r = 1 .. n + 1
  BY <1>2, <1>5, <1>7, IsASeq
<1>9. Ascend(r)
  <2>1. SUFFICES ASSUME NEW i \in 1 .. n + 1, NEW j \in 1 .. n + 1, i <= j
                 PROVE  r[i].start <= r[j].start
    BY <1>8 DEF Ascend
  <2>2. CASE j <= at
    BY <1>4, <1>6, <2>1, <2>2
  <2>3. CASE j = at + 1
    <3>1. CASE i = j
      BY <1>4, <1>6, <2>3, <3>1
    <3>2. CASE i # j
      <4>1. i <= at
        BY <1>4, <2>1, <2>3, <3>2
      <4> QED
        BY <1>4, <1>6, <2>3, <4>1
    <3> QED
      BY <3>1, <3>2
  <2>4. CASE j > at + 1
    <3>1. r[j] = s[j - 1] /\ j - 1 \in 1 .. n /\ ~(s[j - 1].start <= e.start) /\ s[j - 1].start \in Nat
      <4>1. ~(j - 1 <= at) /\ j - 1 \in 1 .. n
        BY <1>4, <2>4
      <4> QED
        BY <1>4, <1>6, <2>4, <4>1
    <3>2. CASE i <= at
      <4>1. i <= j - 1
        BY <1>4, <2>4, <3>2
      <4> QED
        BY <1>4, <1>6, <3>1, <3>2, <4>1
    <3>3. CASE i = at + 1
      BY <1>4, <1>6, <3>1, <3>3
    <3>4. CASE i > at + 1
      <4>1. i - 1 <= j - 1
        BY <2>1
      <4> QED
        BY <1>4, <1>6, <3>1, <3>4, <4>1
    <3> QED
      BY <1>4, <3>2, <3>3, <3>4
  <2> QED
    BY <1>4, <2>2, <2>3, <2>4
<1>10. Bytes(r) = Bytes(s) \cup Of(e)
  <2>1. \A i \in 1 .. n : \E j \in 1 .. n + 1 : r[j] = s[i]
    <3>1. SUFFICES ASSUME NEW i \in 1 .. n PROVE \E j \in 1 .. n + 1 : r[j] = s[i]
      OBVIOUS
    <3>2. CASE i <= at
      BY <1>6, <3>2
    <3>3. CASE ~(i <= at)
      <4>1. i + 1 \in 1 .. n + 1 /\ i + 1 > at + 1 /\ (i + 1) - 1 = i
        BY <1>4, <3>3
      <4> QED
        BY <1>6, <4>1
    <3> QED
      BY <3>2, <3>3
  <2>2. \A j \in 1 .. n + 1 : r[j] = e \/ \E i \in 1 .. n : r[j] = s[i]
    BY <1>6
  <2>3. \A x : x \in Bytes(r) <=> \E j \in 1 .. n + 1 : x \in Of(r[j])
    BY <1>8 DEF Bytes, Of
  <2>4. \A x : x \in Bytes(s) <=> \E i \in 1 .. n : x \in Of(s[i])
    BY <1>4 DEF Bytes, Of
  <2>5. \A x : x \in Bytes(r) <=> x \in Bytes(s) \/ x \in Of(e)
    BY <1>6, <2>1, <2>2, <2>3, <2>4
  <2> QED
    BY <2>5
<1>11. ASSUME \A i \in DOMAIN s : s[i].start <= e.start PROVE r = Append(s, e)
  <2>1. at = n
    <3>1. CASE n = 0
      BY <1>4, <3>1
    <3>2. CASE n # 0
      BY <1>4, <1>11, <3>2
    <3> QED
      BY <3>1, <3>2
  <2>2. r = [i \in 1 .. n + 1 |-> IF i <= n THEN s[i] ELSE e]
    <3>1. \A i \in 1 .. n + 1 : r[i] = IF i <= n THEN s[i] ELSE e
      BY <1>5, <1>6, <2>1
    <3> QED
      BY <1>5, <3>1
  <2>3. Append(s, e) = [i \in 1 .. n + 1 |-> IF i <= n THEN s[i] ELSE e]
    <3>1. s \in Seq(Ranges)
      BY RisingIs
    <3>2. Append(s, e) \in Seq(Ranges) /\ Len(Append(s, e)) = n + 1
          /\ \A i \in 1 .. n + 1 : Append(s, e)[i] = IF i <= n THEN s[i] ELSE e
      BY <1>2, <3>1, AppendProperties
    <3> QED
      BY <3>2, LenProperties
  <2> QED
    BY <2>2, <2>3
<1> QED
  BY <1>3, <1>8, <1>9, <1>10, <1>11 DEF Rising

Pieces == [start : Nat, len : Nat]

LEMMA SortedUnfold ==
  ASSUME NEW in \in Seq(Pieces)
  PROVE  \E f \in [0 .. Len(in) -> Rising] :
           /\ Sorted(in) = f[Len(in)] /\ f[0] = <<>>
           /\ \A k \in 1 .. Len(in) : f[k] = IF in[k].len = 0 THEN f[k - 1] ELSE Inserted(f[k - 1], in[k])
<1> DEFINE M(k, s) == IF in[k].len = 0 THEN s ELSE Inserted(s, in[k])
           n == Len(in)
           a == <<>>
           P(f) == f = [k \in 0 .. n |-> IF k = 0 THEN a ELSE M(k, f[k - 1])]
           G == [k \in 1 .. n |-> [s \in Rising |-> M(k, s)]]
           g == CHOOSE f : P(f)
<1>1. n \in Nat /\ a \in Rising
  BY DEF Rising, Ascend
<1>2. \A k \in 1 .. n : \A s \in Rising : M(k, s) \in Rising
  <2>1. SUFFICES ASSUME NEW k \in 1 .. n, NEW s \in Rising PROVE M(k, s) \in Rising
    OBVIOUS
  <2>2. in[k] \in Pieces
    OBVIOUS
  <2>3. CASE in[k].len = 0
    BY <2>3
  <2>4. CASE in[k].len # 0
    <3>1. in[k] \in Ranges
      BY <2>2, <2>4 DEF Pieces, Ranges
    <3> QED
      BY <2>4, <3>1, InsertedKeeps
  <2> QED
    BY <2>3, <2>4
<1>3. Sorted(in) = g[n]
  BY DEF Sorted
<1> HIDE DEF M, n, g, a
<1>4. Steps(n, Rising, a, G)
  BY <1>1, <1>2 DEF Steps
<1>5. PICK f : Solution(n, Rising, a, G, f)
  <2> HIDE DEF G
  <2> QED
    BY <1>1, <1>4, NatRecursion
<1>6. f \in [0 .. n -> Rising] /\ f[0] = a /\ \A i \in 1 .. n : f[i] = M(i, f[i - 1])
  BY <1>5 DEF Solution
<1>7. P(f)
  BY <1>1, <1>6
<1>8. P(g)
  <2> HIDE DEF P
  <2> QED
    BY <1>7 DEF g
<1>9. g = f
  <2>1. g = [k \in 0 .. n |-> IF k = 0 THEN a ELSE M(k, g[k - 1])]
    BY <1>8
  <2>2. \A k \in 0 .. n : g[k] = IF k = 0 THEN a ELSE M(k, g[k - 1])
    BY <2>1
  <2>3. /\ g = [k \in 0 .. n |-> g[k]] /\ g[0] = a
        /\ \A k \in 1 .. n : g[k] = M(k, g[k - 1])
    BY <1>1, <2>1, <2>2
  <2>4. \A k \in 1 .. n : g[k - 1] \in Rising => g[k] = G[k][g[k - 1]]
    BY <2>3
  <2>5. Solves(n, Rising, a, G, g)
    BY <2>3, <2>4 DEF Solves
  <2> HIDE DEF G, P
  <2> QED
    BY <1>1, <1>4, <1>5, <2>5, NatRecursionUnique
<1> QED
  BY <1>3, <1>6, <1>9 DEF M, n, a

LEMMA Sorting ==
  ASSUME NEW in \in Seq(Pieces)
  PROVE  /\ Sorted(in) \in Rising /\ Bytes(Sorted(in)) = Bytes(in)
         /\ in \in Rising => Sorted(in) = in
<1>1. PICK f \in [0 .. Len(in) -> Rising] :
           /\ Sorted(in) = f[Len(in)] /\ f[0] = <<>>
           /\ \A k \in 1 .. Len(in) : f[k] = IF in[k].len = 0 THEN f[k - 1] ELSE Inserted(f[k - 1], in[k])
  BY SortedUnfold
<1>2. PICK n \in Nat : n = Len(in)
  OBVIOUS
<1>3. \A k \in 1 .. n : in[k] \in Pieces /\ in[k].start \in Nat /\ in[k].len \in Nat
  BY SMTT(30), <1>2 DEF Pieces
<1>4. \A k \in 1 .. n : f[k - 1] \in Rising /\ (in[k].len # 0 => in[k] \in Ranges)
  <2>1. \A k \in 1 .. n : k - 1 \in 0 .. n
    BY <1>2
  <2>2. \A e \in Pieces : e.len # 0 => e \in Ranges
    BY DEF Pieces, Ranges
  <2> QED
    BY <1>1, <1>2, <1>3, <2>1, <2>2
<1> DEFINE Upto(k) == UNION {Of(in[i]) : i \in 1 .. k}
           E == {k \in 0 .. n : Bytes(f[k]) = Upto(k)}
<1>5. 0 .. n \subseteq E
  <2>1. 0 \in E
    BY <1>1, <1>2 DEF Bytes
  <2>2. ASSUME NEW k \in 1 .. n, k - 1 \in E PROVE k \in E
    <3>1. Upto(k) = Upto(k - 1) \cup Of(in[k])
      <4>1. 1 .. k = (1 .. k - 1) \cup {k}
        OBVIOUS
      <4> QED
        BY <4>1
    <3>2. CASE in[k].len = 0
      <4>1. Of(in[k]) = {}
        BY <1>3, <3>2 DEF Of, End
      <4> HIDE DEF Upto
      <4> QED
        BY <1>1, <1>2, <2>2, <3>1, <3>2, <4>1
    <3>3. CASE in[k].len # 0
      <4>1. Bytes(f[k]) = Bytes(f[k - 1]) \cup Of(in[k])
        BY <1>1, <1>2, <1>4, <3>3, InsertedKeeps
      <4> HIDE DEF Upto
      <4> QED
        BY <2>2, <3>1, <4>1
    <3> QED
      BY <3>2, <3>3
  <2> HIDE DEF E
  <2> QED
    BY <2>1, <2>2, UpTo
<1>6. Bytes(f[n]) = Bytes(in)
  <2>1. n \in 0 .. n /\ DOMAIN in = 1 .. n
    BY <1>2
  <2> QED
    BY <1>5, <2>1 DEF Bytes, Of
<1>7. ASSUME in \in Rising PROVE f[n] = in
  <2> DEFINE D == {k \in 0 .. n : f[k] = SubSeq(in, 1, k)}
  <2>1. 0 \in D
    <3>1. SubSeq(in, 1, 0) = <<>>
      BY SubSeqEmpty
    <3>2. 0 \in 0 .. n
      BY <1>2
    <3> QED
      BY <1>1, <3>1, <3>2, Zenon
  <2>2. ASSUME NEW k \in 1 .. n, k - 1 \in D PROVE k \in D
    <3>1. PICK s : s = f[k - 1]
      OBVIOUS
    <3>2. s = SubSeq(in, 1, k - 1) /\ s \in Rising
      BY <1>4, <2>2, <3>1
    <3>3. in[k].len # 0 /\ in[k] \in Ranges /\ \A i \in 1 .. k - 1 : in[i].start <= in[k].start
      <4>1. k \in 1 .. Len(in) /\ \A i \in 1 .. k - 1 : i \in 1 .. Len(in) /\ i <= k
        BY <1>2
      <4> QED
        BY <1>7, <4>1, RisingIs
    <3>4. Len(s) = k - 1 /\ \A i \in 1 .. k - 1 : s[i] = in[i]
      BY <1>2, <3>2
    <3>5. \A i \in DOMAIN s : s[i].start <= in[k].start
      BY <3>2, <3>3, <3>4, RisingIs
    <3>6. f[k] = Append(s, in[k])
      <4>1. f[k] = Inserted(s, in[k])
        BY <1>1, <1>2, <3>1, <3>3
      <4> QED
        BY <3>2, <3>3, <3>5, <4>1, InsertedKeeps
    <3>7. SubSeq(in, 1, k) = Append(SubSeq(in, 1, k - 1), in[k])
      <4>1. SubSeq(in, 1, k) = SubSeq(in, 1, k - 1) \o <<in[k]>>
        BY <1>2, SubSeqRecursiveSecond
      <4> QED
        BY <3>2, <3>3, <4>1, AppendIsConcat DEF Rising
    <3>8. k \in 0 .. n
      BY <1>2
    <3> QED
      BY <3>2, <3>6, <3>7, <3>8, Zenon
  <2> HIDE DEF D
  <2>3. 0 .. n \subseteq D
    BY <2>1, <2>2, UpTo
  <2> USE DEF D
  <2>4. n \in 0 .. n /\ SubSeq(in, 1, n) = in
    BY <1>2, SubSeqFull
  <2> QED
    BY <2>3, <2>4
<1>8. f[n] \in Rising
  BY <1>1, <1>2
<1> QED
  BY <1>1, <1>2, <1>6, <1>7, <1>8

(* A range joined to the others adds its bytes, if it starts no earlier than *)
(* the last of them.                                                         *)
LEMMA JoinedKeeps ==
  ASSUME NEW s \in Seq(Ranges), NEW e \in Ranges
  PROVE  /\ Joined(s, e) \in Seq(Ranges) /\ Joined(s, e) # <<>>
         /\ s = <<>> \/ s[Len(s)].start <= e.start =>
              /\ Bytes(Joined(s, e)) = Bytes(s) \cup Of(e)
              /\ Joined(s, e)[Len(Joined(s, e))].start <= e.start
<1>1. PICK n \in Nat : n = Len(s)
  OBVIOUS
<1>2. e.start \in Nat /\ e.len \in Nat \ {0} /\ End(e) = e.start + e.len /\ Of(e) = e.start .. End(e) - 1
  BY RangeIs DEF End, Of
<1>3. CASE s # <<>> /\ e.start <= End(s[Len(s)])
  <2>1. n \in 1 .. n /\ n \in 1 .. Len(s) /\ DOMAIN s = 1 .. n
    BY <1>1, <1>3, EmptySeq
  <2>2. PICK l \in Ranges : l = s[n]
    BY <1>1, <2>1
  <2>3. l.start \in Nat /\ l.len \in Nat \ {0} /\ End(l) = l.start + l.len /\ Of(l) = l.start .. End(l) - 1
    BY RangeIs DEF End, Of
  <2>4. PICK m : m = Greater(l.len, End(e) - l.start)
    OBVIOUS
  <2>5. /\ m \in Nat \ {0} /\ l.len <= m /\ End(e) <= l.start + m
        /\ m = l.len \/ m = End(e) - l.start
    BY <1>2, <2>3, <2>4 DEF Greater
  <2>6. PICK k : k = [l EXCEPT !.len = m]
    OBVIOUS
  <2>7. k \in Ranges /\ k.start = l.start /\ k.len = m
    BY <2>2, <2>5, <2>6 DEF Ranges
  <2>8. Joined(s, e) = [s EXCEPT ![n] = k]
    BY <1>1, <1>3, <2>2, <2>4, <2>6 DEF Joined
  <2>9. PICK r : r = Joined(s, e)
    OBVIOUS
  <2>10. r \in Seq(Ranges) /\ Len(r) = n /\ \A j \in 1 .. n : r[j] = IF j = n THEN k ELSE s[j]
    BY <1>1, <2>1, <2>7, <2>8, <2>9, ExceptSeq
  <2>11. r # <<>> /\ r[Len(r)].start = l.start
    BY <2>1, <2>7, <2>10
  <2>12. ASSUME s = <<>> \/ s[Len(s)].start <= e.start
         PROVE  Bytes(r) = Bytes(s) \cup Of(e) /\ r[Len(r)].start <= e.start
    <3>1. l.start <= e.start /\ e.start <= End(l)
      BY <1>1, <1>3, <2>2, <2>12
    <3>2. Of(k) = Of(l) \cup Of(e)
      <4>1. Of(k) = l.start .. End(k) - 1 /\ End(k) = l.start + m
        BY <2>7 DEF Of, End
      <4>2. PICK a \in Nat, b \in Nat, x \in Nat, y \in Nat :
              a = l.start /\ b = End(l) /\ x = e.start /\ y = End(e)
        BY <1>2, <2>3
      <4>3. End(k) = b \/ End(k) = y
        BY <1>2, <2>3, <2>5, <4>1, <4>2
      <4>7. a <= x /\ x <= b /\ y <= a + m /\ m \in Nat
        BY <2>5, <3>1, <4>2
      <4>8. b <= a + m
        BY <2>3, <2>5, <4>2
      <4>5. PICK z \in Nat : z = End(k)
        BY <4>1, <4>2, <4>7
      <4>4. b <= z /\ y <= z /\ a <= x /\ x <= b
        BY <4>1, <4>2, <4>5, <4>7, <4>8
      <4>6. a .. z - 1 = (a .. b - 1) \cup (x .. y - 1)
        BY <4>3, <4>4, <4>5
      <4> QED
        BY <1>2, <2>3, <4>1, <4>2, <4>5, <4>6
    <3>3. \A x : x \in Bytes(r) <=> \E j \in 1 .. n : x \in Of(r[j])
      BY <2>10 DEF Bytes, Of
    <3>4. \A x : x \in Bytes(s) <=> \E j \in 1 .. n : x \in Of(s[j])
      BY <2>1 DEF Bytes, Of
    <3>5. \A x : x \in Bytes(r) <=> x \in Bytes(s) \/ x \in Of(e)
      BY <2>1, <2>2, <2>10, <3>2, <3>3, <3>4
    <3> QED
      BY <2>11, <3>1, <3>5
  <2> QED
    BY <2>9, <2>10, <2>11, <2>12
<1>4. CASE ~(s # <<>> /\ e.start <= End(s[Len(s)]))
  <2>1. Joined(s, e) = Append(s, e)
    BY <1>4 DEF Joined
  <2>2. PICK r : r = Append(s, e)
    OBVIOUS
  <2>3. r \in Seq(Ranges) /\ Len(r) = n + 1 /\ \A j \in 1 .. n + 1 : r[j] = IF j = n + 1 THEN e ELSE s[j]
    BY <1>1, <2>2, AppendProperties
  <2>4. r # <<>> /\ r[Len(r)] = e
    BY <1>1, <2>3
  <2>5. \A x : x \in Bytes(r) <=> \E j \in 1 .. n + 1 : x \in Of(r[j])
    BY <2>3 DEF Bytes, Of
  <2>6. \A x : x \in Bytes(s) <=> \E j \in 1 .. n : x \in Of(s[j])
    BY <1>1 DEF Bytes, Of
  <2>7. \A j \in 1 .. n : j \in 1 .. n + 1 /\ j # n + 1
    BY <1>1
  <2>8. \A j \in 1 .. n + 1 : j = n + 1 \/ j \in 1 .. n
    BY <1>1
  <2>9. n + 1 \in 1 .. n + 1
    BY <1>1
  <2>10. \A x : x \in Bytes(r) <=> x \in Bytes(s) \/ x \in Of(e)
    BY <2>3, <2>5, <2>6, <2>7, <2>8, <2>9
  <2> QED
    BY <1>2, <2>1, <2>2, <2>3, <2>4, <2>10
<1> QED
  BY <1>3, <1>4

LEMMA JoinedUnfold ==
  ASSUME NEW kept \in Rising
  PROVE  \E f \in [0 .. Len(kept) -> Seq(Ranges)] :
           /\ AllJoined(kept) = f[Len(kept)] /\ f[0] = <<>>
           /\ \A k \in 1 .. Len(kept) : f[k] = Joined(f[k - 1], kept[k])
<1> DEFINE M(k, s) == Joined(s, kept[k])
           n == Len(kept)
           a == <<>>
           P(f) == f = [k \in 0 .. n |-> IF k = 0 THEN a ELSE M(k, f[k - 1])]
           G == [k \in 1 .. n |-> [s \in Seq(Ranges) |-> M(k, s)]]
           g == CHOOSE f : P(f)
<1>1. n \in Nat /\ a \in Seq(Ranges)
  BY RisingIs
<1>2. \A k \in 1 .. n : \A s \in Seq(Ranges) : M(k, s) \in Seq(Ranges)
  BY RisingIs, JoinedKeeps
<1>3. AllJoined(kept) = g[n]
  BY DEF AllJoined
<1> HIDE DEF M, n, g, a
<1>4. Steps(n, Seq(Ranges), a, G)
  BY <1>1, <1>2 DEF Steps
<1>5. PICK f : Solution(n, Seq(Ranges), a, G, f)
  <2> HIDE DEF G
  <2> QED
    BY <1>1, <1>4, NatRecursion
<1>6. f \in [0 .. n -> Seq(Ranges)] /\ f[0] = a /\ \A i \in 1 .. n : f[i] = M(i, f[i - 1])
  BY <1>5 DEF Solution
<1>7. P(f)
  BY <1>1, <1>6
<1>8. P(g)
  <2> HIDE DEF P
  <2> QED
    BY <1>7 DEF g
<1>9. g = f
  <2>1. g = [k \in 0 .. n |-> IF k = 0 THEN a ELSE M(k, g[k - 1])]
    BY <1>8
  <2>2. \A k \in 0 .. n : g[k] = IF k = 0 THEN a ELSE M(k, g[k - 1])
    BY <2>1
  <2>3. /\ g = [k \in 0 .. n |-> g[k]] /\ g[0] = a
        /\ \A k \in 1 .. n : g[k] = M(k, g[k - 1])
    BY SMTT(30), <1>1, <2>1, <2>2
  <2>4. \A k \in 1 .. n : g[k - 1] \in Seq(Ranges) => g[k] = G[k][g[k - 1]]
    BY <2>3
  <2>5. Solves(n, Seq(Ranges), a, G, g)
    BY <2>3, <2>4 DEF Solves
  <2> HIDE DEF G, P
  <2> QED
    BY <1>1, <1>4, <1>5, <2>5, NatRecursionUnique
<1> QED
  BY <1>3, <1>6, <1>9 DEF M, n, a

LEMMA Joining ==
  ASSUME NEW kept \in Rising
  PROVE  AllJoined(kept) \in Seq(Ranges) /\ Bytes(AllJoined(kept)) = Bytes(kept)
<1>1. PICK f \in [0 .. Len(kept) -> Seq(Ranges)] :
           /\ AllJoined(kept) = f[Len(kept)] /\ f[0] = <<>>
           /\ \A k \in 1 .. Len(kept) : f[k] = Joined(f[k - 1], kept[k])
  BY JoinedUnfold
<1>2. PICK n \in Nat : n = Len(kept)
  BY RisingIs
<1>3. /\ \A k \in 1 .. n : f[k - 1] \in Seq(Ranges) /\ f[k] \in Seq(Ranges) /\ kept[k] \in Ranges
      /\ \A i, j \in 1 .. n : i <= j => kept[i].start <= kept[j].start
      /\ \A i \in 1 .. n : kept[i].start \in Nat
      /\ DOMAIN kept = 1 .. n
  <2>1. \A k \in 1 .. n : k - 1 \in 0 .. n /\ k \in 0 .. n
    BY <1>2
  <2> QED
    BY <1>1, <1>2, <2>1, RisingIs
<1> DEFINE Upto(k) == UNION {Of(kept[i]) : i \in 1 .. k}
           E == {k \in 0 .. n : /\ Bytes(f[k]) = Upto(k)
                                /\ k = 0 => f[k] = <<>>
                                /\ k # 0 => f[k] # <<>> /\ f[k][Len(f[k])].start <= kept[k].start}
<1>4. 0 \in E
  BY <1>1, <1>2 DEF Bytes
<1>5. ASSUME NEW k \in 1 .. n, k - 1 \in E PROVE k \in E
  <2>1. PICK s \in Seq(Ranges) : s = f[k - 1]
    BY <1>3
  <2>2. f[k] = Joined(s, kept[k]) /\ kept[k] \in Ranges
    BY <1>1, <1>2, <1>3, <2>1
  <2>3. s = <<>> \/ s[Len(s)].start <= kept[k].start
    <3>1. CASE k - 1 = 0
      BY <1>5, <2>1, <3>1
    <3>2. CASE k - 1 # 0
      <4>1. k - 1 \in 1 .. n /\ s # <<>> /\ s[Len(s)].start <= kept[k - 1].start
        BY <1>5, <2>1, <3>2
      <4>2. kept[k - 1].start <= kept[k].start /\ kept[k].start \in Nat /\ kept[k - 1].start \in Nat
        BY SMTT(30), <1>3, <4>1
      <4>3. s[Len(s)].start \in Nat
        BY <4>1, EmptySeq, RangeIs
      <4> QED
        BY <4>1, <4>2, <4>3
    <3> QED
      BY <3>1, <3>2
  <2>4. Bytes(f[k]) = Bytes(s) \cup Of(kept[k]) /\ f[k] # <<>> /\ f[k][Len(f[k])].start <= kept[k].start
    BY <2>2, <2>3, JoinedKeeps
  <2>5. Upto(k) = Upto(k - 1) \cup Of(kept[k])
    <3>1. 1 .. k = (1 .. k - 1) \cup {k}
      BY <1>2
    <3> QED
      BY <3>1
  <2>6. Bytes(s) = Upto(k - 1)
    BY <1>5, <2>1
  <2>7. k \in 0 .. n /\ k # 0 /\ Bytes(f[k]) = Upto(k)
    <3> HIDE DEF Upto
    <3> QED
      BY <2>4, <2>5, <2>6
  <2> HIDE DEF Upto
  <2> QED
    BY <2>4, <2>7
<1>6. 0 .. n \subseteq E
  <2> HIDE DEF E
  <2> QED
    BY <1>4, <1>5, UpTo
<1>7. Bytes(f[n]) = Bytes(kept)
  <2>1. n \in 0 .. n
    BY <1>2
  <2> QED
    BY <1>3, <1>6, <2>1 DEF Bytes, Of
<1> QED
  BY <1>1, <1>2, <1>7

(* Merging loses no byte and adds none.                                      *)
LEMMA Merging ==
  ASSUME NEW in \in Seq(Pieces)
  PROVE  mergeExtents(in) \in Seq(Ranges) /\ Bytes(mergeExtents(in)) = Bytes(in)
  BY Sorting, Joining DEF mergeExtents

(* A free block joins the run before it, or begins one.                      *)
LEMMA RunKeeps ==
  ASSUME NEW s \in Seq(Ranges), NEW b \in Nat
  PROVE  Run(s, b) \in Seq(Ranges) /\ Bytes(Run(s, b)) = Bytes(s) \cup {2 * b, 2 * b + 1}
<1>1. PICK n \in Nat : n = Len(s)
  OBVIOUS
<1>2. PICK e \in Ranges : e = FSExtent(2 * b, 2)
  <2>1. PICK a \in Nat : a = 2 * b
    OBVIOUS
  <2>2. FSExtent(a, 2) \in Ranges
    BY DEF Ranges, FSExtent
  <2> QED
    BY <2>1, <2>2
<1>3. Of(e) = {2 * b, 2 * b + 1}
  <2>1. PICK a \in Nat : a = 2 * b
    OBVIOUS
  <2>2. e.start = a /\ e.len = 2
    BY <1>2, <2>1 DEF FSExtent
  <2>3. Of(e) = a .. a + 1
    BY <2>2 DEF Of, End
  <2>4. a .. a + 1 = {a, a + 1}
    OBVIOUS
  <2> QED
    BY <2>1, <2>3, <2>4
<1>4. CASE s # <<>> /\ End(s[Len(s)]) = 2 * b
  <2>1. n \in 1 .. n /\ n \in 1 .. Len(s) /\ DOMAIN s = 1 .. n
    BY <1>1, <1>4, EmptySeq
  <2>2. PICK l \in Ranges : l = s[n]
    BY <1>1, <2>1
  <2>3. l.start \in Nat /\ l.len \in Nat \ {0} /\ l.start + l.len = 2 * b /\ Of(l) = l.start .. 2 * b - 1
    BY <1>1, <1>4, <2>2, RangeIs DEF End, Of
  <2>4. PICK m \in Nat : m = l.len + 2
    BY <2>3
  <2>5. PICK k : k = [l EXCEPT !.len = m]
    OBVIOUS
  <2>6. k \in Ranges /\ k.start = l.start /\ k.len = m
    <3>1. m \in Nat \ {0}
      BY <2>3, <2>4
    <3> QED
      BY <2>2, <2>5, <3>1 DEF Ranges
  <2>7. Run(s, b) = [s EXCEPT ![n] = k]
    BY <1>1, <1>4, <2>2, <2>4, <2>5 DEF Run
  <2>8. PICK r : r = Run(s, b)
    OBVIOUS
  <2>9. r \in Seq(Ranges) /\ Len(r) = n /\ \A j \in 1 .. n : r[j] = IF j = n THEN k ELSE s[j]
    BY <1>1, <2>1, <2>6, <2>7, <2>8, ExceptSeq
  <2>10. Of(k) = Of(l) \cup {2 * b, 2 * b + 1}
    <3>1. PICK a \in Nat, c \in Nat : a = l.start /\ c = 2 * b
      BY <2>3
    <3>5. PICK d \in Nat \ {0} : d = l.len
      BY <2>3
    <3>6. a + d = c
      BY <2>3, <3>1, <3>5
    <3>7. m = d + 2
      BY <2>4, <3>5
    <3>2. a < c /\ a + m = c + 2
      BY <3>6, <3>7
    <3>3. Of(k) = a .. c + 1
      BY <2>6, <3>1, <3>2 DEF Of, End
    <3>4. a .. c + 1 = (a .. c - 1) \cup {c, c + 1}
      BY <3>2
    <3> QED
      BY <2>3, <3>1, <3>3, <3>4
  <2>11. \A x : x \in Bytes(r) <=> \E j \in 1 .. n : x \in Of(r[j])
    BY <2>9 DEF Bytes, Of
  <2>12. \A x : x \in Bytes(s) <=> \E j \in 1 .. n : x \in Of(s[j])
    BY <2>1 DEF Bytes, Of
  <2>13. \A x : x \in Bytes(r) <=> x \in Bytes(s) \/ x \in {2 * b, 2 * b + 1}
    BY <2>1, <2>2, <2>9, <2>10, <2>11, <2>12
  <2> QED
    BY <2>8, <2>9, <2>13
<1>5. CASE ~(s # <<>> /\ End(s[Len(s)]) = 2 * b)
  <2>1. Run(s, b) = Append(s, e)
    BY <1>2, <1>5 DEF Run
  <2>2. PICK r : r = Append(s, e)
    OBVIOUS
  <2>3. r \in Seq(Ranges) /\ Len(r) = n + 1 /\ \A j \in 1 .. n + 1 : r[j] = IF j = n + 1 THEN e ELSE s[j]
    BY <1>1, <2>2, AppendProperties
  <2>5. \A x : x \in Bytes(r) <=> \E j \in 1 .. n + 1 : x \in Of(r[j])
    BY <2>3 DEF Bytes, Of
  <2>6. \A x : x \in Bytes(s) <=> \E j \in 1 .. n : x \in Of(s[j])
    BY <1>1 DEF Bytes, Of
  <2>7. \A j \in 1 .. n : j \in 1 .. n + 1 /\ j # n + 1
    BY <1>1
  <2>8. \A j \in 1 .. n + 1 : j = n + 1 \/ j \in 1 .. n
    BY <1>1
  <2>9. n + 1 \in 1 .. n + 1
    BY <1>1
  <2>10. \A x : x \in Bytes(r) <=> x \in Bytes(s) \/ x \in Of(e)
    BY <2>3, <2>5, <2>6, <2>7, <2>8, <2>9
  <2> QED
    BY <1>3, <2>1, <2>2, <2>3, <2>10
<1> QED
  BY <1>4, <1>5

RunsAre(n, free, f) ==
  /\ f \in [0 .. n -> Seq(Ranges)]
  /\ FreeRuns(n, free) = f[n] /\ f[0] = <<>>
  /\ \A k \in 1 .. n : f[k] = IF k - 1 \in free THEN Run(f[k - 1], k - 1) ELSE f[k - 1]

LEMMA RunsUnfold ==
  ASSUME NEW n \in Nat, NEW free
  PROVE  \E f : RunsAre(n, free, f)
<1> DEFINE M(k, s) == IF k - 1 \in free THEN Run(s, k - 1) ELSE s
           a == <<>>
           P(f) == f = [k \in 0 .. n |-> IF k = 0 THEN a ELSE M(k, f[k - 1])]
           G == [k \in 1 .. n |-> [s \in Seq(Ranges) |-> M(k, s)]]
           g == CHOOSE f : P(f)
<1>1. n \in Nat /\ a \in Seq(Ranges)
  OBVIOUS
<1>2. \A k \in 1 .. n : \A s \in Seq(Ranges) : M(k, s) \in Seq(Ranges)
  BY RunKeeps
<1>3. FreeRuns(n, free) = g[n]
  BY DEF FreeRuns
<1> HIDE DEF M, g, a
<1>4. Steps(n, Seq(Ranges), a, G)
  BY <1>1, <1>2 DEF Steps
<1>5. PICK f : Solution(n, Seq(Ranges), a, G, f)
  <2> HIDE DEF G
  <2> QED
    BY <1>1, <1>4, NatRecursion
<1>6. f \in [0 .. n -> Seq(Ranges)] /\ f[0] = a /\ \A i \in 1 .. n : f[i] = M(i, f[i - 1])
  BY <1>5 DEF Solution
<1>7. P(f)
  BY <1>1, <1>6
<1>8. P(g)
  <2> HIDE DEF P
  <2> QED
    BY <1>7 DEF g
<1>9. g = f
  <2>1. g = [k \in 0 .. n |-> IF k = 0 THEN a ELSE M(k, g[k - 1])]
    BY <1>8
  <2>2. \A k \in 0 .. n : g[k] = IF k = 0 THEN a ELSE M(k, g[k - 1])
    BY <2>1
  <2>3. /\ g = [k \in 0 .. n |-> g[k]] /\ g[0] = a
        /\ \A k \in 1 .. n : g[k] = M(k, g[k - 1])
    BY SMTT(30), <1>1, <2>1, <2>2
  <2>4. \A k \in 1 .. n : g[k - 1] \in Seq(Ranges) => g[k] = G[k][g[k - 1]]
    BY <2>3
  <2>5. Solves(n, Seq(Ranges), a, G, g)
    BY <2>3, <2>4 DEF Solves
  <2> HIDE DEF G, P
  <2> QED
    BY <1>1, <1>4, <1>5, <2>5, NatRecursionUnique
<1> QED
  BY <1>3, <1>6, <1>9 DEF M, a, RunsAre

(* The runs are exactly the free blocks.                                     *)
LEMMA RunsExact ==
  ASSUME NEW n \in Nat, NEW free
  PROVE  Bytes(FreeRuns(n, free)) = UNION {{2 * b, 2 * b + 1} : b \in free \cap (0 .. n - 1)}
<1>5. PICK f : RunsAre(n, free, f)
  BY RunsUnfold
<1>1. /\ f \in [0 .. n -> Seq(Ranges)] /\ FreeRuns(n, free) = f[n] /\ f[0] = <<>>
      /\ \A k \in 1 .. n : f[k] = IF k - 1 \in free THEN Run(f[k - 1], k - 1) ELSE f[k - 1]
  BY <1>5 DEF RunsAre
<1> DEFINE Below2(k) == UNION {{2 * b, 2 * b + 1} : b \in free \cap (0 .. k - 1)}
           E == {k \in 0 .. n : Bytes(f[k]) = Below2(k)}
<1>2. 0 \in E
  BY <1>1 DEF Bytes
<1>3. ASSUME NEW k \in 1 .. n, k - 1 \in E PROVE k \in E
  <2>1. f[k - 1] \in Seq(Ranges) /\ k - 1 \in Nat
    BY <1>1
  <2>2. 0 .. k - 1 = (0 .. (k - 1) - 1) \cup {k - 1}
    OBVIOUS
  <2>3. CASE k - 1 \in free
    <3>1. Bytes(f[k]) = Bytes(f[k - 1]) \cup {2 * (k - 1), 2 * (k - 1) + 1}
      BY <1>1, <2>1, <2>3, RunKeeps
    <3>2. Below2(k) = Below2(k - 1) \cup {2 * (k - 1), 2 * (k - 1) + 1}
      <4>1. free \cap (0 .. k - 1) = (free \cap (0 .. (k - 1) - 1)) \cup {k - 1}
        BY <2>2, <2>3
      <4> QED
        BY <4>1, Zenon
    <3>3. Bytes(f[k]) = Below2(k)
      <4> HIDE DEF Below2
      <4> QED
        BY <1>3, <3>1, <3>2
    <3> HIDE DEF Below2
    <3> QED
      BY <3>3
  <2>4. CASE k - 1 \notin free
    <3>1. Bytes(f[k]) = Bytes(f[k - 1])
      BY <1>1, <2>4
    <3>2. free \cap (0 .. k - 1) = free \cap (0 .. (k - 1) - 1)
      BY <2>2, <2>4
    <3>3. Below2(k) = Below2(k - 1)
      BY <3>2, Zenon
    <3> HIDE DEF Below2
    <3> QED
      BY <1>3, <3>1, <3>3
  <2> QED
    BY <2>3, <2>4
<1>4. 0 .. n \subseteq E
  <2> HIDE DEF E
  <2> QED
    BY <1>2, <1>3, UpTo
<1> QED
  BY <1>1, <1>4

-----------------------------------------------------------------------------
(* The records of an NTFS volume and the files they are of.                  *)

Cs == 1 .. NtfsClusters
Files == [base : Numbers, ext : 0 .. Records, runs : Seq(Cs), live : BOOLEAN]
Rows  == [inUse : BOOLEAN, base : Nat, file : Nat, runs : Seq(Cs)]

(* Record n is one of the file id, as the file was made.                     *)
Holds(n, id) ==
  /\ mft[n].file = id /\ mft[n].inUse = ntfsMade[id].live
  /\ \/ n = ntfsMade[id].base /\ mft[n].base = 0 /\ mft[n].runs = <<ntfsMade[id].runs[1]>>
     \/ /\ n = ntfsMade[id].ext /\ mft[n].base = ntfsMade[id].base
        /\ mft[n].runs = <<ntfsMade[id].runs[2]>>

NtfsInv ==
  /\ ntfsMade \in Seq(Files) /\ mft \in [Numbers -> Rows]
  /\ \A id \in DOMAIN ntfsMade : /\ ntfsMade[id].ext # ntfsMade[id].base
                                 /\ Len(ntfsMade[id].runs) = IF ntfsMade[id].ext = 0 THEN 1 ELSE 2
  /\ \A n \in Numbers : mft[n] = Blank \/ \E id \in DOMAIN ntfsMade : Holds(n, id)
  /\ \A id \in DOMAIN ntfsMade : ntfsMade[id].live =>
       \A n \in {ntfsMade[id].base, ntfsMade[id].ext} \ {0} : mft[n].file = id

LEMMA NtfsStart == NtfsInit => NtfsInv
<1> SUFFICES ASSUME NtfsInit PROVE NtfsInv
  OBVIOUS
<1>1. Blank \in Rows
  BY DEF Blank, Rows
<1> QED
  BY <1>1 DEF NtfsInit, NtfsInv

(* Which file a record is of is what it says.                                *)
LEMMA RowIs ==
  ASSUME NtfsInv, NEW n \in Numbers, NEW i \in DOMAIN ntfsMade, mft[n].file = i
  PROVE  mft[n] # Blank /\ Holds(n, i)
<1>1. i # 0
  BY DEF NtfsInv
<1>2. mft[n] # Blank
  BY <1>1 DEF Blank
<1>3. PICK j \in DOMAIN ntfsMade : Holds(n, j)
  BY <1>2 DEF NtfsInv
<1> QED
  BY <1>2, <1>3 DEF Holds

LEMMA MadeIs ==
  ASSUME NtfsInv, NEW i \in DOMAIN ntfsMade
  PROVE  /\ ntfsMade[i] \in Files /\ i \in Nat \ {0}
         /\ ntfsMade[i].base \in Numbers /\ ntfsMade[i].ext \in 0 .. Records
         /\ ntfsMade[i].runs \in Seq(Cs) /\ ntfsMade[i].live \in BOOLEAN
         /\ ntfsMade[i].ext # ntfsMade[i].base
         /\ Len(ntfsMade[i].runs) = IF ntfsMade[i].ext = 0 THEN 1 ELSE 2
         /\ {ntfsMade[i].base, ntfsMade[i].ext} \ {0} \subseteq Numbers
         /\ 0 \notin Numbers
<1>1. ntfsMade[i] \in Files /\ i \in Nat \ {0} /\ ntfsMade[i].ext # ntfsMade[i].base
      /\ Len(ntfsMade[i].runs) = IF ntfsMade[i].ext = 0 THEN 1 ELSE 2
  BY DEF NtfsInv
<1>2. /\ ntfsMade[i].base \in Numbers /\ ntfsMade[i].ext \in 0 .. Records
      /\ ntfsMade[i].runs \in Seq(Cs) /\ ntfsMade[i].live \in BOOLEAN
  BY <1>1 DEF Files
<1>3. {ntfsMade[i].base, ntfsMade[i].ext} \ {0} \subseteq Numbers /\ 0 \notin Numbers
  BY <1>2, NtfsAssumption DEF Numbers
<1> QED
  BY <1>1, <1>2, <1>3

LEMMA LiveRow ==
  ASSUME NtfsInv, NEW i \in DOMAIN ntfsMade, ntfsMade[i].live,
         NEW n \in {ntfsMade[i].base, ntfsMade[i].ext} \ {0}
  PROVE  n \in Numbers /\ mft[n].file = i /\ mft[n].inUse
<1>1. n \in Numbers
  BY MadeIs
<1>2. mft[n].file = i
  BY DEF NtfsInv
<1> QED
  BY <1>1, <1>2, RowIs DEF Holds

LEMMA CreateRecord ==
  ASSUME NtfsInv, NtfsCreate PROVE NtfsInv'
<1>1. PICK id \in Nat \ {0} : id = Len(ntfsMade) + 1
  BY DEF NtfsInv
<1>2. PICK b \in UnusedRecords, c \in NtfsFree :
        /\ mft' = [mft EXCEPT ![b] = Row(0, id, c)]
        /\ ntfsMade' = Append(ntfsMade, [base |-> b, ext |-> 0, runs |-> <<c>>, live |-> TRUE])
  BY <1>1 DEF NtfsCreate
<1>3. b \in Numbers /\ ~mft[b].inUse /\ c \in Cs /\ <<c>> \in Seq(Cs) /\ Len(<<c>>) = 1 /\ <<c>>[1] = c
  BY DEF UnusedRecords, NtfsFree, Cs
<1>4. PICK f : f = [base |-> b, ext |-> 0, runs |-> <<c>>, live |-> TRUE]
  OBVIOUS
<1>5. b # 0 /\ 0 \in 0 .. Records
  BY <1>3, NtfsAssumption DEF Numbers
<1>6. f \in Files /\ f.base = b /\ f.ext = 0 /\ f.runs = <<c>> /\ f.live = TRUE
  BY <1>3, <1>4, <1>5 DEF Files
<1>7. PICK r : r = Row(0, id, c)
  OBVIOUS
<1>8. r \in Rows /\ r.file = id /\ r.base = 0 /\ r.runs = <<c>> /\ r.inUse = TRUE
  BY <1>3, <1>7 DEF Rows, Row
<1>9. /\ ntfsMade' \in Seq(Files) /\ DOMAIN ntfsMade' = DOMAIN ntfsMade \cup {id} /\ id \notin DOMAIN ntfsMade
      /\ ntfsMade'[id] = f /\ \A i \in DOMAIN ntfsMade : ntfsMade'[i] = ntfsMade[i]
  <2>1. ntfsMade \in Seq(Files) /\ ntfsMade' = Append(ntfsMade, f)
    BY <1>2, <1>4 DEF NtfsInv
  <2>2. /\ ntfsMade' \in Seq(Files) /\ Len(ntfsMade') = id
        /\ \A i \in 1 .. id : ntfsMade'[i] = IF i = id THEN f ELSE ntfsMade[i]
    BY <1>1, <1>6, <2>1, AppendProperties
  <2>3. DOMAIN ntfsMade' = 1 .. id /\ DOMAIN ntfsMade = 1 .. id - 1
    BY <1>1, <2>1, <2>2
  <2>4. 1 .. id = (1 .. id - 1) \cup {id} /\ id \notin 1 .. id - 1
    BY <1>1
  <2> QED
    BY <2>2, <2>3, <2>4
<1>10. mft' \in [Numbers -> Rows] /\ mft'[b] = r /\ \A n \in Numbers : n # b => mft'[n] = mft[n]
  BY <1>2, <1>3, <1>7, <1>8 DEF NtfsInv
<1>11. \A i \in DOMAIN ntfsMade' : /\ ntfsMade'[i].ext # ntfsMade'[i].base
                                   /\ Len(ntfsMade'[i].runs) = IF ntfsMade'[i].ext = 0 THEN 1 ELSE 2
  <2>1. SUFFICES ASSUME NEW i \in DOMAIN ntfsMade'
                 PROVE  /\ ntfsMade'[i].ext # ntfsMade'[i].base
                        /\ Len(ntfsMade'[i].runs) = IF ntfsMade'[i].ext = 0 THEN 1 ELSE 2
    OBVIOUS
  <2>2. CASE i = id
    BY <1>3, <1>5, <1>6, <1>9, <2>2
  <2>3. CASE i # id
    <3>1. i \in DOMAIN ntfsMade /\ ntfsMade'[i] = ntfsMade[i]
      BY <1>9, <2>3
    <3> QED
      BY <3>1 DEF NtfsInv
  <2> QED
    BY <2>2, <2>3
<1>12. ASSUME NEW n \in Numbers PROVE mft'[n] = Blank \/ \E i \in DOMAIN ntfsMade' : Holds(n, i)'
  <2>1. CASE n = b
    <3>1. Holds(n, id)'
      BY <1>3, <1>6, <1>8, <1>9, <1>10, <2>1 DEF Holds
    <3> QED
      BY <1>9, <3>1
  <2>2. CASE n # b
    <3>1. CASE mft[n] = Blank
      BY <1>10, <2>2, <3>1
    <3>2. CASE \E i \in DOMAIN ntfsMade : Holds(n, i)
      <4>1. PICK i \in DOMAIN ntfsMade : Holds(n, i)
        BY <3>2
      <4>2. Holds(n, i)'
        BY <1>9, <1>10, <2>2, <4>1 DEF Holds
      <4> QED
        BY <1>9, <4>2
    <3> QED
      BY <3>1, <3>2 DEF NtfsInv
  <2> QED
    BY <2>1, <2>2
<1>13. ASSUME NEW i \in DOMAIN ntfsMade', ntfsMade'[i].live,
              NEW n \in {ntfsMade'[i].base, ntfsMade'[i].ext} \ {0}
       PROVE  mft'[n].file = i
  <2>1. CASE i = id
    BY <1>6, <1>8, <1>9, <1>10, <1>13, <2>1
  <2>2. CASE i # id
    <3>1. i \in DOMAIN ntfsMade /\ ntfsMade'[i] = ntfsMade[i] /\ ntfsMade[i] \in Files
      BY <1>9, <2>2 DEF NtfsInv
    <3>2. n \in Numbers /\ mft[n].file = i /\ mft[n].inUse
      BY <1>13, <3>1, LiveRow
    <3>3. n # b
      BY <1>3, <3>2
    <3> QED
      BY <1>10, <3>2, <3>3
  <2> QED
    BY <2>1, <2>2
<1> QED
  BY <1>9, <1>10, <1>11, <1>12, <1>13 DEF NtfsInv

LEMMA AppendOne ==
  ASSUME NEW S, NEW rs \in Seq(S), Len(rs) = 1, NEW c \in S
  PROVE  /\ Append(rs, c) \in Seq(S) /\ Len(Append(rs, c)) = 2
         /\ Append(rs, c)[1] = rs[1] /\ Append(rs, c)[2] = c
<1>0. Append(rs, c) \in Seq(S) /\ Len(Append(rs, c)) = Len(rs) + 1
  BY AppendProperties
<1>1. Append(rs, c) \in Seq(S) /\ Len(Append(rs, c)) = 2
  BY <1>0
<1>2. Append(rs, c)[1] = rs[1] /\ Append(rs, c)[2] = c
  BY AppendProperties
<1> QED
  BY <1>1, <1>2

LEMMA GrowRecord ==
  ASSUME NtfsInv, Grow PROVE NtfsInv'
<1>1. PICK id \in DOMAIN ntfsMade, e \in UnusedRecords, c \in NtfsFree :
        /\ ntfsMade[id].live /\ ntfsMade[id].ext = 0
        /\ mft' = [mft EXCEPT ![e] = Row(ntfsMade[id].base, id, c)]
        /\ ntfsMade' = [ntfsMade EXCEPT ![id].ext = e, ![id].runs = Append(@, c)]
  BY DEF Grow
<1>2. e \in Numbers /\ ~mft[e].inUse /\ c \in Cs /\ <<c>> \in Seq(Cs)
  BY <1>1 DEF UnusedRecords, NtfsFree, Cs
<1>3. PICK f : f = ntfsMade[id]
  OBVIOUS
<1>4. /\ f \in Files /\ f.base \in Numbers /\ f.ext = 0 /\ f.runs \in Seq(Cs) /\ Len(f.runs) = 1
      /\ f.live \in BOOLEAN /\ f.live = TRUE /\ id \in Nat \ {0} /\ 0 \notin Numbers
  BY <1>1, <1>3, MadeIs
<1>5. PICK g : g = [f EXCEPT !.ext = e, !.runs = Append(f.runs, c)]
  OBVIOUS
<1>6. Append(f.runs, c) \in Seq(Cs) /\ Len(Append(f.runs, c)) = 2
      /\ Append(f.runs, c)[1] = f.runs[1] /\ Append(f.runs, c)[2] = c
  BY <1>2, <1>4, AppendOne
<1>7. g \in Files /\ g.base = f.base /\ g.ext = e /\ g.runs = Append(f.runs, c) /\ g.live = TRUE
  <2>1. e \in 0 .. Records
    BY <1>2 DEF Numbers
  <2> QED
    BY <1>4, <1>5, <1>6, <2>1 DEF Files
<1>8. ntfsMade' = [ntfsMade EXCEPT ![id] = g]
  BY <1>1, <1>3, <1>5
<1>9. /\ ntfsMade' \in Seq(Files) /\ DOMAIN ntfsMade' = DOMAIN ntfsMade
      /\ ntfsMade'[id] = g /\ \A i \in DOMAIN ntfsMade : i # id => ntfsMade'[i] = ntfsMade[i]
  <2>1. ntfsMade \in Seq(Files) /\ id \in 1 .. Len(ntfsMade)
    BY DEF NtfsInv
  <2> QED
    BY <1>7, <1>8, <2>1, ExceptSeq
<1>10. PICK r : r = Row(f.base, id, c)
  OBVIOUS
<1>11. r \in Rows /\ r.file = id /\ r.base = f.base /\ r.runs = <<c>> /\ r.inUse = TRUE
  <2>1. f.base \in Nat
    BY <1>4 DEF Numbers
  <2> QED
    BY <1>2, <1>4, <1>10, <2>1 DEF Rows, Row
<1>12. mft' \in [Numbers -> Rows] /\ mft'[e] = r /\ \A n \in Numbers : n # e => mft'[n] = mft[n]
  BY <1>1, <1>2, <1>3, <1>10, <1>11 DEF NtfsInv
<1>13. e # f.base
  <2>1. f.base \in {ntfsMade[id].base, ntfsMade[id].ext} \ {0}
    BY <1>3, <1>4
  <2> QED
    BY <1>1, <1>2, <2>1, LiveRow
<1>14. \A i \in DOMAIN ntfsMade' : /\ ntfsMade'[i].ext # ntfsMade'[i].base
                                   /\ Len(ntfsMade'[i].runs) = IF ntfsMade'[i].ext = 0 THEN 1 ELSE 2
  <2>1. SUFFICES ASSUME NEW i \in DOMAIN ntfsMade'
                 PROVE  /\ ntfsMade'[i].ext # ntfsMade'[i].base
                        /\ Len(ntfsMade'[i].runs) = IF ntfsMade'[i].ext = 0 THEN 1 ELSE 2
    OBVIOUS
  <2>2. CASE i = id
    <3>1. e # 0
      BY <1>2, <1>4
    <3> QED
      BY <1>6, <1>7, <1>9, <1>13, <2>2, <3>1
  <2>3. CASE i # id
    <3>1. i \in DOMAIN ntfsMade /\ ntfsMade'[i] = ntfsMade[i]
      BY <1>9, <2>3
    <3> QED
      BY <3>1 DEF NtfsInv
  <2> QED
    BY <2>2, <2>3
<1>15. ASSUME NEW n \in Numbers PROVE mft'[n] = Blank \/ \E i \in DOMAIN ntfsMade' : Holds(n, i)'
  <2>1. CASE n = e
    <3>1. Holds(n, id)'
      BY ZenonT(30), <1>6, <1>7, <1>9, <1>11, <1>12, <2>1 DEF Holds
    <3> QED
      BY <1>9, <3>1
  <2>2. CASE n # e
    <3>1. CASE mft[n] = Blank
      BY <1>12, <2>2, <3>1
    <3>2. CASE \E i \in DOMAIN ntfsMade : Holds(n, i)
      <4>1. PICK i \in DOMAIN ntfsMade : Holds(n, i)
        BY <3>2
      <4>2. CASE i # id
        <5>1. Holds(n, i)'
          BY <1>9, <1>12, <2>2, <4>1, <4>2 DEF Holds
        <5> QED
          BY <1>9, <5>1
      <4>3. CASE i = id
        <5>1. n = f.base /\ mft[n].base = 0 /\ mft[n].runs = <<f.runs[1]>> /\ mft[n].file = id /\ mft[n].inUse = TRUE
          <6>1. n # f.ext
            BY <1>4
          <6> QED
            BY <1>3, <1>4, <4>1, <4>3, <6>1 DEF Holds
        <5>2. /\ mft'[n] = mft[n] /\ ntfsMade'[id].base = f.base /\ ntfsMade'[id].live = TRUE
              /\ ntfsMade'[id].runs[1] = f.runs[1]
          BY <1>6, <1>7, <1>9, <1>12, <2>2
        <5>3. Holds(n, id)'
          BY <5>1, <5>2 DEF Holds
        <5> QED
          BY <1>9, <5>3
      <4> QED
        BY <4>2, <4>3
    <3> QED
      BY <3>1, <3>2 DEF NtfsInv
  <2> QED
    BY <2>1, <2>2
<1>16. ASSUME NEW i \in DOMAIN ntfsMade', ntfsMade'[i].live,
              NEW n \in {ntfsMade'[i].base, ntfsMade'[i].ext} \ {0}
       PROVE  mft'[n].file = i
  <2>1. CASE i = id /\ n = e
    BY <1>11, <1>12, <2>1
  <2>2. CASE i = id /\ n # e
    <3>1. n = f.base /\ n \in {ntfsMade[id].base, ntfsMade[id].ext} \ {0}
      BY <1>3, <1>7, <1>9, <1>16, <2>2
    <3>2. n \in Numbers /\ mft[n].file = id
      BY <1>1, <3>1, LiveRow
    <3> QED
      BY <1>12, <2>2, <3>2
  <2>3. CASE i # id
    <3>1. i \in DOMAIN ntfsMade /\ ntfsMade'[i] = ntfsMade[i]
      BY <1>9, <2>3
    <3>2. n \in Numbers /\ mft[n].file = i /\ mft[n].inUse
      BY <1>16, <3>1, LiveRow
    <3> QED
      BY <1>2, <1>12, <3>2
  <2> QED
    BY <2>1, <2>2, <2>3
<1> QED
  BY <1>9, <1>12, <1>14, <1>15, <1>16 DEF NtfsInv

LEMMA DeleteRecords ==
  ASSUME NtfsInv, NtfsDelete PROVE NtfsInv'
<1>1. PICK id \in DOMAIN ntfsMade :
        /\ ntfsMade[id].live
        /\ mft' = [n \in Numbers |-> IF n \in {ntfsMade[id].base, ntfsMade[id].ext}
                                     THEN [mft[n] EXCEPT !.inUse = FALSE] ELSE mft[n]]
        /\ ntfsMade' = [ntfsMade EXCEPT ![id].live = FALSE]
  BY DEF NtfsDelete
<1>2. PICK f : f = ntfsMade[id]
  OBVIOUS
<1>3. f \in Files
  BY <1>1, <1>2, MadeIs
<1>4. PICK g : g = [f EXCEPT !.live = FALSE]
  OBVIOUS
<1>5. g \in Files /\ g.base = f.base /\ g.ext = f.ext /\ g.runs = f.runs /\ g.live = FALSE
  BY <1>3, <1>4 DEF Files
<1>6. ntfsMade' = [ntfsMade EXCEPT ![id] = g]
  BY <1>1, <1>2, <1>4
<1>7. /\ ntfsMade' \in Seq(Files) /\ DOMAIN ntfsMade' = DOMAIN ntfsMade
      /\ ntfsMade'[id] = g /\ \A i \in DOMAIN ntfsMade : i # id => ntfsMade'[i] = ntfsMade[i]
  <2>1. ntfsMade \in Seq(Files) /\ id \in 1 .. Len(ntfsMade)
    BY DEF NtfsInv
  <2> QED
    BY <1>5, <1>6, <2>1, ExceptSeq
<1>8. ASSUME NEW n \in Numbers
      PROVE  /\ mft'[n] \in Rows /\ mft'[n].file = mft[n].file /\ mft'[n].base = mft[n].base
             /\ mft'[n].runs = mft[n].runs
             /\ n \in {f.base, f.ext} => mft'[n].inUse = FALSE
             /\ n \notin {f.base, f.ext} => mft'[n] = mft[n]
  <2>1. PICK r \in Rows : r = mft[n]
    BY DEF NtfsInv
  <2>2. PICK q : q = [r EXCEPT !.inUse = FALSE]
    OBVIOUS
  <2>3. q \in Rows /\ q.file = r.file /\ q.base = r.base /\ q.runs = r.runs /\ q.inUse = FALSE
    BY <2>1, <2>2 DEF Rows
  <2>4. mft'[n] = IF n \in {f.base, f.ext} THEN q ELSE r
    BY <1>1, <1>2, <2>1, <2>2
  <2> QED
    BY <2>1, <2>3, <2>4
<1>9. mft' \in [Numbers -> Rows]
  BY <1>1, <1>8
<1>10. \A i \in DOMAIN ntfsMade' : /\ ntfsMade'[i].ext # ntfsMade'[i].base
                                   /\ Len(ntfsMade'[i].runs) = IF ntfsMade'[i].ext = 0 THEN 1 ELSE 2
  <2>1. SUFFICES ASSUME NEW i \in DOMAIN ntfsMade'
                 PROVE  /\ ntfsMade'[i].ext # ntfsMade'[i].base
                        /\ Len(ntfsMade'[i].runs) = IF ntfsMade'[i].ext = 0 THEN 1 ELSE 2
    OBVIOUS
  <2>2. /\ i \in DOMAIN ntfsMade /\ ntfsMade'[i].ext = ntfsMade[i].ext
        /\ ntfsMade'[i].base = ntfsMade[i].base /\ ntfsMade'[i].runs = ntfsMade[i].runs
    BY <1>2, <1>5, <1>7
  <2> QED
    BY <2>2 DEF NtfsInv
(* Only the file's own records are in its base and its extension.            *)
<1>11. ASSUME NEW n \in Numbers, NEW i \in DOMAIN ntfsMade, Holds(n, i)
       PROVE  Holds(n, i)'
  <2>1. CASE i = id
    <3>1. n \in {f.base, f.ext}
      BY <1>2, <1>11, <2>1 DEF Holds
    <3> QED
      BY <1>2, <1>5, <1>7, <1>8, <1>11, <2>1, <3>1 DEF Holds
  <2>2. CASE i # id
    <3>1. n \notin {f.base, f.ext}
      <4>1. SUFFICES ASSUME n \in {f.base, f.ext} PROVE FALSE
        OBVIOUS
      <4>2. n \in {ntfsMade[id].base, ntfsMade[id].ext} \ {0}
        BY <1>2, <4>1, MadeIs
      <4>3. mft[n].file = id
        BY <1>1, <4>2, LiveRow
      <4> QED
        BY <1>11, <2>2, <4>3 DEF Holds
    <3> QED
      BY <1>7, <1>8, <1>11, <2>2, <3>1 DEF Holds
  <2> QED
    BY <2>1, <2>2
<1>12. ASSUME NEW n \in Numbers PROVE mft'[n] = Blank \/ \E i \in DOMAIN ntfsMade' : Holds(n, i)'
  <2>1. CASE mft[n] = Blank
    <3>1. n \notin {f.base, f.ext}
      <4>1. SUFFICES ASSUME n \in {f.base, f.ext} PROVE FALSE
        OBVIOUS
      <4>2. n \in {ntfsMade[id].base, ntfsMade[id].ext} \ {0}
        BY <1>2, <4>1, MadeIs
      <4>3. mft[n].inUse
        BY <1>1, <4>2, LiveRow
      <4> QED
        BY <2>1, <4>3 DEF Blank
    <3> QED
      BY <1>8, <2>1, <3>1
  <2>2. CASE \E i \in DOMAIN ntfsMade : Holds(n, i)
    BY <1>7, <1>11, <2>2
  <2> QED
    BY <2>1, <2>2 DEF NtfsInv
<1>13. ASSUME NEW i \in DOMAIN ntfsMade', ntfsMade'[i].live,
              NEW n \in {ntfsMade'[i].base, ntfsMade'[i].ext} \ {0}
       PROVE  mft'[n].file = i
  <2>1. i # id
    BY <1>5, <1>7, <1>13
  <2>2. i \in DOMAIN ntfsMade /\ ntfsMade'[i] = ntfsMade[i]
    BY <1>7, <2>1
  <2>3. n \in Numbers /\ mft[n].file = i
    BY <1>13, <2>2, LiveRow
  <2> QED
    BY <1>8, <2>3
<1> QED
  BY <1>7, <1>9, <1>10, <1>12, <1>13 DEF NtfsInv

LEMMA NtfsStep ==
  ASSUME NtfsInv, [NtfsNext]_ntfsVars PROVE NtfsInv'
<1>1. CASE UNCHANGED ntfsVars
  BY <1>1 DEF NtfsInv, Holds, ntfsVars
<1> QED
  BY <1>1, CreateRecord, GrowRecord, DeleteRecords DEF NtfsNext

-----------------------------------------------------------------------------
(* What the reader gathers for each base, record by record.                  *)

Accs == [inUse : BOOLEAN, files : Seq(Nat), runs : Seq(Cs), there : BOOLEAN]
Into(k, m) == mft[k] # Blank /\ m = IF mft[k].base \in {0, k} THEN k ELSE mft[k].base
Given(m, k) == {j \in 1 .. k : Into(j, m)}

LEMMA AccIs ==
  ASSUME NEW a \in Accs
  PROVE  a.inUse \in BOOLEAN /\ a.files \in Seq(Nat) /\ a.runs \in Seq(Cs) /\ a.there \in BOOLEAN
  BY DEF Accs

LEMMA RecordIs ==
  ASSUME NtfsInv, NEW k \in Numbers
  PROVE  /\ mft[k].inUse \in BOOLEAN /\ mft[k].file \in Nat /\ mft[k].runs \in Seq(Cs)
         /\ mft[k].base = 0 \/ mft[k].base \in Numbers
         /\ 0 \notin Numbers
<1>1. mft[k] \in Rows
  BY DEF NtfsInv
<1>2. mft[k].inUse \in BOOLEAN /\ mft[k].file \in Nat /\ mft[k].runs \in Seq(Cs)
  BY <1>1 DEF Rows
<1>3. 0 \notin Numbers
  BY DEF Numbers
<1>4. mft[k].base = 0 \/ mft[k].base \in Numbers
  <2>1. CASE mft[k] = Blank
    BY <2>1 DEF Blank
  <2>2. CASE \E id \in DOMAIN ntfsMade : Holds(k, id)
    BY <2>2, MadeIs DEF Holds
  <2> QED
    BY <2>1, <2>2 DEF NtfsInv
<1> QED
  BY <1>2, <1>3, <1>4

(* A record changes what is gathered for the one base it goes into.          *)
Taken(a, k, m) ==
  [there |-> TRUE,
   files |-> IF k = m THEN Append(a.files, mft[k].file) ELSE a.files,
   inUse |-> IF k = m THEN mft[k].inUse /\ (a.there => a.inUse)
             ELSE IF a.there THEN a.inUse ELSE mft[k].inUse,
   runs |-> a.runs \o mft[k].runs]

TakenAs(t, a, k, m) ==
  /\ t.there = TRUE /\ t.runs = a.runs \o mft[k].runs
  /\ t.files = IF k = m THEN Append(a.files, mft[k].file) ELSE a.files
  /\ t.inUse = IF k = m THEN mft[k].inUse /\ (a.there => a.inUse)
               ELSE IF a.there THEN a.inUse ELSE mft[k].inUse

LEMMA TakenIs ==
  ASSUME NtfsInv, NEW k \in Numbers, NEW a \in Accs, NEW m
  PROVE  Taken(a, k, m) \in Accs /\ TakenAs(Taken(a, k, m), a, k, m)
<1>1. PICK r \in Seq(Cs) : r = a.runs \o mft[k].runs
  BY AccIs, RecordIs, ConcatProperties
<1>2. PICK fs \in Seq(Nat) : fs = IF k = m THEN Append(a.files, mft[k].file) ELSE a.files
  BY AccIs, RecordIs, AppendProperties
<1>3. PICK u \in BOOLEAN : u = IF k = m THEN mft[k].inUse /\ (a.there => a.inUse)
                               ELSE IF a.there THEN a.inUse ELSE mft[k].inUse
  BY AccIs, RecordIs
<1>4. Taken(a, k, m) = [there |-> TRUE, files |-> fs, inUse |-> u, runs |-> r]
  BY <1>1, <1>2, <1>3 DEF Taken
<1>5. PICK t : t = [there |-> TRUE, files |-> fs, inUse |-> u, runs |-> r]
  OBVIOUS
<1>6. t \in Accs /\ t.there = TRUE /\ t.files = fs /\ t.inUse = u /\ t.runs = r
  BY <1>5 DEF Accs
<1>7. TakenAs(t, a, k, m)
  BY <1>1, <1>2, <1>3, <1>6 DEF TakenAs
<1> QED
  BY <1>4, <1>5, <1>6, <1>7

LEMMA TakeIs ==
  ASSUME NtfsInv, NEW k \in Numbers, NEW acc \in [Numbers -> Accs]
  PROVE  /\ Take(acc, k) \in [Numbers -> Accs]
         /\ \A m \in Numbers : Take(acc, k)[m] = IF Into(k, m) THEN Taken(acc[m], k, m) ELSE acc[m]
<1>1. CASE mft[k] = Blank
  BY <1>1 DEF Take, readMFTRecord, Into
<1>2. CASE mft[k] # Blank
  <2>1. PICK m \in Numbers : m = IF mft[k].base \in {0, k} THEN k ELSE mft[k].base
    BY RecordIs
  <2>2. \A i \in Numbers : Into(k, i) <=> i = m
    BY <1>2, <2>1 DEF Into
  <2>3. PICK a \in Accs : a = acc[m]
    OBVIOUS
  <2>4. Take(acc, k) = [acc EXCEPT ![m] = Taken(a, k, m)]
    <3>1. CASE mft[k].base \in {0, k}
      <4>1. m = k /\ Take(acc, k) = MergeBase(acc, k, mft[k])
        BY <1>2, <2>1, <3>1 DEF Take, readMFTRecord
      <4> QED
        BY <2>3, <4>1 DEF MergeBase, Taken
    <3>2. CASE mft[k].base \notin {0, k}
      <4>1. m = mft[k].base /\ m # k /\ Take(acc, k) = MergeExtension(acc, mft[k])
        BY <1>2, <2>1, <3>2 DEF Take, readMFTRecord
      <4> QED
        BY <2>3, <4>1 DEF MergeExtension, Taken
    <3> QED
      BY <3>1, <3>2
  <2>5. Taken(a, k, m) \in Accs
    BY TakenIs
  <2>6. PICK t \in Accs : t = Taken(a, k, m)
    BY <2>5
  <2> QED
    BY <2>2, <2>3, <2>4, <2>6
<1> QED
  BY <1>1, <1>2

LEMMA BasesUnfold ==
  ASSUME NtfsInv
  PROVE  \E f \in [0 .. Records -> [Numbers -> Accs]] :
           /\ bases = f[Records] /\ f[0] = [m \in Numbers |-> NoBase]
           /\ \A k \in 1 .. Records : f[k] = Take(f[k - 1], k)
<1> DEFINE M(k, s) == Take(s, k)
           n == Records
           a == [m \in Numbers |-> NoBase]
           P(f) == f = [k \in 0 .. n |-> IF k = 0 THEN a ELSE M(k, f[k - 1])]
           G == [k \in 1 .. n |-> [s \in [Numbers -> Accs] |-> M(k, s)]]
           g == CHOOSE f : P(f)
<1>1. n \in Nat /\ a \in [Numbers -> Accs]
  <2>1. NoBase \in Accs
    BY DEF NoBase, Accs
  <2> QED
    BY <2>1, NtfsAssumption
<1>2. \A k \in 1 .. n : \A s \in [Numbers -> Accs] : M(k, s) \in [Numbers -> Accs]
  BY TakeIs DEF Numbers
<1>3. bases = g[n]
  BY DEF bases
<1> HIDE DEF M, n, g, a
<1>4. Steps(n, [Numbers -> Accs], a, G)
  BY <1>1, <1>2 DEF Steps
<1>5. PICK f : Solution(n, [Numbers -> Accs], a, G, f)
  <2> HIDE DEF G
  <2> QED
    BY <1>1, <1>4, NatRecursion
<1>6. f \in [0 .. n -> [Numbers -> Accs]] /\ f[0] = a /\ \A i \in 1 .. n : f[i] = M(i, f[i - 1])
  BY <1>5 DEF Solution
<1>7. P(f)
  BY <1>1, <1>6
<1>8. P(g)
  <2> HIDE DEF P
  <2> QED
    BY <1>7 DEF g
<1>9. g = f
  <2>1. g = [k \in 0 .. n |-> IF k = 0 THEN a ELSE M(k, g[k - 1])]
    BY <1>8
  <2>2. \A k \in 0 .. n : g[k] = IF k = 0 THEN a ELSE M(k, g[k - 1])
    BY <2>1
  <2>3. g = [k \in 0 .. n |-> g[k]] /\ g[0] = a
    BY <1>1, <2>1, <2>2
  <2>6. \A k \in 1 .. n : g[k] = M(k, g[k - 1])
    BY <1>1, <2>2
  <2>4. \A k \in 1 .. n : g[k - 1] \in [Numbers -> Accs] => g[k] = G[k][g[k - 1]]
    BY <2>6
  <2>5. Solves(n, [Numbers -> Accs], a, G, g)
    BY <2>3, <2>4 DEF Solves
  <2> HIDE DEF G, P
  <2> QED
    BY <1>1, <1>4, <1>5, <2>5, NatRecursionUnique
<1> QED
  BY <1>3, <1>6, <1>9 DEF M, n, a

(* What was gathered for base m from the first k records.                    *)
Gathered(a, k, m) ==
  /\ ToSet(a.runs) = UNION {ToSet(mft[j].runs) : j \in Given(m, k)}
  /\ a.files = IF m <= k /\ Into(m, m) THEN <<mft[m].file>> ELSE <<>>
  /\ a.there <=> Given(m, k) # {}
  /\ m <= k /\ Into(m, m) /\ ~mft[m].inUse => ~a.inUse
  /\ Given(m, k) # {} /\ (\A j \in Given(m, k) : mft[j].inUse) => a.inUse

LEMMA GivenIs ==
  ASSUME NEW k \in Numbers, NEW m \in Numbers
  PROVE  Given(m, k) = IF Into(k, m) THEN Given(m, k - 1) \cup {k} ELSE Given(m, k - 1)
<1>1. 1 .. k = (1 .. k - 1) \cup {k}
  BY DEF Numbers
<1> QED
  BY <1>1 DEF Given

LEMMA Together ==
  ASSUME NEW S, NEW s \in Seq(S), NEW t \in Seq(S)
  PROVE  ToSet(s \o t) = ToSet(s) \cup ToSet(t)
<1>1. PICK u \in Seq(S) : u = s \o t
  BY ConcatProperties
<1>2. PICK n \in Nat, m \in Nat : n = Len(s) /\ m = Len(t)
  OBVIOUS
<1>3. Len(u) = n + m /\ \A i \in 1 .. n + m : u[i] = IF i <= n THEN s[i] ELSE t[i - n]
  BY <1>1, <1>2, ConcatProperties
<1>4. DOMAIN u = 1 .. n + m /\ DOMAIN s = 1 .. n /\ DOMAIN t = 1 .. m
  BY <1>1, <1>2, <1>3
<1>5. \A i \in 1 .. n : i \in 1 .. n + m /\ u[i] = s[i]
  BY <1>3
<1>6. \A i \in 1 .. m : i + n \in 1 .. n + m /\ u[i + n] = t[i]
  BY <1>3
<1>7. \A i \in 1 .. n + m : i \in 1 .. n \/ i - n \in 1 .. m
  OBVIOUS
<1>8. \A x \in ToSet(s) \cup ToSet(t) : x \in ToSet(u)
  BY <1>4, <1>5, <1>6 DEF ToSet
<1>9. \A x \in ToSet(u) : x \in ToSet(s) \cup ToSet(t)
  <2>1. SUFFICES ASSUME NEW i \in 1 .. n + m PROVE u[i] \in ToSet(s) \cup ToSet(t)
    BY <1>4 DEF ToSet
  <2>2. CASE i \in 1 .. n
    BY <1>4, <1>5, <2>2 DEF ToSet
  <2>3. CASE i \notin 1 .. n
    <3>1. i - n \in 1 .. m /\ u[i] = t[i - n]
      BY SMTT(30), <1>3, <1>7, <2>3
    <3> QED
      BY <1>4, <3>1 DEF ToSet
  <2> QED
    BY <2>2, <2>3
<1> QED
  BY <1>1, <1>8, <1>9

LEMMA GatheredStep ==
  ASSUME NtfsInv, NEW k \in Numbers, NEW m \in Numbers, NEW a \in Accs, Gathered(a, k - 1, m)
  PROVE  Gathered(IF Into(k, m) THEN Taken(a, k, m) ELSE a, k, m)
<1>1. k \in Nat \ {0} /\ m \in Nat
  BY DEF Numbers
<1>2. k # m => (m <= k <=> m <= k - 1)
  BY <1>1
<1>3. m <= m /\ ~(m <= m - 1)
  BY <1>1
<1>4. CASE ~Into(k, m)
  <2>1. Given(m, k) = Given(m, k - 1)
    BY <1>4, GivenIs
  <2>2. (m <= k /\ Into(m, m)) <=> (m <= k - 1 /\ Into(m, m))
    BY <1>2, <1>4
  <2> QED
    BY <1>4, <2>1, <2>2 DEF Gathered
<1>5. CASE Into(k, m)
  <2>1. PICK t \in Accs : t = Taken(a, k, m)
    BY TakenIs
  <2>2. /\ t.there = TRUE /\ t.runs = a.runs \o mft[k].runs
        /\ t.files = IF k = m THEN Append(a.files, mft[k].file) ELSE a.files
        /\ t.inUse = IF k = m THEN mft[k].inUse /\ (a.there => a.inUse)
                     ELSE IF a.there THEN a.inUse ELSE mft[k].inUse
    <3>1. TakenAs(t, a, k, m)
      BY <2>1, TakenIs
    <3> QED
      BY <3>1 DEF TakenAs
  <2>3. Given(m, k) = Given(m, k - 1) \cup {k}
    BY <1>5, GivenIs
  <2>4. ToSet(t.runs) = UNION {ToSet(mft[j].runs) : j \in Given(m, k)}
    <3>1. ToSet(t.runs) = ToSet(a.runs) \cup ToSet(mft[k].runs)
      BY <2>2, AccIs, RecordIs, Together
    <3> QED
      BY <2>3, <3>1 DEF Gathered
  <2>5. t.files = IF m <= k /\ Into(m, m) THEN <<mft[m].file>> ELSE <<>>
    <3>1. CASE k = m
      <4>1. a.files = <<>>
        BY <1>3, <3>1 DEF Gathered
      <4> QED
        BY <1>3, <1>5, <2>2, <3>1, <4>1
    <3>2. CASE k # m
      BY <1>2, <2>2, <3>2 DEF Gathered
    <3> QED
      BY <3>1, <3>2
  <2>6. t.there <=> Given(m, k) # {}
    BY <2>2, <2>3
  <2>7. ASSUME m <= k, Into(m, m), ~mft[m].inUse PROVE ~t.inUse
    <3>1. CASE k = m
      BY <2>2, <2>7, <3>1
    <3>2. CASE k # m
      <4>1. m <= k - 1 /\ m \in 1 .. k - 1
        BY <1>1, <1>2, <2>7, <3>2 DEF Numbers
      <4>2. m \in Given(m, k - 1)
        BY <2>7, <4>1 DEF Given
      <4>3. a.there /\ ~a.inUse
        BY <2>7, <4>1, <4>2 DEF Gathered
      <4> QED
        BY <2>2, <3>2, <4>3
    <3> QED
      BY <3>1, <3>2
  <2>8. ASSUME \A j \in Given(m, k) : mft[j].inUse PROVE t.inUse
    <3>1. mft[k].inUse /\ \A j \in Given(m, k - 1) : mft[j].inUse
      BY <2>3, <2>8
    <3>2. a.there => a.inUse
      BY <3>1 DEF Gathered
    <3>3. a.there \in BOOLEAN /\ a.inUse \in BOOLEAN /\ mft[k].inUse \in BOOLEAN
      BY AccIs, RecordIs
    <3> QED
      BY <2>2, <3>1, <3>2, <3>3
  <2>9. Gathered(t, k, m)
    BY <2>4, <2>5, <2>6, <2>7, <2>8 DEF Gathered
  <2> QED
    BY <1>5, <2>1, <2>9
<1> QED
  BY <1>4, <1>5

LEMMA BasesAre ==
  ASSUME NtfsInv PROVE \A m \in Numbers : bases[m] \in Accs /\ Gathered(bases[m], Records, m)
<1>1. PICK f \in [0 .. Records -> [Numbers -> Accs]] :
        /\ bases = f[Records] /\ f[0] = [m \in Numbers |-> NoBase]
        /\ \A k \in 1 .. Records : f[k] = Take(f[k - 1], k)
  BY BasesUnfold
<1> DEFINE E == {k \in 0 .. Records : \A m \in Numbers : Gathered(f[k][m], k, m)}
<1>2. 0 \in E
  <2>1. SUFFICES ASSUME NEW m \in Numbers PROVE Gathered(NoBase, 0, m)
    BY <1>1, NtfsAssumption
  <2>2. ~(m <= 0) /\ Given(m, 0) = {}
    BY DEF Numbers, Given
  <2>3. ToSet(<<>>) = {}
    BY DEF ToSet
  <2> QED
    BY <2>2, <2>3 DEF Gathered, NoBase
<1>3. ASSUME NEW k \in 1 .. Records, k - 1 \in E PROVE k \in E
  <2>1. k \in Numbers /\ f[k - 1] \in [Numbers -> Accs]
    BY <1>1, <1>3 DEF Numbers
  <2>2. ASSUME NEW m \in Numbers PROVE Gathered(f[k][m], k, m)
    <3>1. f[k][m] = IF Into(k, m) THEN Taken(f[k - 1][m], k, m) ELSE f[k - 1][m]
      BY <1>1, <2>1, TakeIs
    <3>2. f[k - 1][m] \in Accs /\ Gathered(f[k - 1][m], k - 1, m)
      BY <1>3, <2>1
    <3> QED
      BY <2>1, <3>1, <3>2, GatheredStep
  <2> QED
    BY <2>2
<1>4. 0 .. Records \subseteq E
  <2> HIDE DEF E
  <2> QED
    BY <1>2, <1>3, NtfsAssumption, UpTo
<1>5. Records \in E
  BY <1>4, NtfsAssumption
<1>6. f[Records] \in [Numbers -> Accs]
  BY NtfsAssumption
<1> QED
  BY <1>1, <1>5, <1>6

(* The clusters of an entry are the bytes of its merged extents.             *)
LEMMA ClustersAre ==
  ASSUME NEW runs \in Seq(Cs)
  PROVE  Bytes(ntfsExtents(runs)) = ToSet(runs)
<1>1. PICK es : es = [i \in DOMAIN runs |-> FSExtent(runs[i], 1)]
  OBVIOUS
<1>2. DOMAIN es = DOMAIN runs /\ DOMAIN runs = 1 .. Len(runs) /\ Len(runs) \in Nat
  BY <1>1
<1>3. ASSUME NEW i \in DOMAIN runs
      PROVE  es[i] \in Pieces /\ es[i].start .. End(es[i]) - 1 = {runs[i]}
  <2>1. PICK c \in Nat : c = runs[i]
    <3>1. runs[i] \in Cs
      BY <1>2
    <3> QED
      BY <3>1 DEF Cs
  <2>2. es[i] = FSExtent(c, 1)
    BY <1>1, <2>1
  <2>3. es[i] \in Pieces /\ es[i].start = c /\ End(es[i]) = c + 1
    BY <2>2 DEF FSExtent, Pieces, End
  <2>4. c .. c + 1 - 1 = {c}
    OBVIOUS
  <2> QED
    BY <2>1, <2>3, <2>4
<1>4. es \in Seq(Pieces)
  BY <1>1, <1>2, <1>3
<1>5. Bytes(es) = ToSet(runs)
  BY <1>2, <1>3 DEF Bytes, ToSet
<1> QED
  BY <1>1, <1>4, <1>5, Merging DEF ntfsExtents

(* A file whose records are still its own is listed under its base record,   *)
(* with at least its clusters.                                               *)
LEMMA KeptIs ==
  ASSUME NtfsInv, NEW id \in DOMAIN ntfsMade, NtfsKept(id), NEW b, b = ntfsMade[id].base
  PROVE  /\ b \in Numbers /\ mft[b].file = id /\ mft[b].inUse = ntfsMade[id].live /\ Into(b, b)
         /\ ToSet(mft[b].runs) = {ntfsMade[id].runs[1]}
         /\ ntfsMade[id].ext # 0 =>
              /\ ntfsMade[id].ext \in Numbers /\ Into(ntfsMade[id].ext, b)
              /\ ToSet(mft[ntfsMade[id].ext].runs) = {ntfsMade[id].runs[2]}
<1>1. b \in Numbers /\ b # ntfsMade[id].ext /\ b # 0
  BY MadeIs
<1>2. mft[b].file = id
  BY <1>1 DEF NtfsKept
<1>3. mft[b] # Blank /\ Holds(b, id)
  BY <1>1, <1>2, RowIs
<1>4. mft[b].base = 0 /\ mft[b].runs = <<ntfsMade[id].runs[1]>> /\ mft[b].inUse = ntfsMade[id].live
  BY <1>1, <1>3 DEF Holds
<1>5. Into(b, b)
  BY <1>3, <1>4 DEF Into
<1>6. ToSet(<<ntfsMade[id].runs[1]>>) = {ntfsMade[id].runs[1]}
  BY DEF ToSet
<1>7. ASSUME NEW e, e = ntfsMade[id].ext, e # 0
      PROVE  e \in Numbers /\ Into(e, b) /\ ToSet(mft[e].runs) = {ntfsMade[id].runs[2]}
  <2>1. e \in Numbers
    BY <1>7, MadeIs
  <2>2. mft[e].file = id
    BY <1>7 DEF NtfsKept
  <2>3. mft[e] # Blank /\ Holds(e, id)
    BY <2>1, <2>2, RowIs
  <2>4. mft[e].base = b /\ mft[e].runs = <<ntfsMade[id].runs[2]>>
    BY <1>1, <1>7, <2>3 DEF Holds
  <2>5. Into(e, b)
    BY <1>1, <1>7, <2>3, <2>4 DEF Into
  <2>6. ToSet(<<ntfsMade[id].runs[2]>>) = {ntfsMade[id].runs[2]}
    BY DEF ToSet
  <2> QED
    BY <2>1, <2>4, <2>5, <2>6
<1> QED
  BY <1>1, <1>2, <1>4, <1>5, <1>6, <1>7

LEMMA ContentIs ==
  ASSUME NtfsInv, NEW id \in DOMAIN ntfsMade
  PROVE  NtfsContent(id) = IF ntfsMade[id].ext = 0 THEN {ntfsMade[id].runs[1]}
                           ELSE {ntfsMade[id].runs[1], ntfsMade[id].runs[2]}
<1>1. PICK rs \in Seq(Cs) : rs = ntfsMade[id].runs
  BY MadeIs
<1>2. Len(rs) = IF ntfsMade[id].ext = 0 THEN 1 ELSE 2
  BY <1>1, MadeIs
<1>3. NtfsContent(id) = {rs[i] : i \in 1 .. Len(rs)}
  BY <1>1 DEF NtfsContent, ToSet
<1>4. CASE ntfsMade[id].ext = 0
  BY <1>1, <1>2, <1>3, <1>4
<1>5. CASE ntfsMade[id].ext # 0
  <2>1. Len(rs) = 2 /\ 1 .. 2 = {1, 2}
    BY <1>2, <1>5
  <2> QED
    BY <1>1, <1>3, <1>5, <2>1
<1> QED
  BY <1>4, <1>5

LEMMA EntryIs ==
  ASSUME NtfsInv, NEW id \in DOMAIN ntfsMade, NtfsKept(id)
  PROVE  \E e \in NtfsEntries :
           /\ e.num = ntfsMade[id].base /\ e.file = id /\ e.deleted \in BOOLEAN
           /\ NtfsContent(id) \subseteq Bytes(e.extents)
           /\ ~ntfsMade[id].live => e.deleted
           /\ ~Stale(ntfsMade[id].base) => /\ ntfsMade[id].live => ~e.deleted
                                           /\ Bytes(e.extents) \subseteq NtfsContent(id)
<1>1. PICK b : b = ntfsMade[id].base
  OBVIOUS
<1>2. PICK x : x = ntfsMade[id].ext
  OBVIOUS
<1>3. /\ b \in Numbers /\ mft[b].file = id /\ mft[b].inUse = ntfsMade[id].live /\ Into(b, b)
      /\ ToSet(mft[b].runs) = {ntfsMade[id].runs[1]}
      /\ x # 0 => /\ x \in Numbers /\ Into(x, b) /\ ToSet(mft[x].runs) = {ntfsMade[id].runs[2]}
  BY <1>1, <1>2, KeptIs
<1>4. PICK a \in Accs : a = bases[b] /\ Gathered(a, Records, b)
  BY <1>3, BasesAre
<1>5. PICK es : es = ntfsExtents(a.runs)
  OBVIOUS
<1>6. PICK e : e = [num |-> b, file |-> id, deleted |-> ~a.inUse, extents |-> es]
  OBVIOUS
<1>7. e.num = b /\ e.file = id /\ e.extents = es
  BY <1>6
<1>8. (e.deleted <=> ~a.inUse) /\ e.deleted \in BOOLEAN
  <2>1. PICK d \in BOOLEAN : d = ~a.inUse
    BY AccIs
  <2>2. e.deleted = d
    BY <1>6, <2>1
  <2> QED
    BY <2>1, <2>2
<1>9. a.files = <<id>>
  <2>1. b <= Records
    BY <1>3 DEF Numbers
  <2> QED
    BY <1>3, <1>4, <2>1 DEF Gathered
<1>10. e \in NtfsEntries
  <2>1. a.files # <<>> /\ a.files[1] = id
    BY <1>9
  <2>2. e = [num |-> b, file |-> bases[b].files[1], deleted |-> ~bases[b].inUse,
             extents |-> ntfsExtents(bases[b].runs)]
    BY <1>4, <1>5, <1>6, <2>1
  <2> QED
    BY <1>3, <1>4, <2>1, <2>2 DEF NtfsEntries
<1>11. Bytes(es) = UNION {ToSet(mft[j].runs) : j \in Given(b, Records)}
  BY <1>4, <1>5, AccIs, ClustersAre DEF Gathered
<1>12. b \in Given(b, Records) /\ (x # 0 => x \in Given(b, Records))
  BY <1>3 DEF Given, Numbers
<1>13. NtfsContent(id) = IF x = 0 THEN {ntfsMade[id].runs[1]}
                         ELSE {ntfsMade[id].runs[1], ntfsMade[id].runs[2]}
  BY <1>2, ContentIs
<1>14. NtfsContent(id) \subseteq Bytes(es)
  BY <1>3, <1>11, <1>12, <1>13
<1>15. ~ntfsMade[id].live => ~a.inUse
  <2>1. b <= Records
    BY <1>3 DEF Numbers
  <2> QED
    BY <1>3, <1>4, <2>1 DEF Gathered
(* What goes into the base is the file's, unless some record is stale.       *)
<1>16. ASSUME ~Stale(b), NEW j \in Given(b, Records)
       PROVE  j \in Numbers /\ mft[j].inUse = ntfsMade[id].live /\ (j = b \/ (x # 0 /\ j = x))
  <2>1. j \in Numbers /\ Into(j, b)
    BY DEF Given, Numbers
  <2>2. CASE j = b
    BY <1>3, <2>1, <2>2
  <2>3. CASE j # b
    <3>1. mft[j].base = b
      BY <2>1, <2>3 DEF Into
    <3>2. mft[j].file = id
      BY <1>3, <1>16, <2>1, <3>1 DEF Stale
    <3>3. Holds(j, id)
      BY <2>1, <3>2, RowIs
    <3>4. j = x /\ mft[j].inUse = ntfsMade[id].live /\ 0 \notin Numbers
      BY <1>1, <1>2, <2>3, <3>3, MadeIs DEF Holds
    <3> QED
      BY <2>1, <3>4
  <2> QED
    BY <2>2, <2>3
<1>17. ASSUME ~Stale(b) PROVE Bytes(es) \subseteq NtfsContent(id)
  <2>1. \A j \in Given(b, Records) : ToSet(mft[j].runs) \subseteq NtfsContent(id)
    BY <1>3, <1>13, <1>16, <1>17
  <2> QED
    BY <1>11, <2>1
<1>18. ASSUME ~Stale(b), ntfsMade[id].live PROVE a.inUse
  <2>1. Given(b, Records) # {} /\ \A j \in Given(b, Records) : mft[j].inUse
    BY <1>12, <1>16, <1>18
  <2> QED
    BY <1>4, <2>1 DEF Gathered
<1> QED
  BY <1>1, <1>7, <1>8, <1>10, <1>14, <1>15, <1>17, <1>18

(* The base records of NTFS files that nothing disturbed are listed exactly  *)
(* (MFTEntries, mftRecord.entry and attach).                                 *)
THEOREM NtfsFilesExact == NtfsSpec => []FilesExact
<1>1. NtfsSpec => []NtfsInv
  BY NtfsStart, NtfsStep, PTL DEF NtfsSpec
<1>2. NtfsInv => FilesExact
  <2>1. SUFFICES ASSUME NtfsInv, NEW id \in DOMAIN ntfsMade, NtfsKept(id), ~Stale(ntfsMade[id].base)
                 PROVE  \E e \in NtfsEntries :
                          /\ e.num = ntfsMade[id].base /\ e.file = id
                          /\ e.deleted = ~ntfsMade[id].live /\ Bytes(e.extents) = NtfsContent(id)
    BY DEF FilesExact
  <2>2. PICK e \in NtfsEntries :
           /\ e.num = ntfsMade[id].base /\ e.file = id /\ e.deleted \in BOOLEAN
           /\ NtfsContent(id) \subseteq Bytes(e.extents)
           /\ ~ntfsMade[id].live => e.deleted
           /\ ~Stale(ntfsMade[id].base) => /\ ntfsMade[id].live => ~e.deleted
                                           /\ Bytes(e.extents) \subseteq NtfsContent(id)
    BY <2>1, EntryIs
  <2>4. e.deleted = ~ntfsMade[id].live
    BY <2>1, <2>2, MadeIs
  <2>5. Bytes(e.extents) = NtfsContent(id)
    BY <2>1, <2>2
  <2> QED
    BY <2>2, <2>4, <2>5
<1> QED
  BY <1>1, <1>2, PTL

(* What the records of a deleted NTFS file still hold is all recovered.      *)
THEOREM NtfsDeletedWhole == NtfsSpec => []DeletedWhole
<1>1. NtfsSpec => []NtfsInv
  BY NtfsStart, NtfsStep, PTL DEF NtfsSpec
<1>2. NtfsInv => DeletedWhole
  <2>1. SUFFICES ASSUME NtfsInv, NEW id \in DOMAIN ntfsMade, NtfsKept(id), ~ntfsMade[id].live
                 PROVE  \E e \in NtfsEntries : e.num = ntfsMade[id].base /\ e.deleted
                                               /\ NtfsContent(id) \subseteq Bytes(e.extents)
    BY DEF DeletedWhole
  <2> QED
    BY <2>1, EntryIs
<1> QED
  BY <1>1, <1>2, PTL

-----------------------------------------------------------------------------
(* The free ranges of an ext volume.                                         *)

(* A bitmap's bit i of group g is of block g * PerGroup + i (Unallocated).   *)
LEMMA BitIs ==
  ASSUME first = 0, NEW b \in 0 .. ExtBlocks - 1
  PROVE  bit(b \div PerGroup, b % PerGroup) <=> b \in used
<1>1. PICK p \in Nat \ {0} : p = PerGroup
  BY ExtAssumption
<1>2. b \in Nat /\ ExtBlocks \in Nat /\ b < ExtBlocks
  BY ExtAssumption
<1>3. PICK q \in Nat, r \in Nat : q = b \div p /\ r = b % p /\ b = q * p + r
  <2>1. b \div p \in Nat /\ b % p \in Nat
    BY <1>1, <1>2
  <2>2. b = p * (b \div p) + (b % p)
    BY <1>1, <1>2
  <2> QED
    BY <1>1, <1>2, <2>1, <2>2
<1>4. first + q * p + r = b
  BY <1>1, <1>3
<1>5. bit(q, r) <=> b >= ExtBlocks \/ b \in used
  BY <1>1, <1>4 DEF bit
<1> QED
  BY <1>1, <1>2, <1>3, <1>5

LEMMA FreeBlocks == FreeRangesExact
<1> SUFFICES ASSUME first = 0 PROVE Bytes(ExtUnallocated) = ExtUnused
  BY DEF FreeRangesExact
<1>1. PICK free : free = {b \in 0 .. ExtBlocks - 1 : ~bit(b \div PerGroup, b % PerGroup)}
  OBVIOUS
<1>2. free \cap (0 .. ExtBlocks - 1) = ExtFree
  BY <1>1, BitIs DEF ExtFree
<1>3. Bytes(FreeRuns(ExtBlocks, free)) = UNION {{2 * b, 2 * b + 1} : b \in free \cap (0 .. ExtBlocks - 1)}
  BY RunsExact, ExtAssumption
<1> QED
  BY <1>1, <1>2, <1>3 DEF ExtUnallocated, ExtUnused

(* The free ranges of an ext volume without a first data block are what no   *)
(* file and no structure of the volume holds (Unallocated of fsext.go).       *)
THEOREM ExtFreeRangesExact == ExtSpec => []FreeRangesExact
  BY FreeBlocks, PTL

-----------------------------------------------------------------------------
(* The inodes of an ext volume, the files they are of and their names.       *)

Slots  == [ino : Inodes \cup {0}, name : ExtNames, hidden : BOOLEAN]
INodes == [links : {0, 1}, size : Nat, blocks : Seq(Nat), mode : BOOLEAN]
AnyName == ExtNames \cup {""}
Owners == [name : AnyName, blocks : Seq(Nat), size : Nat, held : SUBSET ExtNames]

(* An inode that still has blocks has those of its file, as many as its size *)
(* asks for, all of the volume.                                              *)
RowKept(n) ==
  inode[n].blocks # <<>> =>
    /\ inode[n].blocks = owner[n].blocks /\ inode[n].size = owner[n].size
    /\ 2 * Len(inode[n].blocks) \in {inode[n].size, inode[n].size + 1}
    /\ ToSet(inode[n].blocks) \subseteq 0 .. ExtBlocks - 1

(* A file in use has an entry under its name, before any stale one that      *)
(* refers to its inode.                                                      *)
HasEntry(n) ==
  \E i \in DOMAIN root : /\ ~root[i].hidden /\ root[i].ino = n /\ root[i].name = owner[n].name
                         /\ \A j \in DOMAIN root : root[j].ino = n => i <= j

ExtInv ==
  /\ first \in {0, 1} /\ root \in Seq(Slots) /\ inode \in [Inodes -> INodes]
  /\ owner \in [Inodes -> Owners]
  /\ \A n \in Inodes : RowKept(n)
  /\ \A i \in DOMAIN root : root[i].ino # 0 => root[i].name \in owner[root[i].ino].held
  /\ \A i \in DOMAIN root : ~Vacant(root[i]) => inode[root[i].ino].links = 1
  /\ \A i, j \in DOMAIN root : ~Vacant(root[i]) /\ ~Vacant(root[j]) /\ root[i].ino = root[j].ino => i = j
  /\ \A n \in Inodes : inode[n].links = 1 => inode[n].mode /\ HasEntry(n)

LEMMA ExtStart == ExtInit => ExtInv
<1> SUFFICES ASSUME ExtInit PROVE ExtInv
  OBVIOUS
<1>1. PICK r : r = NoInode
  OBVIOUS
<1>2. PICK o : o = NoOwner
  OBVIOUS
<1>3. r \in INodes /\ r.blocks = <<>> /\ r.links = 0
  BY <1>1 DEF NoInode, INodes
<1>4. o \in Owners
  <2>1. PICK n \in AnyName : n = ""
    BY DEF AnyName
  <2>2. PICK h \in SUBSET ExtNames : h = {}
    OBVIOUS
  <2>5. <<>> \in Seq(Nat)
    OBVIOUS
  <2>3. PICK bs \in Seq(Nat) : bs = <<>>
    BY <2>5, Zenon
  <2>4. o = [name |-> n, blocks |-> bs, size |-> 0, held |-> h]
    BY <1>2, <2>1, <2>2, <2>3 DEF NoOwner
  <2> QED
    BY <2>4 DEF Owners
<1>5. \A n \in Inodes : inode[n] = r
  BY <1>1 DEF ExtInit
<1>6. inode \in [Inodes -> INodes] /\ owner \in [Inodes -> Owners]
  BY <1>1, <1>2, <1>3, <1>4 DEF ExtInit
<1>7. first \in {0, 1} /\ root \in Seq(Slots) /\ DOMAIN root = {}
  BY DEF ExtInit
<1>8. \A n \in Inodes : RowKept(n) /\ ~(inode[n].links = 1)
  BY <1>3, <1>5 DEF RowKept
<1> QED
  BY <1>6, <1>7, <1>8 DEF ExtInv

(* A new entry takes the first place there is.                               *)
PlacedAt(r, at, d) ==
  /\ at \in 1 .. Len(root) + 1 /\ r \in Seq(Slots) /\ DOMAIN r = DOMAIN root \cup {at} /\ r[at] = d
  /\ \A i \in DOMAIN root : i # at => r[i] = root[i]
  /\ \A i \in DOMAIN root : i < at => ~Vacant(root[i])
  /\ at \in DOMAIN root => Vacant(root[at])

LEMMA PlacedIs ==
  ASSUME root \in Seq(Slots), NEW d \in Slots
  PROVE  \E at \in Nat : PlacedAt(Placed(d), at, d)
<1>1. PICK n \in Nat : n = Len(root) /\ DOMAIN root = 1 .. n
  OBVIOUS
<1> DEFINE V == {i \in 1 .. n : Vacant(root[i])}
<1>2. CASE V = {}
  <2>1. ~\E i \in DOMAIN root : Vacant(root[i])
    BY <1>1, <1>2
  <2>2. PICK r : r = Append(root, d)
    OBVIOUS
  <2>3. Placed(d) = r
    BY <2>1, <2>2 DEF Placed
  <2>4. /\ r \in Seq(Slots) /\ Len(r) = n + 1
        /\ \A i \in 1 .. n + 1 : r[i] = IF i = n + 1 THEN d ELSE root[i]
    BY <1>1, <2>2, AppendProperties
  <2>5. DOMAIN r = 1 .. n + 1 /\ 1 .. n + 1 = 1 .. n \cup {n + 1} /\ n + 1 \notin 1 .. n
    BY <2>4
  <2>6. r[n + 1] = d /\ \A i \in 1 .. n : r[i] = root[i]
    BY <2>4, <2>5
  <2>7. PlacedAt(r, n + 1, d)
    BY <1>1, <2>1, <2>4, <2>5, <2>6 DEF PlacedAt
  <2> QED
    BY <2>3, <2>7
<1>3. CASE V # {}
  <2>1. PICK at \in V : \A y \in V : at <= y
    <3>1. V \subseteq Nat
      OBVIOUS
    <3> HIDE DEF V
    <3> QED
      BY <1>3, <3>1, NatLeast
  <2>2. at \in 1 .. n /\ Vacant(root[at]) /\ \A j \in 1 .. n : j < at => ~Vacant(root[j])
    BY <2>1
  <2> DEFINE First(i) == Vacant(root[i]) /\ \A j \in 1 .. i - 1 : ~Vacant(root[j])
  <2>3. First(at)
    BY <2>2
  <2>4. \A i \in 1 .. n : First(i) => i = at
    BY <2>2, <2>3
  <2>5. (CHOOSE i \in DOMAIN root : First(i)) = at
    <3> HIDE DEF First
    <3> QED
      BY <1>1, <2>2, <2>3, <2>4
  <2>6. Placed(d) = [root EXCEPT ![at] = d]
    BY <1>1, <2>2, <2>5 DEF Placed
  <2>7. PICK r : r = [root EXCEPT ![at] = d]
    OBVIOUS
  <2>8. /\ r \in Seq(Slots) /\ Len(r) = n /\ \A i \in 1 .. n : r[i] = IF i = at THEN d ELSE root[i]
    BY <1>1, <2>2, <2>7, ExceptSeq
  <2>10. at \in 1 .. n + 1 /\ DOMAIN r = 1 .. n /\ 1 .. n = 1 .. n \cup {at}
    BY <2>2, <2>8
  <2> HIDE DEF V, First
  <2>9. PlacedAt(r, at, d)
    BY <1>1, <2>2, <2>8, <2>10 DEF PlacedAt
  <2> QED
    BY <2>6, <2>7, <2>9, <2>10
<1> QED
  BY <1>2, <1>3

LEMMA SlotIs ==
  ASSUME NEW s \in Slots
  PROVE  s.ino \in Inodes \cup {0} /\ s.name \in ExtNames /\ s.hidden \in BOOLEAN
         /\ 0 \notin Inodes
  BY ExtAssumption DEF Slots

(* The blocks of a new file.                                                 *)
LEMMA ArrangedIs ==
  ASSUME first \in {0, 1}, NEW size \in Nat, NEW bs \in ExtArrangements((size + 1) \div 2)
  PROVE  bs \in Seq(Nat) /\ 2 * Len(bs) \in {size, size + 1} /\ ToSet(bs) \subseteq 0 .. ExtBlocks - 1
<1>1. PICK k \in Nat : k = (size + 1) \div 2 /\ 2 * k \in {size, size + 1}
  OBVIOUS
<1>2. bs \in [1 .. k -> ExtFree]
  BY <1>1 DEF ExtArrangements
<1>3. ExtFree \subseteq 0 .. ExtBlocks - 1 /\ ExtFree \subseteq Nat
  BY ExtAssumption DEF ExtFree
<1>4. bs \in [1 .. k -> Nat]
  BY <1>2, <1>3
<1>5. bs \in Seq(Nat) /\ Len(bs) = k
  BY <1>4
<1>6. ToSet(bs) \subseteq 0 .. ExtBlocks - 1
  BY <1>2, <1>3 DEF ToSet
<1> QED
  BY <1>1, <1>5, <1>6

LEMMA CreateEntry ==
  ASSUME ExtInv, ExtCreate PROVE ExtInv'
<1>1. PICK n \in Inodes, name \in ExtNames, size \in ExtSizes :
        \E bs \in ExtArrangements((size + 1) \div 2) :
          /\ ~InUse(n)
          /\ inode' = [inode EXCEPT ![n] = [links |-> 1, size |-> size, blocks |-> bs, mode |-> TRUE]]
          /\ root' = Placed([ino |-> n, name |-> name, hidden |-> FALSE])
          /\ owner' = [owner EXCEPT ![n] = [name |-> name, blocks |-> bs, size |-> size,
                                            held |-> @.held \cup {name}]]
          /\ first' = first
  BY DEF ExtCreate
<1>2. PICK bs \in ExtArrangements((size + 1) \div 2) :
          /\ ~InUse(n)
          /\ inode' = [inode EXCEPT ![n] = [links |-> 1, size |-> size, blocks |-> bs, mode |-> TRUE]]
          /\ root' = Placed([ino |-> n, name |-> name, hidden |-> FALSE])
          /\ owner' = [owner EXCEPT ![n] = [name |-> name, blocks |-> bs, size |-> size,
                                            held |-> @.held \cup {name}]]
          /\ first' = first
  BY <1>1
<1>3. size \in Nat
  BY ExtAssumption
<1>4. bs \in Seq(Nat) /\ 2 * Len(bs) \in {size, size + 1} /\ ToSet(bs) \subseteq 0 .. ExtBlocks - 1
  BY <1>3, ArrangedIs DEF ExtInv
<1>5. PICK v : v = [links |-> 1, size |-> size, blocks |-> bs, mode |-> TRUE]
  OBVIOUS
<1>6. v \in INodes /\ v.links = 1 /\ v.size = size /\ v.blocks = bs /\ v.mode = TRUE
  BY <1>3, <1>4, <1>5 DEF INodes
<1>7. PICK d : d = [ino |-> n, name |-> name, hidden |-> FALSE]
  OBVIOUS
<1>8. d \in Slots /\ d.ino = n /\ d.name = name /\ d.hidden = FALSE
  BY <1>7 DEF Slots
<1>9. PICK h : h = owner[n].held \cup {name}
  OBVIOUS
<1>10. PICK o : o = [name |-> name, blocks |-> bs, size |-> size, held |-> h]
  OBVIOUS
<1>11. h \in SUBSET ExtNames /\ name \in AnyName
  <2>1. owner[n] \in Owners
    BY DEF ExtInv
  <2>2. owner[n].held \in SUBSET ExtNames
    BY <2>1 DEF Owners
  <2> QED
    BY <1>9, <2>2 DEF AnyName
<1>12. o \in Owners /\ o.name = name /\ o.blocks = bs /\ o.size = size /\ o.held = h
  BY <1>3, <1>4, <1>10, <1>11 DEF Owners
<1>13. /\ inode' \in [Inodes -> INodes] /\ inode'[n] = v /\ \A m \in Inodes : m # n => inode'[m] = inode[m]
       /\ owner' \in [Inodes -> Owners] /\ owner'[n] = o /\ \A m \in Inodes : m # n => owner'[m] = owner[m]
  <2>1. inode' = [inode EXCEPT ![n] = v] /\ owner' = [owner EXCEPT ![n] = o]
    BY <1>2, <1>5, <1>9, <1>10
  <2> QED
    BY <1>6, <1>12, <2>1 DEF ExtInv
<1>14. PICK at \in Nat : PlacedAt(root', at, d)
  <2>1. root \in Seq(Slots)
    BY DEF ExtInv
  <2> QED
    BY <1>2, <1>7, <1>8, <2>1, PlacedIs
<1>15. /\ root' \in Seq(Slots) /\ DOMAIN root' = DOMAIN root \cup {at} /\ root'[at] = d
       /\ \A i \in DOMAIN root : i # at => root'[i] = root[i]
       /\ \A i \in DOMAIN root : i < at => ~Vacant(root[i])
       /\ at \in DOMAIN root => Vacant(root[at])
       /\ \A i \in DOMAIN root : i \in Nat /\ root[i] \in Slots
  BY <1>14 DEF PlacedAt, ExtInv
<1>16. n # 0 /\ 0 \notin Inodes /\ ~(inode[n].links = 1)
  BY <1>2, ExtAssumption DEF InUse
<1>17. \A m \in Inodes : RowKept(m)'
  <2>1. RowKept(n)'
    BY <1>4, <1>6, <1>12, <1>13 DEF RowKept
  <2>2. ASSUME NEW m \in Inodes, m # n PROVE RowKept(m)'
    <3>1. RowKept(m)
      BY DEF ExtInv
    <3> QED
      BY <1>13, <2>2, <3>1 DEF RowKept
  <2> QED
    BY <2>1, <2>2
<1>18. ASSUME NEW i \in DOMAIN root', root'[i].ino # 0
       PROVE  root'[i].name \in owner'[root'[i].ino].held
  <2>1. CASE i = at
    BY <1>8, <1>9, <1>12, <1>13, <1>15, <2>1
  <2>2. CASE i # at
    <3>1. i \in DOMAIN root /\ root'[i] = root[i] /\ root[i] \in Slots
      BY <1>15, <2>2
    <3>2. root[i].ino \in Inodes /\ root[i].name \in owner[root[i].ino].held
      BY <1>18, <3>1, SlotIs DEF ExtInv
    <3>3. owner[root[i].ino].held \subseteq owner'[root[i].ino].held
      BY <1>9, <1>12, <1>13, <3>2
    <3> QED
      BY <3>1, <3>2, <3>3
  <2> QED
    BY <2>1, <2>2
(* An entry in use that is not the new one is of another inode.              *)
<1>19. ASSUME NEW i \in DOMAIN root', i # at, ~Vacant(root'[i])
       PROVE  /\ i \in DOMAIN root /\ root'[i] = root[i] /\ ~Vacant(root[i]) /\ root[i].ino \in Inodes
              /\ inode[root[i].ino].links = 1 /\ root[i].ino # n
  <2>1. i \in DOMAIN root /\ root'[i] = root[i] /\ ~Vacant(root[i]) /\ root[i] \in Slots
    BY <1>15, <1>19
  <2>2. inode[root[i].ino].links = 1
    BY <2>1 DEF ExtInv
  <2>3. root[i].ino \in Inodes
    BY <2>1, SlotIs DEF Vacant
  <2> QED
    BY <1>16, <2>1, <2>2, <2>3
<1>20. ASSUME NEW i \in DOMAIN root', ~Vacant(root'[i])
       PROVE  inode'[root'[i].ino].links = 1
  <2>1. CASE i = at
    BY <1>6, <1>8, <1>13, <1>15, <2>1
  <2>2. CASE i # at
    BY <1>13, <1>19, <1>20, <2>2
  <2> QED
    BY <2>1, <2>2
<1>21. ASSUME NEW i \in DOMAIN root', NEW j \in DOMAIN root', ~Vacant(root'[i]), ~Vacant(root'[j]),
              root'[i].ino = root'[j].ino
       PROVE  i = j
  <2>1. CASE i = at \/ j = at
    BY <1>8, <1>15, <1>19, <1>21, <2>1
  <2>2. CASE i # at /\ j # at
    <3>1. /\ i \in DOMAIN root /\ root'[i] = root[i] /\ ~Vacant(root[i])
          /\ j \in DOMAIN root /\ root'[j] = root[j] /\ ~Vacant(root[j])
      BY <1>19, <1>21, <2>2
    <3>2. root[i].ino = root[j].ino
      BY <1>21, <3>1
    <3> QED
      BY <3>1, <3>2 DEF ExtInv
  <2> QED
    BY <2>1, <2>2
<1>22. ASSUME NEW m \in Inodes, inode'[m].links = 1 PROVE inode'[m].mode /\ HasEntry(m)'
  <2>1. CASE m = n
    <3>1. ASSUME NEW j \in DOMAIN root', root'[j].ino = n PROVE at <= j
      <4>1. CASE j = at
        BY <4>1
      <4>2. CASE j # at
        <5>1. j \in DOMAIN root /\ Vacant(root'[j]) /\ root'[j] = root[j] /\ j \in Nat
          BY <1>15, <1>19, <3>1, <4>2
        <5> QED
          BY <1>15, <5>1
      <4> QED
        BY <4>1, <4>2
    <3>2. at \in DOMAIN root' /\ ~root'[at].hidden /\ root'[at].ino = n /\ root'[at].name = owner'[n].name
      BY <1>8, <1>12, <1>13, <1>15
    <3>3. HasEntry(n)'
      BY <3>1, <3>2 DEF HasEntry
    <3> QED
      BY <1>6, <1>13, <2>1, <3>3
  <2>2. CASE m # n
    <3>1. inode'[m] = inode[m] /\ owner'[m] = owner[m]
      BY <1>13, <2>2
    <3>2. inode[m].mode /\ HasEntry(m)
      BY <1>22, <3>1 DEF ExtInv
    <3>3. PICK i \in DOMAIN root : /\ ~root[i].hidden /\ root[i].ino = m /\ root[i].name = owner[m].name
                                   /\ \A j \in DOMAIN root : root[j].ino = m => i <= j
      BY <3>2 DEF HasEntry
    <3>4. ~Vacant(root[i]) /\ i # at
      BY <1>15, <1>16, <3>3 DEF Vacant
    <3>5. i \in DOMAIN root' /\ root'[i] = root[i]
      BY <1>15, <3>4
    <3>6. \A j \in DOMAIN root' : root'[j].ino = m => i <= j
      BY <1>8, <1>15, <2>2, <3>3
    <3>7. HasEntry(m)'
      BY <3>1, <3>3, <3>5, <3>6 DEF HasEntry
    <3> QED
      BY <3>1, <3>2, <3>7
  <2> QED
    BY <2>1, <2>2
<1>23. first' \in {0, 1}
  BY <1>2 DEF ExtInv
<1>24. root' \in Seq(Slots)
  BY <1>15
<1> QED
  BY <1>13, <1>17, <1>18, <1>20, <1>21, <1>22, <1>23, <1>24 DEF ExtInv

LEMMA UnlinkEntry ==
  ASSUME ExtInv, Unlink PROVE ExtInv'
<1>1. PICK n \in Inodes, at \in DOMAIN root :
        /\ InUse(n) /\ root[at].ino = n /\ ~root[at].hidden
        /\ root' \in {[root EXCEPT ![at].hidden = TRUE], [root EXCEPT ![at].ino = 0]}
        /\ inode' \in {[inode EXCEPT ![n].links = 0], [inode EXCEPT ![n] = [NoInode EXCEPT !.mode = TRUE]]}
        /\ first' = first /\ owner' = owner
  BY DEF Unlink
<1>2. PICK s \in Slots : s = root[at]
  BY DEF ExtInv
<1>3. PICK d : d \in {[s EXCEPT !.hidden = TRUE], [s EXCEPT !.ino = 0]} /\ root' = [root EXCEPT ![at] = d]
  BY <1>1, <1>2
<1>4. d \in Slots /\ d.name = s.name /\ d.ino \in {n, 0} /\ Vacant(d) /\ s.ino = n
  <2>1. s.ino = n
    BY <1>1, <1>2
  <2>2. CASE d = [s EXCEPT !.hidden = TRUE]
    BY <2>1, <2>2 DEF Slots, Vacant
  <2>3. CASE d = [s EXCEPT !.ino = 0]
    BY <2>1, <2>3 DEF Slots, Vacant
  <2> QED
    BY <1>3, <2>1, <2>2, <2>3
<1>5. PICK u \in INodes : u = inode[n]
  BY DEF ExtInv
<1>6. PICK v : /\ v \in {[u EXCEPT !.links = 0], [NoInode EXCEPT !.mode = TRUE]}
               /\ inode' = [inode EXCEPT ![n] = v]
  BY <1>1, <1>5
<1>7. v \in INodes /\ v.links = 0 /\ (v.blocks = <<>> \/ (v.blocks = u.blocks /\ v.size = u.size))
  <2>1. CASE v = [u EXCEPT !.links = 0]
    BY <1>5, <2>1 DEF INodes
  <2>2. CASE v = [NoInode EXCEPT !.mode = TRUE]
    <3>1. v = [links |-> 0, size |-> 0, blocks |-> <<>>, mode |-> TRUE]
      BY <2>2 DEF NoInode
    <3> QED
      BY <3>1 DEF INodes
  <2> QED
    BY <1>6, <2>1, <2>2
<1>8. inode' \in [Inodes -> INodes] /\ inode'[n] = v /\ \A m \in Inodes : m # n => inode'[m] = inode[m]
  BY <1>6, <1>7 DEF ExtInv
<1>9. /\ root' \in Seq(Slots) /\ DOMAIN root' = DOMAIN root /\ root'[at] = d
      /\ \A i \in DOMAIN root : i # at => root'[i] = root[i]
  <2>1. root \in Seq(Slots) /\ at \in 1 .. Len(root)
    BY DEF ExtInv
  <2> QED
    BY <1>3, <1>4, <2>1, ExceptSeq
<1>10. n # 0
  BY ExtAssumption
<1>11. ~Vacant(root[at]) /\ root[at].ino = n
  BY <1>1, <1>10 DEF Vacant
<1>12. \A m \in Inodes : RowKept(m)'
  <2>1. RowKept(n)'
    <3>1. RowKept(n)
      BY DEF ExtInv
    <3> QED
      BY <1>1, <1>5, <1>7, <1>8, <3>1 DEF RowKept
  <2>2. ASSUME NEW m \in Inodes, m # n PROVE RowKept(m)'
    <3>1. RowKept(m)
      BY DEF ExtInv
    <3> QED
      BY <1>1, <1>8, <2>2, <3>1 DEF RowKept
  <2> QED
    BY <2>1, <2>2
<1>13. ASSUME NEW i \in DOMAIN root', root'[i].ino # 0
       PROVE  root'[i].name \in owner'[root'[i].ino].held
  <2>1. root[i].ino = root'[i].ino /\ root[i].name = root'[i].name
    BY <1>2, <1>4, <1>9, <1>13
  <2> QED
    BY <1>1, <1>9, <1>13, <2>1 DEF ExtInv
(* The entries in use that are left are of other inodes.                     *)
<1>14. ASSUME NEW i \in DOMAIN root', ~Vacant(root'[i])
       PROVE  /\ i \in DOMAIN root /\ root'[i] = root[i] /\ ~Vacant(root[i])
              /\ root[i].ino # n /\ root[i].ino \in Inodes
  <2>1. i # at
    BY <1>4, <1>9, <1>14
  <2>2. i \in DOMAIN root /\ root'[i] = root[i] /\ ~Vacant(root[i])
    BY <1>9, <1>14, <2>1
  <2>3. root[i].ino # n
    BY <1>11, <2>1, <2>2 DEF ExtInv
  <2>4. root[i] \in Slots
    BY <2>2 DEF ExtInv
  <2>5. root[i].ino \in Inodes
    BY <2>2, <2>4, SlotIs DEF Vacant
  <2> QED
    BY <2>2, <2>3, <2>5
<1>15. ASSUME NEW i \in DOMAIN root', ~Vacant(root'[i])
       PROVE  inode'[root'[i].ino].links = 1
  <2>1. inode[root[i].ino].links = 1
    BY <1>14, <1>15 DEF ExtInv
  <2> QED
    BY <1>8, <1>14, <1>15, <2>1
<1>16. ASSUME NEW i \in DOMAIN root', NEW j \in DOMAIN root', ~Vacant(root'[i]), ~Vacant(root'[j]),
              root'[i].ino = root'[j].ino
       PROVE  i = j
  <2>1. /\ i \in DOMAIN root /\ root'[i] = root[i] /\ ~Vacant(root[i])
        /\ j \in DOMAIN root /\ root'[j] = root[j] /\ ~Vacant(root[j])
    BY <1>14, <1>16
  <2>2. root[i].ino = root[j].ino
    BY <1>16, <2>1
  <2> QED
    BY <2>1, <2>2 DEF ExtInv
<1>17. ASSUME NEW m \in Inodes, inode'[m].links = 1 PROVE inode'[m].mode /\ HasEntry(m)'
  <2>1. m # n
    BY <1>7, <1>8, <1>17
  <2>2. inode'[m] = inode[m]
    BY <1>8, <2>1
  <2>3. inode[m].mode /\ HasEntry(m)
    BY <1>17, <2>2 DEF ExtInv
  <2>4. PICK i \in DOMAIN root : /\ ~root[i].hidden /\ root[i].ino = m /\ root[i].name = owner[m].name
                                 /\ \A j \in DOMAIN root : root[j].ino = m => i <= j
    BY <2>3 DEF HasEntry
  <2>5. i # at /\ root'[i] = root[i] /\ 0 \notin Inodes
    BY <1>9, <1>11, <2>1, <2>4, ExtAssumption
  <2>6. \A j \in DOMAIN root' : root'[j].ino = m => i <= j
    BY <1>4, <1>9, <2>1, <2>4, <2>5
  <2>7. HasEntry(m)'
    BY <1>1, <1>9, <2>4, <2>5, <2>6 DEF HasEntry
  <2> QED
    BY <2>2, <2>3, <2>7
<1>18. first' \in {0, 1} /\ owner' \in [Inodes -> Owners]
  BY <1>1 DEF ExtInv
<1>19. root' \in Seq(Slots)
  BY <1>9
<1> QED
  BY <1>8, <1>12, <1>13, <1>15, <1>16, <1>17, <1>18, <1>19 DEF ExtInv

LEMMA ExtStep ==
  ASSUME ExtInv, [ExtNext]_extVars PROVE ExtInv'
<1>1. CASE UNCHANGED extVars
  BY <1>1 DEF ExtInv, RowKept, HasEntry, extVars
<1> QED
  BY <1>1, CreateEntry, UnlinkEntry DEF ExtNext

LEMMA NamesUnfold ==
  ASSUME root \in Seq(Slots), NEW id \in Inodes
  PROVE  \E f \in [0 .. Len(root) -> Seq(ExtNames)] :
           /\ names(id) = f[Len(root)] /\ f[0] = <<>>
           /\ \A k \in 1 .. Len(root) : f[k] = IF root[k].ino = id /\ (root[k].hidden => readInode(id).ok) THEN Append(f[k - 1], root[k].name) ELSE f[k - 1]
<1> DEFINE M(k, s) == IF root[k].ino = id /\ (root[k].hidden => readInode(id).ok) THEN Append(s, root[k].name) ELSE s
           n == Len(root)
           a == <<>>
           P(f) == f = [k \in 0 .. n |-> IF k = 0 THEN a ELSE M(k, f[k - 1])]
           G == [k \in 1 .. n |-> [s \in Seq(ExtNames) |-> M(k, s)]]
           g == CHOOSE f : P(f)
<1>1. n \in Nat /\ a \in Seq(ExtNames)
  OBVIOUS
<1>2. \A k \in 1 .. n : \A s \in Seq(ExtNames) : M(k, s) \in Seq(ExtNames)
  <2>1. ASSUME NEW k \in 1 .. n, NEW s \in Seq(ExtNames) PROVE M(k, s) \in Seq(ExtNames)
    <3>1. root[k] \in Slots
      OBVIOUS
    <3>2. root[k].name \in ExtNames
      BY <3>1, SlotIs
    <3> QED
      BY <3>2, AppendProperties
  <2> QED
    BY <2>1
<1>3. names(id) = g[n]
  BY DEF names
<1> HIDE DEF M, n, g, a
<1>4. Steps(n, Seq(ExtNames), a, G)
  BY <1>1, <1>2 DEF Steps
<1>5. PICK f : Solution(n, Seq(ExtNames), a, G, f)
  <2> HIDE DEF G
  <2> QED
    BY <1>1, <1>4, NatRecursion
<1>6. f \in [0 .. n -> Seq(ExtNames)] /\ f[0] = a /\ \A i \in 1 .. n : f[i] = M(i, f[i - 1])
  BY <1>5 DEF Solution
<1>7. P(f)
  BY <1>1, <1>6
<1>8. P(g)
  <2> HIDE DEF P
  <2> QED
    BY <1>7 DEF g
<1>9. g = f
  <2>1. g = [k \in 0 .. n |-> IF k = 0 THEN a ELSE M(k, g[k - 1])]
    BY <1>8
  <2>2. \A k \in 0 .. n : g[k] = IF k = 0 THEN a ELSE M(k, g[k - 1])
    BY <2>1
  <2>3. g = [k \in 0 .. n |-> g[k]] /\ g[0] = a
    BY <1>1, <2>1, <2>2
  <2>6. \A k \in 1 .. n : g[k] = M(k, g[k - 1])
    BY <1>1, <2>2
  <2>4. \A k \in 1 .. n : g[k - 1] \in Seq(ExtNames) => g[k] = G[k][g[k - 1]]
    BY <2>6
  <2>5. Solves(n, Seq(ExtNames), a, G, g)
    BY <2>3, <2>4 DEF Solves
  <2> HIDE DEF G, P
  <2> QED
    BY <1>1, <1>4, <1>5, <2>5, NatRecursionUnique
<1> QED
  BY <1>3, <1>6, <1>9 DEF M, n, a

(* The names of an inode are of its files, that of a live one first.         *)
LEMMA NamesAre ==
  ASSUME ExtInv, NEW id \in Inodes
  PROVE  /\ ToSet(names(id)) \subseteq owner[id].held
         /\ inode[id].links = 1 => names(id) # <<>> /\ names(id)[1] = owner[id].name
<1>1. PICK f \in [0 .. Len(root) -> Seq(ExtNames)] :
        /\ names(id) = f[Len(root)] /\ f[0] = <<>>
        /\ \A k \in 1 .. Len(root) : f[k] = IF root[k].ino = id /\ (root[k].hidden => readInode(id).ok)
                                            THEN Append(f[k - 1], root[k].name) ELSE f[k - 1]
  <2>1. root \in Seq(Slots)
    BY DEF ExtInv
  <2> QED
    BY <2>1, NamesUnfold
<1>2. PICK m \in Nat : m = Len(root) /\ DOMAIN root = 1 .. m
  BY DEF ExtInv
<1> DEFINE Shown(k) == root[k].ino = id /\ (root[k].hidden => readInode(id).ok)
<1>3. ASSUME NEW k \in 1 .. m
      PROVE  /\ f[k - 1] \in Seq(ExtNames) /\ f[k] \in Seq(ExtNames)
             /\ Shown(k) => /\ f[k] = Append(f[k - 1], root[k].name)
                            /\ ToSet(f[k]) = ToSet(f[k - 1]) \cup {root[k].name}
                            /\ f[k] # <<>> /\ f[k][1] = IF f[k - 1] = <<>> THEN root[k].name ELSE f[k - 1][1]
             /\ ~Shown(k) => f[k] = f[k - 1]
  <2>1. PICK s \in Seq(ExtNames) : s = f[k - 1]
    BY <1>1, <1>2
  <2>2. PICK x \in ExtNames : x = root[k].name
    <3>1. root[k] \in Slots
      BY <1>2 DEF ExtInv
    <3> QED
      BY <3>1, SlotIs
  <2>3. PICK t : t = Append(s, x)
    OBVIOUS
  <2>4. PICK l \in Nat : l = Len(s)
    OBVIOUS
  <2>5. t \in Seq(ExtNames) /\ Len(t) = l + 1 /\ \A i \in 1 .. l + 1 : t[i] = IF i = l + 1 THEN x ELSE s[i]
    BY <2>3, <2>4, AppendProperties
  <2>6. DOMAIN t = 1 .. l + 1 /\ DOMAIN s = 1 .. l /\ 1 .. l + 1 = 1 .. l \cup {l + 1} /\ l + 1 \notin 1 .. l
    BY <2>4, <2>5
  <2>7. ToSet(t) = ToSet(s) \cup {x}
    <3>1. \A i \in 1 .. l : t[i] = s[i]
      BY <2>5, <2>6
    <3>2. t[l + 1] = x
      BY <2>5, <2>6
    <3>3. \A y : y \in ToSet(t) <=> y \in ToSet(s) \cup {x}
      BY <2>6, <3>1, <3>2 DEF ToSet
    <3> QED
      BY <3>3
  <2>8. t # <<>> /\ t[1] = IF s = <<>> THEN x ELSE s[1]
    <3>1. CASE s = <<>>
      BY <2>4, <2>5, <3>1
    <3>2. CASE s # <<>>
      <4>1. l # 0
        BY <2>4, <3>2
      <4> QED
        BY <2>5, <3>2, <4>1
    <3> QED
      BY <3>1, <3>2
  <2>9. f[k] = IF Shown(k) THEN t ELSE s
    BY <1>1, <1>2, <2>1, <2>2, <2>3
  <2> HIDE DEF Shown
  <2>10. CASE Shown(k)
    BY <2>1, <2>2, <2>3, <2>5, <2>7, <2>8, <2>9, <2>10
  <2>11. CASE ~Shown(k)
    BY <2>1, <2>9, <2>11
  <2> QED
    BY <2>10, <2>11
<1>4. ToSet(f[m]) \subseteq owner[id].held
  <2> DEFINE E == {k \in 0 .. m : ToSet(f[k]) \subseteq owner[id].held}
  <2>1. 0 \in E
    BY <1>1 DEF ToSet
  <2>2. ASSUME NEW k \in 1 .. m, k - 1 \in E PROVE k \in E
    <3>1. CASE Shown(k)
      <4>1. root[k].name \in owner[id].held
        <5>1. root[k].ino = id /\ id # 0
          BY <3>1, ExtAssumption
        <5> QED
          BY <1>2, <5>1 DEF ExtInv
      <4>2. ToSet(f[k]) = ToSet(f[k - 1]) \cup {root[k].name}
        <5> HIDE DEF Shown
        <5> QED
          BY <1>3, <3>1
      <4> QED
        BY <2>2, <4>1, <4>2
    <3>2. CASE ~Shown(k)
      <4>1. f[k] = f[k - 1]
        <5> HIDE DEF Shown
        <5> QED
          BY <1>3, <3>2
      <4> QED
        BY <2>2, <4>1
    <3> QED
      BY <3>1, <3>2
  <2>3. 0 .. m \subseteq E
    <3> HIDE DEF E
    <3> QED
      BY <2>1, <2>2, UpTo
  <2> QED
    BY <2>3
<1>5. ASSUME inode[id].links = 1 PROVE f[m] # <<>> /\ f[m][1] = owner[id].name
  <2>1. PICK i \in 1 .. m : /\ ~root[i].hidden /\ root[i].ino = id /\ root[i].name = owner[id].name
                            /\ \A j \in 1 .. m : root[j].ino = id => i <= j
    BY <1>2, <1>5 DEF ExtInv, HasEntry
  <2>2. Shown(i) /\ \A j \in 1 .. m : Shown(j) => i <= j
    BY <2>1
  <2> HIDE DEF Shown
  <2> DEFINE E == {k \in 0 .. m : /\ k < i => f[k] = <<>>
                                  /\ k >= i => f[k] # <<>> /\ f[k][1] = owner[id].name}
  <2>3. 0 \in E
    BY <1>1
  <2>4. ASSUME NEW k \in 1 .. m, k - 1 \in E PROVE k \in E
    <3>1. CASE k < i
      <4>1. ~Shown(k) /\ k - 1 < i
        BY <2>2, <3>1
      <4> QED
        BY <1>3, <2>4, <3>1, <4>1
    <3>2. CASE k = i
      <4>1. Shown(k) /\ f[k - 1] = <<>>
        BY <2>2, <2>4, <3>2
      <4> QED
        BY <1>3, <2>1, <3>2, <4>1
    <3>3. CASE k > i
      <4>1. f[k - 1] # <<>> /\ f[k - 1][1] = owner[id].name
        BY <2>4, <3>3
      <4>2. f[k] # <<>> /\ f[k][1] = owner[id].name
        BY <1>3, <4>1
      <4> QED
        BY <3>3, <4>2
    <3> QED
      BY <3>1, <3>2, <3>3
  <2>5. 0 .. m \subseteq E
    <3> HIDE DEF E
    <3> QED
      BY <2>3, <2>4, UpTo
  <2> QED
    BY <2>1, <2>5
<1> QED
  BY <1>1, <1>2, <1>4, <1>5

(* No entry of an ext directory names an inode that is another file by now   *)
(* (dirEntries, namesIn).                                                    *)
THEOREM ExtEntriesOwn == ExtSpec => []EntriesOwn
<1>1. ExtInv => EntriesOwn
  <2>1. SUFFICES ASSUME ExtInv, NEW e \in ExtEntries
                 PROVE  /\ ToSet(e.names) \subseteq owner[e.num].held
                        /\ ~e.deleted => e.names # <<>> /\ e.names[1] = owner[e.num].name
    BY DEF EntriesOwn
  <2>2. PICK n \in Inodes : e = [num |-> n, names |-> names(n), deleted |-> readInode(n).links = 0,
                                 extents |-> extExtents(readInode(n))]
    BY DEF ExtEntries
  <2>3. e.num = n /\ e.names = names(n)
    BY <2>2
  <2>4. ~e.deleted => inode[n].links = 1
    <3>1. e.deleted <=> readInode(n).links = 0
      BY <2>2
    <3>2. readInode(n).links = inode[n].links
      BY DEF readInode
    <3>3. inode[n] \in INodes
      BY <2>1 DEF ExtInv
    <3>4. inode[n].links \in {0, 1}
      BY <3>3 DEF INodes
    <3> QED
      BY <3>1, <3>2, <3>4
  <2> QED
    BY <2>1, <2>3, <2>4, NamesAre
<1> QED
  BY <1>1, ExtStart, ExtStep, PTL DEF ExtSpec

-----------------------------------------------------------------------------
(* The bytes of a file whose blocks ascend.                                  *)

(* The ranges come one after the other, L bytes of them, the last up to p.   *)
Measured(es, off, L) ==
  /\ off \in [0 .. Len(es) -> Nat] /\ off[0] = 0 /\ off[Len(es)] = L
  /\ \A j \in 1 .. Len(es) : off[j] = off[j - 1] + es[j].len /\ es[j].len >= 2
  /\ \A j \in 0 .. Len(es) - 1 : off[j] + 2 <= L
Tidy(es, p, L) ==
  /\ es \in Seq(Ranges) /\ es # <<>> /\ End(es[Len(es)]) = p
  /\ \A i \in 1 .. Len(es) - 1 : End(es[i]) <= es[Len(es)].start
  /\ \E off : Measured(es, off, L)

LEMMA TidyFirst ==
  ASSUME NEW e \in Ranges, e.len = 2
  PROVE  Tidy(Joined(<<>>, e), End(e), 2)
<1>1. PICK es : es = <<e>>
  OBVIOUS
<1>2. Joined(<<>>, e) = es
  BY <1>1 DEF Joined
<1>3. es \in Seq(Ranges) /\ Len(es) = 1 /\ es[1] = e /\ es # <<>>
  BY <1>1
<1>4. PICK off : off = [j \in 0 .. 1 |-> IF j = 0 THEN 0 ELSE 2]
  OBVIOUS
<1>5. off \in [0 .. 1 -> Nat] /\ off[0] = 0 /\ off[1] = 2
  BY <1>4
<1>6. Measured(es, off, 2)
  BY <1>3, <1>5 DEF Measured
<1> QED
  BY <1>2, <1>3, <1>6 DEF Tidy

LEMMA TidyNext ==
  ASSUME NEW es, NEW p \in Nat, NEW L \in Nat, Tidy(es, p, L), NEW e \in Ranges, e.len = 2, p <= e.start
  PROVE  Tidy(Joined(es, e), End(e), L + 2)
<1>1. es \in Seq(Ranges) /\ es # <<>> /\ End(es[Len(es)]) = p
      /\ \A i \in 1 .. Len(es) - 1 : End(es[i]) <= es[Len(es)].start
  BY DEF Tidy
<1>2. PICK off : Measured(es, off, L)
  BY DEF Tidy
<1>3. PICK m \in Nat \ {0} : m = Len(es)
  BY <1>1
<1>4. PICK a \in Nat : a = e.start /\ End(e) = a + 2 /\ p <= a
  BY RangeIs DEF End
<1>5. PICK l \in Ranges : l = es[m]
  BY <1>1, <1>3
<1>6. PICK s \in Nat, n \in Nat : s = l.start /\ n = l.len /\ n >= 2 /\ s + n = p
  <2>1. PICK s \in Nat, n \in Nat : s = l.start /\ n = l.len
    BY RangeIs
  <2>2. End(l) = s + n /\ End(l) = p
    BY <1>1, <1>3, <1>5, <2>1 DEF End
  <2>3. es[m].len >= 2
    BY <1>2, <1>3 DEF Measured
  <2> QED
    BY <1>5, <2>1, <2>2, <2>3
<1>7. /\ off \in [0 .. m -> Nat] /\ off[0] = 0 /\ off[m] = L
      /\ \A j \in 1 .. m : off[j] = off[j - 1] + es[j].len /\ es[j].len >= 2
      /\ \A j \in 0 .. m - 1 : off[j] + 2 <= L
  BY <1>2, <1>3 DEF Measured
<1>8. \A i \in 1 .. m - 1 : End(es[i]) <= s
  BY <1>1, <1>3, <1>5, <1>6
<1>9. CASE a <= p
  <2>1. a = p
    BY <1>4, <1>9
  <2>20. PICK q : q = Greater(l.len, End(e) - l.start)
    OBVIOUS
  <2>2. PICK k : k = [l EXCEPT !.len = q]
    OBVIOUS
  <2>4. q = n + 2
    <3>1. q = Greater(n, a + 2 - s)
      BY <1>4, <1>6, <2>20
    <3>2. a + 2 - s = n + 2 /\ ~(n > n + 2)
      BY <1>6, <2>1
    <3> QED
      BY <3>1, <3>2 DEF Greater
  <2>3. k \in Ranges /\ k.start = s /\ k.len = n + 2
    BY <1>5, <1>6, <2>2, <2>4 DEF Ranges
  <2>5. Joined(es, e) = [es EXCEPT ![m] = k]
    BY <1>1, <1>3, <1>4, <1>9, <1>5, <2>2, <2>20 DEF Joined
  <2>6. PICK r : r = [es EXCEPT ![m] = k]
    OBVIOUS
  <2>7. /\ r \in Seq(Ranges) /\ Len(r) = m /\ r # <<>> /\ r[m] = k
        /\ \A i \in 1 .. m - 1 : r[i] = es[i]
    BY <1>1, <1>3, <2>3, <2>6
  <2>8. End(r[m]) = a + 2
    <3>1. End(k) = s + (n + 2)
      BY <2>3 DEF End
    <3> QED
      BY SMTT(30), <1>6, <2>1, <2>7, <3>1
  <2>9. PICK o : o = [off EXCEPT ![m] = L + 2]
    OBVIOUS
  <2>10. /\ o \in [0 .. m -> Nat] /\ o[m] = L + 2 /\ \A j \in 0 .. m - 1 : o[j] = off[j]
    BY <1>7, <2>9
  <2>11. ASSUME NEW j \in 1 .. m PROVE o[j] = o[j - 1] + r[j].len /\ r[j].len >= 2
    <3>1. j - 1 \in 0 .. m - 1 /\ off[j - 1] \in Nat /\ o[j - 1] = off[j - 1]
      BY <1>7, <2>10
    <3>2. CASE j = m
      <4>1. L = off[m - 1] + n
        BY <1>5, <1>6, <1>7
      <4>2. L + 2 = off[m - 1] + (n + 2) /\ n + 2 >= 2
        BY <1>6, <3>1, <3>2, <4>1
      <4> QED
        BY <2>3, <2>7, <2>10, <3>1, <3>2, <4>2
    <3>3. CASE j # m
      <4>1. j \in 1 .. m - 1 /\ j \in 0 .. m - 1
        BY <3>3
      <4> QED
        BY <1>7, <2>7, <2>10, <3>1, <4>1
    <3> QED
      BY <3>2, <3>3
  <2>12. \A j \in 0 .. m - 1 : o[j] + 2 <= L + 2
    <3>1. \A j \in 0 .. m - 1 : off[j] \in Nat /\ off[j] + 2 <= L
      BY <1>7
    <3> QED
      BY <2>10, <3>1
  <2>13. o[0] = 0
    BY <1>7, <2>10
  <2>14. Measured(r, o, L + 2)
    BY <2>7, <2>10, <2>11, <2>12, <2>13 DEF Measured
  <2>15. \A i \in 1 .. m - 1 : End(r[i]) <= r[m].start
    BY <1>8, <2>3, <2>7
  <2>16. Tidy(r, a + 2, L + 2)
    BY <2>7, <2>8, <2>14, <2>15 DEF Tidy
  <2> QED
    BY <1>4, <2>5, <2>6, <2>16
<1>10. CASE ~(a <= p)
  <2>1. PICK r : r = Append(es, e)
    OBVIOUS
  <2>2. Joined(es, e) = r
    BY <1>1, <1>4, <1>10, <2>1 DEF Joined
  <2>3. r \in Seq(Ranges) /\ Len(r) = m + 1 /\ \A i \in 1 .. m + 1 : r[i] = IF i = m + 1 THEN e ELSE es[i]
    BY <1>1, <1>3, <2>1, AppendProperties
  <2>4. r # <<>> /\ r[m + 1] = e /\ \A i \in 1 .. m : r[i] = es[i]
    BY <2>3
  <2>5. ASSUME NEW i \in 1 .. m PROVE End(r[i]) <= a
    <3>1. CASE i = m
      <4>1. End(r[i]) = p
        BY <1>1, <1>3, <2>4, <3>1
      <4> QED
        BY <1>4, <4>1
    <3>2. CASE i # m
      <4>1. i \in 1 .. m - 1
        BY <3>2
      <4>2. End(es[i]) <= s
        BY <1>8, <4>1
      <4>3. PICK x \in Nat : x = End(es[i])
        <5>1. es[i] \in Ranges
          BY <1>1, <1>3
        <5> QED
          BY <5>1, RangeIs DEF End
      <4> QED
        BY <1>4, <1>6, <2>4, <4>2, <4>3
    <3> QED
      BY <3>1, <3>2
  <2>6. PICK o : o = [j \in 0 .. m + 1 |-> IF j = m + 1 THEN L + 2 ELSE off[j]]
    OBVIOUS
  <2>7. /\ o \in [0 .. m + 1 -> Nat] /\ o[m + 1] = L + 2 /\ \A j \in 0 .. m : o[j] = off[j]
    BY <1>7, <2>6
  <2>8. ASSUME NEW j \in 1 .. m + 1 PROVE o[j] = o[j - 1] + r[j].len /\ r[j].len >= 2
    <3>1. j - 1 \in 0 .. m /\ o[j - 1] = off[j - 1]
      BY <2>7
    <3>2. CASE j = m + 1
      BY <1>7, <2>4, <2>7, <3>1, <3>2
    <3>3. CASE j # m + 1
      <4>1. j \in 1 .. m /\ j \in 0 .. m
        BY <3>3
      <4> QED
        BY <1>7, <2>4, <2>7, <3>1, <4>1
    <3> QED
      BY <3>2, <3>3
  <2>9. ASSUME NEW j \in 0 .. m PROVE o[j] + 2 <= L + 2
    <3>1. o[j] = off[j] /\ off[j] \in Nat
      BY <1>7, <2>7
    <3>2. off[j] <= L
      <4>1. CASE j = m
        BY <1>7, <4>1
      <4>2. CASE j # m
        <5>1. j \in 0 .. m - 1
          BY <4>2
        <5>2. off[j] + 2 <= L
          BY <1>7, <5>1
        <5> QED
          BY <3>1, <5>2
      <4> QED
        BY <4>1, <4>2
    <3> QED
      BY <3>1, <3>2
  <2>10. o[0] = 0
    BY <1>7, <2>7
  <2>11. (m + 1) - 1 = m
    OBVIOUS
  <2>12. Measured(r, o, L + 2)
    BY <2>3, <2>7, <2>8, <2>9, <2>10, <2>11 DEF Measured
  <2>13. Tidy(r, a + 2, L + 2)
    BY <1>4, <2>3, <2>4, <2>5, <2>11, <2>12 DEF Tidy
  <2> QED
    BY <1>4, <2>2, <2>13
<1> QED
  BY <1>9, <1>10

(* The ranges of a file's blocks, and their bytes.                           *)
PairsOf(bs) == [i \in DOMAIN bs |-> FSExtent(2 * bs[i], 2)]

LEMMA PairIs ==
  ASSUME NEW b \in Nat
  PROVE  /\ FSExtent(2 * b, 2) \in Ranges /\ FSExtent(2 * b, 2) \in Pieces
         /\ FSExtent(2 * b, 2).start = 2 * b /\ FSExtent(2 * b, 2).len = 2
         /\ End(FSExtent(2 * b, 2)) = 2 * b + 2
         /\ Of(FSExtent(2 * b, 2)) = {2 * b, 2 * b + 1}
<1>1. PICK a \in Nat : a = 2 * b
  OBVIOUS
<1>2. PICK e : e = FSExtent(a, 2)
  OBVIOUS
<1>3. e \in Ranges /\ e \in Pieces /\ e.start = a /\ e.len = 2
  BY <1>2 DEF FSExtent, Ranges, Pieces
<1>4. End(e) = a + 2
  BY <1>3 DEF End
<1>5. a .. a + 2 - 1 = {a, a + 1}
  OBVIOUS
<1>6. Of(e) = {a, a + 1}
  BY <1>3, <1>4, <1>5 DEF Of
<1> QED
  BY <1>1, <1>2, <1>3, <1>4, <1>6

LEMMA PairsAre ==
  ASSUME NEW bs \in Seq(Nat)
  PROVE  /\ PairsOf(bs) \in Seq(Ranges) /\ PairsOf(bs) \in Seq(Pieces) /\ Len(PairsOf(bs)) = Len(bs)
         /\ \A i \in 1 .. Len(bs) : PairsOf(bs)[i] = FSExtent(2 * bs[i], 2)
         /\ \A x : x \in Bytes(PairsOf(bs)) <=> \E i \in 1 .. Len(bs) : x \in {2 * bs[i], 2 * bs[i] + 1}
         /\ Ascending(bs) => PairsOf(bs) \in Rising
<1>1. PICK n \in Nat : n = Len(bs) /\ DOMAIN bs = 1 .. n
  OBVIOUS
<1>2. PICK in : in = PairsOf(bs)
  OBVIOUS
<1>3. DOMAIN in = 1 .. n /\ \A i \in 1 .. n : in[i] = FSExtent(2 * bs[i], 2) /\ bs[i] \in Nat
  BY <1>1, <1>2 DEF PairsOf
<1>4. \A i \in 1 .. n : in[i] \in Ranges /\ in[i] \in Pieces /\ Of(in[i]) = {2 * bs[i], 2 * bs[i] + 1}
  BY <1>3, PairIs
<1>5. in = [i \in 1 .. n |-> in[i]]
  BY <1>1, <1>2 DEF PairsOf
<1>6. in \in Seq(Ranges) /\ in \in Seq(Pieces) /\ Len(in) = n
  <2>1. in \in [1 .. n -> Ranges] /\ in \in [1 .. n -> Pieces]
    BY <1>4, <1>5
  <2> QED
    BY <2>1
<1>7. \A x : x \in Bytes(in) <=> \E i \in 1 .. n : x \in Of(in[i])
  BY <1>3 DEF Bytes, Of
<1>8. \A x : x \in Bytes(in) <=> \E i \in 1 .. n : x \in {2 * bs[i], 2 * bs[i] + 1}
  BY ZenonT(30), <1>4, <1>7
<1>9. ASSUME Ascending(bs) PROVE in \in Rising
  <2>1. ASSUME NEW i \in 1 .. n, NEW j \in 1 .. n, i <= j PROVE in[i].start <= in[j].start
    <3>1. PICK a \in Nat, b \in Nat : a = bs[i] /\ b = bs[j]
      BY <1>3
    <3>2. a <= b
      BY <1>1, <1>9, <2>1, <3>1 DEF Ascending
    <3>3. in[i].start = 2 * a /\ in[j].start = 2 * b
      BY <1>3, <3>1, PairIs
    <3> QED
      BY <3>2, <3>3
  <2> QED
    BY <1>3, <1>6, <2>1 DEF Rising, Ascend
<1> QED
  BY <1>1, <1>2, <1>3, <1>6, <1>8, <1>9

LEMMA JoinedTidy ==
  ASSUME NEW bs \in Seq(Nat), bs # <<>>, Ascending(bs)
  PROVE  Tidy(mergeExtents(PairsOf(bs)), 2 * bs[Len(bs)] + 2, 2 * Len(bs))
<1>1. PICK n \in Nat \ {0} : n = Len(bs) /\ DOMAIN bs = 1 .. n
  OBVIOUS
<1>2. PICK in \in Rising : in = PairsOf(bs)
  BY PairsAre
<1>3. in \in Seq(Pieces) /\ Len(in) = n /\ \A i \in 1 .. n : in[i] = FSExtent(2 * bs[i], 2) /\ bs[i] \in Nat
  BY <1>1, <1>2, PairsAre
<1>4. mergeExtents(in) = AllJoined(in)
  BY <1>3, Sorting DEF mergeExtents
<1>5. PICK f \in [0 .. Len(in) -> Seq(Ranges)] :
           /\ AllJoined(in) = f[Len(in)] /\ f[0] = <<>>
           /\ \A k \in 1 .. Len(in) : f[k] = Joined(f[k - 1], in[k])
  BY JoinedUnfold
<1> DEFINE T(k) == Tidy(f[k], 2 * bs[k] + 2, 2 * k)
           E == {k \in 0 .. n : k = 0 \/ T(k)}
<1>6. ASSUME NEW k \in 1 .. n, k - 1 \in E PROVE k \in E
  <2>1. PICK b \in Nat : b = bs[k]
    BY <1>3
  <2>2. PICK e \in Ranges : e = in[k] /\ e.start = 2 * b /\ e.len = 2 /\ End(e) = 2 * b + 2
    BY <1>3, <2>1, PairIs
  <2>3. f[k] = Joined(f[k - 1], e)
    BY <1>3, <1>5, <2>2
  <2>4. CASE k = 1
    <3>1. f[k - 1] = <<>> /\ 2 * k = 2
      BY <1>5, <2>4
    <3>2. Tidy(f[k], End(e), 2)
      BY <2>2, <2>3, <3>1, TidyFirst
    <3>3. 2 * bs[k] + 2 = End(e) /\ 2 * k = 2
      BY <2>1, <2>2, <3>1
    <3>4. T(k)
      BY <3>2, <3>3
    <3> HIDE DEF T
    <3> QED
      BY <3>4
  <2>5. CASE k # 1
    <3>1. PICK p \in Nat : p = k - 1 /\ p \in 1 .. n /\ p # 0
      BY <2>5
    <3>2. PICK a \in Nat : a = bs[p]
      BY <1>3, <3>1
    <3>3. a < b
      <4>1. p \in DOMAIN bs /\ k \in DOMAIN bs /\ p < k
        BY <1>1, <3>1
      <4> QED
        BY <2>1, <3>2, <4>1 DEF Ascending
    <3>4. PICK q \in Nat, l \in Nat : q = 2 * a + 2 /\ l = 2 * p
      OBVIOUS
    <3>5. q <= e.start /\ l + 2 = 2 * k
      BY <2>2, <3>1, <3>3, <3>4
    <3>6. Tidy(f[p], q, l)
      BY <1>6, <3>1, <3>2, <3>4
    <3>7. Tidy(f[k], End(e), l + 2)
      BY <2>2, <2>3, <3>1, <3>5, <3>6, TidyNext
    <3>8. 2 * bs[k] + 2 = End(e) /\ 2 * k = l + 2
      BY <2>1, <2>2, <3>5
    <3>9. T(k)
      BY <3>7, <3>8
    <3> HIDE DEF T
    <3> QED
      BY <3>9
  <2> QED
    BY <2>4, <2>5
<1>7. 0 \in E
  OBVIOUS
<1>8. 0 .. n \subseteq E
  <2> HIDE DEF E
  <2> QED
    BY <1>6, <1>7, UpTo
<1>9. n \in 0 .. n
  OBVIOUS
<1>10. Tidy(f[n], 2 * bs[n] + 2, 2 * n)
  BY <1>8, <1>9
<1> QED
  BY <1>1, <1>2, <1>3, <1>4, <1>5, <1>10

(* Cutting takes the ranges in their order, as long as bytes are wanted.     *)
Cuts == [want : Nat, out : Seq(Pieces)]

LEMMA CutIs ==
  ASSUME NEW acc \in Cuts, NEW e \in Ranges
  PROVE  /\ acc.want \in Nat /\ Cut(acc, e) \in Cuts
         /\ acc.want = 0 => Cut(acc, e) = acc
         /\ acc.want # 0 => \A n \in Nat : n = Smaller(e.len, acc.want) =>
              /\ Cut(acc, e).want = acc.want - n
              /\ Bytes(Cut(acc, e).out) = Bytes(acc.out) \cup (e.start .. e.start + n - 1)
<1>1. PICK w \in Nat, o \in Seq(Pieces) : w = acc.want /\ o = acc.out
  BY DEF Cuts
<1>2. PICK s \in Nat, l \in Nat : s = e.start /\ l = e.len
  BY RangeIs
<1>3. CASE w = 0
  BY <1>1, <1>3 DEF Cut
<1>4. CASE w # 0
  <2>1. PICK n \in Nat : n = Smaller(l, w) /\ n <= w
    BY DEF Smaller
  <2>2. PICK p : p = FSExtent(s, n)
    OBVIOUS
  <2>3. p \in Pieces /\ p.start = s /\ End(p) = s + n
    BY <2>2 DEF FSExtent, Pieces, End
  <2>4. PICK t : t = Append(o, p)
    OBVIOUS
  <2>5. PICK m \in Nat : m = Len(o)
    OBVIOUS
  <2>6. t \in Seq(Pieces) /\ Len(t) = m + 1 /\ \A j \in 1 .. m + 1 : t[j] = IF j = m + 1 THEN p ELSE o[j]
    BY <2>3, <2>4, <2>5, AppendProperties
  <2>7. \A x : x \in Bytes(t) <=> \E j \in 1 .. m + 1 : x \in Of(t[j])
    BY <2>6 DEF Bytes, Of
  <2>8. \A x : x \in Bytes(o) <=> \E j \in 1 .. m : x \in Of(o[j])
    BY <2>5 DEF Bytes, Of
  <2>9. \A j \in 1 .. m : j \in 1 .. m + 1 /\ t[j] = o[j]
    BY <2>6
  <2>10. \A j \in 1 .. m + 1 : j = m + 1 \/ j \in 1 .. m
    OBVIOUS
  <2>11. m + 1 \in 1 .. m + 1 /\ t[m + 1] = p
    BY <2>6
  <2>12. \A x : x \in Bytes(t) <=> x \in Bytes(o) \/ x \in Of(p)
    BY <2>7, <2>8, <2>9, <2>10, <2>11
  <2>13. Of(p) = s .. s + n - 1
    BY <2>3 DEF Of
  <2>14. Bytes(t) = Bytes(o) \cup (s .. s + n - 1)
    BY <2>12, <2>13
  <2>15. PICK c : c = [want |-> w - n, out |-> t]
    OBVIOUS
  <2>16. c \in Cuts /\ c.want = w - n /\ c.out = t
    BY <2>1, <2>6, <2>15 DEF Cuts
  <2>17. Cut(acc, e) = c
    BY <1>1, <1>2, <1>4, <2>1, <2>2, <2>4, <2>15 DEF Cut
  <2> QED
    BY <1>1, <1>2, <1>4, <2>1, <2>14, <2>16, <2>17
<1> QED
  BY <1>1, <1>3, <1>4

LEMMA CutUnfold ==
  ASSUME NEW es \in Seq(Ranges), NEW size \in Nat
  PROVE  \E f \in [0 .. Len(es) -> Cuts] :
           /\ Trimmed(es, size) = f[Len(es)].out /\ f[0] = [want |-> size, out |-> <<>>]
           /\ \A k \in 1 .. Len(es) : f[k] = Cut(f[k - 1], es[k])
<1> DEFINE M(k, s) == Cut(s, es[k])
           n == Len(es)
           a == [want |-> size, out |-> <<>>]
           P(f) == f = [k \in 0 .. n |-> IF k = 0 THEN a ELSE M(k, f[k - 1])]
           G == [k \in 1 .. n |-> [s \in Cuts |-> M(k, s)]]
           g == CHOOSE f : P(f)
<1>1. n \in Nat /\ a \in Cuts
  <2>1. <<>> \in Seq(Pieces)
    OBVIOUS
  <2> QED
    BY <2>1 DEF Cuts
<1>2. \A k \in 1 .. n : \A s \in Cuts : M(k, s) \in Cuts
  BY CutIs
<1>3. Trimmed(es, size) = g[n].out
  BY DEF Trimmed
<1> HIDE DEF M, n, g, a
<1>4. Steps(n, Cuts, a, G)
  BY <1>1, <1>2 DEF Steps
<1>5. PICK f : Solution(n, Cuts, a, G, f)
  <2> HIDE DEF G
  <2> QED
    BY <1>1, <1>4, NatRecursion
<1>6. f \in [0 .. n -> Cuts] /\ f[0] = a /\ \A i \in 1 .. n : f[i] = M(i, f[i - 1])
  BY <1>5 DEF Solution
<1>7. P(f)
  BY <1>1, <1>6
<1>8. P(g)
  <2> HIDE DEF P
  <2> QED
    BY <1>7 DEF g
<1>9. g = f
  <2>1. g = [k \in 0 .. n |-> IF k = 0 THEN a ELSE M(k, g[k - 1])]
    BY <1>8
  <2>2. \A k \in 0 .. n : g[k] = IF k = 0 THEN a ELSE M(k, g[k - 1])
    BY <2>1
  <2>3. g = [k \in 0 .. n |-> g[k]] /\ g[0] = a
    BY <1>1, <2>1, <2>2
  <2>6. \A k \in 1 .. n : g[k] = M(k, g[k - 1])
    BY <1>1, <2>2
  <2>4. \A k \in 1 .. n : g[k - 1] \in Cuts => g[k] = G[k][g[k - 1]]
    BY <2>6
  <2>5. Solves(n, Cuts, a, G, g)
    BY <2>3, <2>4 DEF Solves
  <2> HIDE DEF G, P
  <2> QED
    BY <1>1, <1>4, <1>5, <2>5, NatRecursionUnique
<1> QED
  BY <1>3, <1>6, <1>9 DEF M, n, a

LEMMA OfIs ==
  ASSUME NEW e \in Ranges
  PROVE  \E s \in Nat, l \in Nat : s = e.start /\ l = e.len /\ End(e) = s + l /\ Of(e) = s .. s + l - 1
<1>1. e.start \in Nat /\ e.len \in Nat /\ End(e) = e.start + e.len
  BY RangeIs DEF End
<1>2. Of(e) = e.start .. e.start + e.len - 1
  BY <1>1 DEF Of
<1> QED
  BY <1>1, <1>2

LEMMA Halves ==
  ASSUME NEW x \in Nat
  PROVE  \E h \in Nat, r \in {0, 1} : h = x \div 2 /\ r = x % 2 /\ x = 2 * h + r
<1>1. x \div 2 \in Nat /\ x % 2 \in {0, 1} /\ x = 2 * (x \div 2) + (x % 2)
  OBVIOUS
<1> QED
  BY <1>1

LEMMA HalfOf ==
  ASSUME NEW h \in Nat, NEW x
  PROVE  x \in {2 * h, 2 * h + 1} <=> x \in Nat /\ x \div 2 = h
<1>1. ASSUME x \in {2 * h, 2 * h + 1} PROVE x \in Nat /\ x \div 2 = h
  <2>1. x \in Nat /\ 2 * h <= x /\ x <= 2 * h + 1
    BY <1>1
  <2>2. PICK g \in Nat, r \in {0, 1} : g = x \div 2 /\ x = 2 * g + r
    BY <2>1, Halves
  <2> QED
    BY <2>1, <2>2
<1>2. ASSUME x \in Nat, x \div 2 = h PROVE x \in {2 * h, 2 * h + 1}
  <2>1. PICK g \in Nat, r \in {0, 1} : g = x \div 2 /\ x = 2 * g + r
    BY <1>2, Halves
  <2> QED
    BY <1>2, <2>1
<1> QED
  BY <1>1, <1>2

(* Cut one byte short, the ranges lose the last byte.                        *)
LEMMA CutLast ==
  ASSUME NEW es, NEW p \in Nat, NEW L \in Nat \ {0}, Tidy(es, p, L)
  PROVE  \A x : x \in Bytes(Trimmed(es, L - 1)) <=> x \in Bytes(es) /\ x # p - 1
<1>1. es \in Seq(Ranges) /\ es # <<>> /\ End(es[Len(es)]) = p
      /\ \A i \in 1 .. Len(es) - 1 : End(es[i]) <= es[Len(es)].start
  BY DEF Tidy
<1>2. PICK off : Measured(es, off, L)
  BY DEF Tidy
<1>3. PICK m \in Nat \ {0} : m = Len(es) /\ DOMAIN es = 1 .. m
  BY <1>1
<1>4. /\ off \in [0 .. m -> Nat] /\ off[0] = 0 /\ off[m] = L
      /\ \A j \in 1 .. m : off[j] = off[j - 1] + es[j].len /\ es[j].len >= 2
      /\ \A j \in 0 .. m - 1 : off[j] + 2 <= L
  BY <1>2, <1>3 DEF Measured
<1>5. PICK size \in Nat : size = L - 1
  OBVIOUS
<1>6. PICK f \in [0 .. Len(es) -> Cuts] :
           /\ Trimmed(es, size) = f[Len(es)].out /\ f[0] = [want |-> size, out |-> <<>>]
           /\ \A k \in 1 .. Len(es) : f[k] = Cut(f[k - 1], es[k])
  BY <1>1, CutUnfold
<1> DEFINE Upto(k) == UNION {Of(es[i]) : i \in 1 .. k}
           Q(k) == f[k].want = size - off[k] /\ Bytes(f[k].out) = Upto(k)
           E == {k \in 0 .. m - 1 : Q(k)}
<1>7. 0 \in E
  <2>1. f[0].want = size /\ f[0].out = <<>>
    BY <1>6
  <2>2. Bytes(<<>>) = {} /\ 1 .. 0 = {}
    BY DEF Bytes
  <2>3. Upto(0) = {}
    BY <2>2
  <2>4. size = size - off[0]
    BY <1>4
  <2> QED
    BY <2>1, <2>2, <2>3, <2>4
<1>8. ASSUME NEW k \in 1 .. m
      PROVE  Upto(k) = Upto(k - 1) \cup Of(es[k])
  <2>1. 1 .. k = 1 .. k - 1 \cup {k}
    BY <1>8
  <2> QED
    BY <2>1, Zenon
<1>9. ASSUME NEW k \in 1 .. m
      PROVE  es[k] \in Ranges /\ f[k - 1] \in Cuts /\ f[k] = Cut(f[k - 1], es[k]) /\ off[k - 1] \in Nat
             /\ off[k] \in Nat /\ es[k].len \in Nat /\ es[k].start \in Nat
             /\ off[k] = off[k - 1] + es[k].len /\ es[k].len >= 2
  <2>1. es[k] \in Ranges
    BY <1>1, <1>3
  <2>2. f[k - 1] \in Cuts /\ f[k] = Cut(f[k - 1], es[k])
    BY <1>3, <1>6
  <2>4. k - 1 \in 0 .. m /\ k \in 0 .. m
    BY <1>9
  <2>5. off[k - 1] \in Nat /\ off[k] \in Nat
    BY <1>4, <2>4
  <2>3. off[k] = off[k - 1] + es[k].len /\ es[k].len >= 2
    BY <1>4
  <2> QED
    BY <2>1, <2>2, <2>3, <2>5, RangeIs
<1> HIDE DEF Upto
<1>10. ASSUME NEW k \in 1 .. m - 1, k - 1 \in E PROVE k \in E
  <2>1. k \in 1 .. m /\ k \in 0 .. m - 1
    OBVIOUS
  <2>11. PICK s \in Nat, l \in Nat : s = es[k].start /\ l = es[k].len /\ Of(es[k]) = s .. s + l - 1
    <3>1. PICK e \in Ranges : e = es[k]
      BY <1>9, <2>1
    <3> QED
      BY <3>1, OfIs
  <2>2. PICK a \in Nat, b \in Nat : a = off[k - 1] /\ b = off[k]
    BY <1>9, <2>1
  <2>3. b = a + l /\ l >= 2 /\ b + 2 <= L
    BY <1>4, <1>9, <2>1, <2>2, <2>11
  <2>4. PICK c \in Cuts : c = f[k - 1] /\ c.want = size - a /\ Bytes(c.out) = Upto(k - 1)
    BY <1>9, <1>10, <2>1, <2>2
  <2>5. c.want # 0 /\ l = Smaller(l, size - a)
    BY SMTT(30), <1>5, <2>3, <2>4 DEF Smaller
  <2>6. /\ Cut(c, es[k]).want = (size - a) - l
        /\ Bytes(Cut(c, es[k]).out) = Bytes(c.out) \cup (s .. s + l - 1)
    <3>1. PICK e \in Ranges : e = es[k] /\ e.len = l /\ e.start = s
      BY <1>9, <2>1, <2>11
    <3>2. l \in Nat /\ l = Smaller(e.len, c.want)
      BY <2>4, <2>5, <2>11, <3>1
    <3>3. /\ Cut(c, e).want = c.want - l
          /\ Bytes(Cut(c, e).out) = Bytes(c.out) \cup (e.start .. e.start + l - 1)
      BY <2>5, <3>2, CutIs
    <3> QED
      BY <2>4, <3>1, <3>3
  <2>7. (size - a) - l = size - b
    BY <2>3
  <2>9. f[k] = Cut(c, es[k])
    BY <1>9, <2>1, <2>4
  <2>10. Q(k)
    BY <1>8, <2>1, <2>2, <2>4, <2>6, <2>7, <2>9, <2>11
  <2> HIDE DEF Q
  <2> QED
    BY <2>1, <2>10
<1>11. Q(m - 1)
  <2> HIDE DEF Q
  <2>1. 0 .. m - 1 \subseteq E
    <3> HIDE DEF E
    <3> QED
      BY SMTT(30), <1>7, <1>10, UpTo
  <2> QED
    BY <2>1
<1> HIDE DEF E, Q
<1>24. m \in 1 .. m
  OBVIOUS
<1>25. PICK s \in Nat, l \in Nat :
         s = es[m].start /\ l = es[m].len /\ End(es[m]) = s + l /\ Of(es[m]) = s .. s + l - 1
  BY <1>9, <1>24, OfIs
<1>12. PICK a \in Nat : a = off[m - 1] /\ L = a + l /\ l >= 2
  <2>1. off[m - 1] \in Nat /\ off[m] = off[m - 1] + es[m].len /\ es[m].len >= 2
    BY <1>9, <1>24
  <2> QED
    BY <1>4, <1>25, <2>1
<1>13. PICK c \in Cuts : c = f[m - 1] /\ c.want = size - a /\ Bytes(c.out) = Upto(m - 1)
  <2>1. f[m - 1] \in Cuts
    BY <1>9, <1>24
  <2> QED
    BY <1>11, <1>12, <2>1 DEF Q
<1>26. size - a = l - 1
  <2>1. l \in Nat /\ a \in Nat /\ L = a + l /\ size = L - 1
    BY <1>5, <1>12, <1>25
  <2> QED
    BY <2>1
<1>14. PICK n \in Nat : n = l - 1 /\ c.want # 0 /\ n = Smaller(l, c.want)
  <2>1. c.want = l - 1 /\ ~(l < l - 1) /\ l - 1 \in Nat /\ l - 1 # 0
    BY <1>12, <1>13, <1>26
  <2> QED
    BY <2>1 DEF Smaller
<1>15. Bytes(Cut(c, es[m]).out) = Bytes(c.out) \cup (s .. s + n - 1)
  <2>1. n \in Nat /\ n = Smaller(es[m].len, c.want) /\ s = es[m].start /\ es[m] \in Ranges
    BY <1>9, <1>24, <1>25, <1>14
  <2> QED
    BY ZenonT(30), <1>14, <2>1, CutIs
<1>16. Bytes(Trimmed(es, size)) = Upto(m - 1) \cup (s .. s + n - 1)
  BY <1>3, <1>6, <1>9, <1>13, <1>15, <1>24
<1>17. Bytes(es) = Upto(m)
  BY <1>3 DEF Bytes, Upto, Of
<1>23. p = s + l
  BY <1>1, <1>3, <1>25
<1>19. Bytes(es) = Upto(m - 1) \cup (s .. s + l - 1)
  BY <1>8, <1>17, <1>24, <1>25
<1>20. \A x \in Upto(m - 1) : x # p - 1
  <2>1. SUFFICES ASSUME NEW i \in 1 .. m - 1, NEW x \in Of(es[i]) PROVE x # p - 1
    BY DEF Upto
  <2>2. PICK t \in Nat, u \in Nat : End(es[i]) = t + u /\ Of(es[i]) = t .. t + u - 1
    <3>1. es[i] \in Ranges
      BY <1>1, <1>3
    <3> QED
      BY <3>1, OfIs
  <2>3. t + u <= s
    BY <1>1, <1>3, <1>25, <2>2
  <2>4. x \in t .. t + u - 1
    BY <2>1, <2>2
  <2> QED
    BY <1>12, <1>23, <2>3, <2>4
<1>21. \A x : x \in s .. s + n - 1 <=> x \in s .. s + l - 1 /\ x # p - 1
  <2>1. s .. s + n - 1 = (s .. s + l - 1) \ {p - 1}
    <3>1. n = l - 1 /\ p = s + l /\ l >= 2
      BY <1>12, <1>14, <1>23
    <3> QED
      BY <3>1
  <2> QED
    BY <2>1
<1> QED
  BY <1>5, <1>16, <1>19, <1>20, <1>21

(* An inode whose blocks ascend is read as its bytes.                        *)
LEMMA BytesAre ==
  ASSUME NEW bs \in Seq(Nat), bs # <<>>, Ascending(bs), NEW size \in Nat, 2 * Len(bs) \in {size, size + 1},
         NEW in, in.blocks = bs, in.size = size
  PROVE  \A x : x \in Bytes(extExtents(in)) <=>
           x \in Nat /\ \E i \in 1 .. Len(bs) : x \div 2 = bs[i] /\ 2 * (i - 1) + (x % 2) < size
<1>1. PICK n \in Nat \ {0} : n = Len(bs) /\ DOMAIN bs = 1 .. n
  OBVIOUS
<1>2. PICK all : all = mergeExtents(PairsOf(bs))
  OBVIOUS
<1>3. PICK c \in Nat : c = bs[n]
  BY <1>1
<1>4. PICK L \in Nat \ {0} : L = 2 * n
  OBVIOUS
<1>5. PICK p \in Nat : p = 2 * c + 2
  OBVIOUS
<1>6. Tidy(all, p, L)
  BY <1>1, <1>2, <1>3, <1>4, <1>5, JoinedTidy
<1>7. \A x : x \in Bytes(all) <=> \E i \in 1 .. n : x \in {2 * bs[i], 2 * bs[i] + 1}
  <2>1. PairsOf(bs) \in Seq(Pieces)
    BY PairsAre
  <2>2. Bytes(all) = Bytes(PairsOf(bs))
    BY <1>2, <2>1, Merging
  <2> QED
    BY <1>1, <2>2, PairsAre
<1>9. \A x : x \in Bytes(all) <=> x \in Nat /\ \E i \in 1 .. n : x \div 2 = bs[i]
  <2>1. \A i \in 1 .. n : bs[i] \in Nat
    BY <1>1
  <2>2. \A i \in 1 .. n : \A x : x \in {2 * bs[i], 2 * bs[i] + 1} <=> x \in Nat /\ x \div 2 = bs[i]
    BY <2>1, HalfOf
  <2> QED
    BY <1>7, <2>2
<1>10. extExtents(in) = IF size < 2 * n THEN Trimmed(all, size) ELSE all
  BY <1>1, <1>2 DEF extExtents, PairsOf
<1>11. CASE 2 * n = size
  <2>1. ~(size < 2 * n)
    BY <1>11
  <2>2. \A x \in Nat : \A i \in 1 .. n : 2 * (i - 1) + (x % 2) < size
    BY <1>11
  <2> QED
    BY <1>1, <1>9, <1>10, <2>1, <2>2
<1>12. CASE 2 * n = size + 1
  <2>1. size < 2 * n /\ size = L - 1
    BY <1>4, <1>12
  <2>2. \A x : x \in Bytes(extExtents(in)) <=> x \in Bytes(all) /\ x # p - 1
    BY <1>6, <1>10, <2>1, CutLast
  <2>3. ASSUME NEW x \in Nat, NEW i \in 1 .. n, x \div 2 = bs[i]
        PROVE  2 * (i - 1) + (x % 2) < size <=> x # p - 1
    <3>1. PICK b \in Nat : b = bs[i]
      BY <1>1
    <3>2. PICK r \in {0, 1} : r = x % 2 /\ x = 2 * b + r
      BY <2>3, <3>1, Halves
    <3>3. CASE i = n
      <4>1. b = c
        BY <1>3, <3>1, <3>3
      <4>2. 2 * (n - 1) + r < size <=> r = 0
        BY <1>12
      <4>3. x # p - 1 <=> r = 0
        BY <1>5, <3>2, <4>1
      <4> QED
        BY <3>2, <3>3, <4>2, <4>3
    <3>4. CASE i # n
      <4>1. i < n /\ i \in DOMAIN bs /\ n \in DOMAIN bs
        BY <1>1, <3>4
      <4>2. b < c
        BY <1>3, <3>1, <4>1 DEF Ascending
      <4>3. x # p - 1
        BY <1>5, <3>2, <4>2
      <4>4. 2 * (i - 1) + r < size
        BY <1>12, <4>1
      <4> QED
        BY <3>2, <4>3, <4>4
    <3> QED
      BY <3>3, <3>4
  <2> QED
    BY <1>1, <1>9, <2>2, <2>3
<1> QED
  BY <1>1, <1>11, <1>12

(* The bytes of a file whose blocks ascend (readInode, Entries).             *)
THEOREM ExtAscendingExact == ExtSpec => []AscendingExact
<1>1. ExtInv => AscendingExact
  <2>1. SUFFICES ASSUME ExtInv, NEW e \in ExtEntries, inode[e.num].blocks # <<>>,
                        Ascending(inode[e.num].blocks)
                 PROVE  Bytes(e.extents) = ExtContent(e.num)
    BY DEF AscendingExact
  <2>2. PICK n \in Inodes : e = [num |-> n, names |-> names(n), deleted |-> readInode(n).links = 0,
                                 extents |-> extExtents(readInode(n))]
    BY DEF ExtEntries
  <2>3. PICK in : in = readInode(n)
    OBVIOUS
  <2>4. e.num = n /\ e.extents = extExtents(in)
    BY <2>2, <2>3
  <2>5. inode[n] \in INodes /\ RowKept(n)
    BY <2>1 DEF ExtInv
  <2>6. PICK bs \in Seq(Nat), size \in Nat : bs = inode[n].blocks /\ size = inode[n].size
    BY <2>5 DEF INodes
  <2>7. /\ bs # <<>> /\ Ascending(bs) /\ bs = owner[n].blocks /\ size = owner[n].size
        /\ 2 * Len(bs) \in {size, size + 1} /\ ToSet(bs) \subseteq 0 .. ExtBlocks - 1
    BY <2>1, <2>4, <2>5, <2>6 DEF RowKept
  <2>8. PICK k \in Nat : k = Len(bs) /\ DOMAIN bs = 1 .. k
    OBVIOUS
  <2>9. in.blocks = bs /\ in.size = size
    <3>1. in.blocks = SubSeq(bs, 1, Smaller(k, (size + 1) \div 2)) /\ in.size = size
      BY <2>3, <2>6, <2>8 DEF readInode
    <3>2. (size + 1) \div 2 = k
      <4>1. 2 * k = size \/ 2 * k = size + 1
        BY <2>7, <2>8
      <4>2. PICK h \in Nat, r \in {0, 1} : h = (size + 1) \div 2 /\ size + 1 = 2 * h + r
        BY Halves
      <4> QED
        BY <4>1, <4>2
    <3>3. Smaller(k, k) = k
      BY DEF Smaller
    <3>4. SubSeq(bs, 1, k) = bs
      BY <2>8
    <3> QED
      BY <3>1, <3>2, <3>3, <3>4
  <2>10. \A x : x \in Bytes(extExtents(in)) <=>
           x \in Nat /\ \E i \in 1 .. k : x \div 2 = bs[i] /\ 2 * (i - 1) + (x % 2) < size
    BY <2>7, <2>8, <2>9, BytesAre
  <2>11. \A x : x \in ExtContent(n) <=>
           x \in 0 .. 2 * ExtBlocks /\ \E i \in 1 .. k : x \div 2 = bs[i] /\ 2 * (i - 1) + (x % 2) < size
    BY <2>7, <2>8 DEF ExtContent
  <2>12. ASSUME NEW x \in Nat, NEW i \in 1 .. k, x \div 2 = bs[i]
         PROVE  x \in 0 .. 2 * ExtBlocks
    <3>1. bs[i] \in 0 .. ExtBlocks - 1
      BY <2>7, <2>8 DEF ToSet
    <3>2. PICK b \in Nat, t \in Nat : b = bs[i] /\ t = ExtBlocks /\ b + 1 <= t
      BY <3>1, ExtAssumption
    <3>3. x <= 2 * b + 1
      BY <2>12, <3>2
    <3> QED
      BY <3>2, <3>3
  <2>13. 0 .. 2 * ExtBlocks \subseteq Nat
    BY ExtAssumption
  <2> QED
    BY <2>4, <2>10, <2>11, <2>12, <2>13
<1> QED
  BY <1>1, ExtStart, ExtStep, PTL DEF ExtSpec

-----------------------------------------------------------------------------
(* The clusters of a FAT volume.                                             *)

FatFiles == [name : FatNames, kind : {"file", "dir"}, clusters : Seq(Clusters), size : Nat,
             state : {"live", "deleted", "lost"}]
HasOf(id) == ToSet(fatMade[id].clusters)

(* The links of a file that was not freed are those of its clusters.         *)
LinkedAs(id) ==
  \A k \in 1 .. Len(fatMade[id].clusters) :
    fat[fatMade[id].clusters[k]] = IF k = Len(fatMade[id].clusters) THEN EOC ELSE fatMade[id].clusters[k + 1]

(* What is free is what no file has that was not freed; such a file has no   *)
(* cluster of a later one.                                                   *)
FatInv ==
  /\ fatMade \in Seq(FatFiles) /\ fat \in [Clusters -> Nat]
  /\ \A id \in Ids : IsInjective(fatMade[id].clusters)
  /\ \A i, j \in Ids : i < j /\ fatMade[i].state # "deleted" => HasOf(i) \cap HasOf(j) = {}
  /\ \A c \in Clusters : fat[c] = 0 <=> \A id \in Ids : fatMade[id].state # "deleted" => c \notin HasOf(id)
  /\ \A id \in Ids : fatMade[id].state # "deleted" => LinkedAs(id)

LEMMA FatStart == FatInit => FatInv
<1> SUFFICES ASSUME FatInit PROVE FatInv
  OBVIOUS
<1>1. fatMade \in Seq(FatFiles) /\ Ids = {}
  BY DEF FatInit, Ids
<1>2. fat \in [Clusters -> Nat] /\ \A c \in Clusters : fat[c] = 0
  BY DEF FatInit
<1> QED
  BY <1>1, <1>2 DEF FatInv

LEMMA FatMadeIs ==
  ASSUME fatMade \in Seq(FatFiles), NEW id \in Ids
  PROVE  /\ fatMade[id] \in FatFiles /\ id \in Nat \ {0} /\ id <= Len(fatMade)
         /\ fatMade[id].name \in FatNames /\ fatMade[id].kind \in {"file", "dir"}
         /\ fatMade[id].clusters \in Seq(Clusters) /\ fatMade[id].size \in Nat
         /\ fatMade[id].state \in {"live", "deleted", "lost"}
         /\ HasOf(id) \subseteq Clusters
<1>1. fatMade[id] \in FatFiles /\ id \in Nat \ {0} /\ id <= Len(fatMade)
  BY DEF Ids
<1>2. /\ fatMade[id].name \in FatNames /\ fatMade[id].kind \in {"file", "dir"}
      /\ fatMade[id].clusters \in Seq(Clusters) /\ fatMade[id].size \in Nat
      /\ fatMade[id].state \in {"live", "deleted", "lost"}
  BY <1>1 DEF FatFiles
<1>3. PICK cs \in Seq(Clusters) : cs = fatMade[id].clusters
  BY <1>2
<1>4. ToSet(cs) \subseteq Clusters
  BY DEF ToSet
<1> QED
  BY <1>1, <1>2, <1>3, <1>4 DEF HasOf

LEMMA ClusterIs ==
  ASSUME NEW c \in Clusters PROVE c \in Nat /\ c # 0 /\ c # 1 /\ c <= Count + 1 /\ c # EOC /\ EOC \in Nat \ {0}
  BY FatAssumption DEF Clusters, EOC

(* New files are over free clusters, each once.                              *)
LEMMA TakenFree ==
  ASSUME NEW n \in Nat, NEW cs \in FatArrangements(n)
  PROVE  /\ cs \in Seq(Clusters) /\ Len(cs) = n /\ IsInjective(cs)
         /\ ToSet(cs) \subseteq Clusters /\ \A c \in ToSet(cs) : fat[c] = 0
<1>1. cs \in [1 .. n -> FatFree] /\ IsInjective(cs)
  BY DEF FatArrangements
<1>2. cs \in [1 .. n -> Clusters]
  BY <1>1 DEF FatFree
<1>3. cs \in Seq(Clusters) /\ Len(cs) = n
  BY <1>2
<1>4. \A i \in DOMAIN cs : cs[i] \in Clusters /\ fat[cs[i]] = 0
  BY <1>1 DEF FatFree
<1> QED
  BY <1>1, <1>3, <1>4 DEF ToSet

LEMMA LinkedIs ==
  ASSUME NEW cs \in Seq(Clusters), IsInjective(cs), fat \in [Clusters -> Nat]
  PROVE  /\ Linked(cs) \in [Clusters -> Nat]
         /\ \A k \in 1 .. Len(cs) : Linked(cs)[cs[k]] = IF k = Len(cs) THEN EOC ELSE cs[k + 1]
         /\ \A c \in ToSet(cs) : Linked(cs)[c] # 0
         /\ \A c \in Clusters \ ToSet(cs) : Linked(cs)[c] = fat[c]
<1>1. PICK n \in Nat : n = Len(cs) /\ DOMAIN cs = 1 .. n
  OBVIOUS
<1>2. PICK l : l = Linked(cs)
  OBVIOUS
<1> DEFINE At(c) == CHOOSE j \in DOMAIN cs : cs[j] = c
<1>3. l = [c \in Clusters |-> IF \E i \in DOMAIN cs : cs[i] = c
                              THEN IF At(c) = Len(cs) THEN EOC ELSE cs[At(c) + 1] ELSE fat[c]]
  BY <1>2 DEF Linked
<1>4. ASSUME NEW k \in 1 .. n PROVE cs[k] \in Clusters /\ At(cs[k]) = k
  BY <1>1, <1>4 DEF IsInjective
<1> HIDE DEF At
<1>5. ASSUME NEW k \in 1 .. n
      PROVE  /\ l[cs[k]] = IF k = n THEN EOC ELSE cs[k + 1]
             /\ l[cs[k]] \in Nat \ {0}
  <2>1. l[cs[k]] = IF k = n THEN EOC ELSE cs[k + 1]
    BY <1>1, <1>3, <1>4
  <2>2. CASE k = n
    BY <1>4, <2>1, <2>2, ClusterIs
  <2>3. CASE k # n
    <3>1. k + 1 \in 1 .. n
      BY <2>3
    <3>2. cs[k + 1] \in Clusters
      BY <1>4, <3>1
    <3> QED
      BY <2>1, <2>3, <3>2, ClusterIs
  <2> QED
    BY <2>1, <2>2, <2>3
<1>6. ASSUME NEW c \in Clusters \ ToSet(cs) PROVE l[c] = fat[c]
  BY <1>3 DEF ToSet
<1>7. \A c \in ToSet(cs) : c \in Clusters /\ l[c] \in Nat \ {0}
  BY <1>1, <1>4, <1>5 DEF ToSet
<1>8. \A c \in Clusters : l[c] \in Nat
  BY <1>6, <1>7
<1>9. l = [c \in Clusters |-> l[c]]
  BY <1>3
<1>10. l \in [Clusters -> Nat]
  BY <1>8, <1>9
<1> QED
  BY <1>1, <1>2, <1>5, <1>6, <1>7, <1>10

LEMMA MakeLinks ==
  ASSUME FatInv, NEW f \in FatFiles, f.state = "live", NEW n \in Nat, f.clusters \in FatArrangements(n),
         fat' = Linked(f.clusters), fatMade' = Append(fatMade, f)
  PROVE  FatInv'
<1>1. PICK cs : cs = f.clusters
  OBVIOUS
<1>2. /\ cs \in Seq(Clusters) /\ IsInjective(cs) /\ ToSet(cs) \subseteq Clusters
      /\ \A c \in ToSet(cs) : fat[c] = 0
  BY <1>1, TakenFree
<1>3. /\ fat' \in [Clusters -> Nat]
      /\ \A k \in 1 .. Len(cs) : fat'[cs[k]] = IF k = Len(cs) THEN EOC ELSE cs[k + 1]
      /\ \A c \in ToSet(cs) : fat'[c] # 0
      /\ \A c \in Clusters \ ToSet(cs) : fat'[c] = fat[c]
  <2>1. fat \in [Clusters -> Nat]
    BY DEF FatInv
  <2> QED
    BY <1>1, <1>2, <2>1, LinkedIs
<1>4. PICK id \in Nat \ {0} : id = Len(fatMade) + 1
  BY DEF FatInv
<1>5. /\ fatMade' \in Seq(FatFiles) /\ Ids' = Ids \cup {id} /\ id \notin Ids /\ fatMade'[id] = f
      /\ \A i \in Ids : fatMade'[i] = fatMade[i]
  <2>1. fatMade \in Seq(FatFiles)
    BY DEF FatInv
  <2>2. /\ fatMade' \in Seq(FatFiles) /\ Len(fatMade') = id
        /\ \A i \in 1 .. id : fatMade'[i] = IF i = id THEN f ELSE fatMade[i]
    BY <1>4, <2>1, AppendProperties
  <2>3. Ids' = 1 .. id /\ Ids = 1 .. id - 1
    BY <1>4, <2>1, <2>2 DEF Ids
  <2>4. 1 .. id = (1 .. id - 1) \cup {id} /\ id \notin 1 .. id - 1
    BY <1>4
  <2> QED
    BY <2>2, <2>3, <2>4
<1>6. HasOf(id)' = ToSet(cs) /\ \A i \in Ids : HasOf(i)' = HasOf(i)
  BY <1>1, <1>5 DEF HasOf
(* The clusters taken were free: no file that was not freed has them.        *)
<1>7. ASSUME NEW i \in Ids, fatMade[i].state # "deleted"
      PROVE  HasOf(i) \cap ToSet(cs) = {} /\ HasOf(i) \subseteq Clusters
  <2>1. HasOf(i) \subseteq Clusters
    BY FatMadeIs DEF FatInv
  <2>2. \A c \in ToSet(cs) : c \notin HasOf(i)
    BY <1>2, <1>7 DEF FatInv
  <2> QED
    BY <2>1, <2>2
<1>8. \A i \in Ids' : IsInjective(fatMade'[i].clusters)
  BY <1>1, <1>2, <1>5 DEF FatInv
<1>9. ASSUME NEW i \in Ids', NEW j \in Ids', i < j, fatMade'[i].state # "deleted"
      PROVE  HasOf(i)' \cap HasOf(j)' = {}
  <2>0. i \in Ids /\ i # id
    <3>1. \A k \in Ids' : k \in Nat /\ k <= id
      BY <1>4, <1>5 DEF Ids, FatInv
    <3> QED
      BY <1>4, <1>5, <1>9, <3>1
  <2>1. fatMade[i].state # "deleted"
    BY <1>5, <1>9, <2>0
  <2>2. CASE j = id
    BY <1>6, <1>7, <2>0, <2>1, <2>2
  <2>3. CASE j # id
    <3>1. j \in Ids
      BY <1>5, <2>3
    <3>2. HasOf(i) \cap HasOf(j) = {}
      BY <1>9, <2>0, <2>1, <3>1 DEF FatInv
    <3> QED
      BY <1>6, <2>0, <3>1, <3>2
  <2> QED
    BY <2>2, <2>3
<1>10. ASSUME NEW c \in Clusters
       PROVE  fat'[c] = 0 <=> \A i \in Ids' : fatMade'[i].state # "deleted" => c \notin HasOf(i)'
  <2>1. f.state # "deleted"
    OBVIOUS
  <2>2. CASE c \in ToSet(cs)
    BY <1>3, <1>5, <1>6, <2>1, <2>2
  <2>3. CASE c \notin ToSet(cs)
    <3>1. fat'[c] = fat[c]
      BY <1>3, <2>3
    <3>2. fat[c] = 0 <=> \A i \in Ids : fatMade[i].state # "deleted" => c \notin HasOf(i)
      BY DEF FatInv
    <3> QED
      BY <1>5, <1>6, <2>3, <3>1, <3>2
  <2> QED
    BY <2>2, <2>3
<1>11. ASSUME NEW i \in Ids', fatMade'[i].state # "deleted" PROVE LinkedAs(i)'
  <2>1. CASE i = id
    <3>1. fatMade'[i].clusters = cs
      BY <1>1, <1>5, <2>1
    <3>2. \A k \in 1 .. Len(cs) : fat'[cs[k]] = IF k = Len(cs) THEN EOC ELSE cs[k + 1]
      BY <1>3
    <3>3. LinkedAs(i)' <=>
            \A k \in 1 .. Len(fatMade'[i].clusters) :
              fat'[fatMade'[i].clusters[k]] =
                IF k = Len(fatMade'[i].clusters) THEN EOC ELSE fatMade'[i].clusters[k + 1]
      BY DEF LinkedAs, EOC
    <3> QED
      BY <3>1, <3>2, <3>3 DEF EOC
  <2>2. CASE i # id
    <3>1. i \in Ids /\ fatMade'[i] = fatMade[i] /\ fatMade[i].state # "deleted"
      BY <1>5, <1>11, <2>2
    <3>2. LinkedAs(i)
      BY <3>1 DEF FatInv
    <3>3. PICK ds \in Seq(Clusters) : ds = fatMade[i].clusters /\ ToSet(ds) = HasOf(i)
      BY <3>1, FatMadeIs DEF FatInv, HasOf
    <3>4. \A k \in 1 .. Len(ds) : ds[k] \in ToSet(ds)
      BY DEF ToSet
    <3>5. \A k \in 1 .. Len(ds) : fat'[ds[k]] = fat[ds[k]]
      BY <1>3, <1>7, <3>1, <3>3, <3>4
    <3> QED
      BY <3>1, <3>2, <3>3, <3>5 DEF LinkedAs
  <2> QED
    BY <2>1, <2>2
<1> QED
  BY <1>3, <1>5, <1>8, <1>9, <1>10, <1>11 DEF FatInv

LEMMA FatStateIs ==
  ASSUME FatInv, NEW id \in Ids, NEW s \in {"deleted", "lost"}, fatMade' = [fatMade EXCEPT ![id].state = s]
  PROVE  /\ fatMade' \in Seq(FatFiles) /\ Ids' = Ids /\ fatMade'[id].state = s
         /\ \A i \in Ids : /\ i # id => fatMade'[i] = fatMade[i]
                           /\ fatMade'[i].clusters = fatMade[i].clusters /\ HasOf(i)' = HasOf(i)
                           /\ fatMade'[i].name = fatMade[i].name /\ fatMade'[i].kind = fatMade[i].kind
                           /\ fatMade'[i].size = fatMade[i].size
<1>1. PICK f \in FatFiles : f = fatMade[id]
  BY FatMadeIs DEF FatInv
<1>2. PICK g : g = [f EXCEPT !.state = s]
  OBVIOUS
<1>3. /\ g \in FatFiles /\ g.state = s /\ g.clusters = f.clusters /\ g.name = f.name /\ g.kind = f.kind
      /\ g.size = f.size
  BY <1>2 DEF FatFiles
<1>4. fatMade' = [fatMade EXCEPT ![id] = g]
  BY <1>1, <1>2
<1>5. fatMade \in Seq(FatFiles) /\ id \in 1 .. Len(fatMade)
  BY DEF FatInv, Ids
<1>6. /\ fatMade' \in Seq(FatFiles) /\ Ids' = Ids /\ fatMade'[id] = g
      /\ \A i \in Ids : i # id => fatMade'[i] = fatMade[i]
  BY SMTT(30), <1>3, <1>4, <1>5, ExceptSeq DEF Ids
<1>7. \A i \in Ids : /\ fatMade'[i].clusters = fatMade[i].clusters
                     /\ fatMade'[i].name = fatMade[i].name /\ fatMade'[i].kind = fatMade[i].kind
                     /\ fatMade'[i].size = fatMade[i].size
  BY <1>1, <1>3, <1>6
<1> QED
  BY <1>3, <1>6, <1>7 DEF HasOf

LEMMA HaveApart ==
  ASSUME FatInv, NEW i \in Ids, NEW j \in Ids, i # j,
         fatMade[i].state # "deleted", fatMade[j].state # "deleted"
  PROVE  HasOf(i) \cap HasOf(j) = {}
<1>1. i \in Nat /\ j \in Nat
  BY FatMadeIs DEF FatInv
<1>2. CASE i < j
  BY <1>2 DEF FatInv
<1>3. CASE j < i
  BY <1>3 DEF FatInv
<1> QED
  BY <1>1, <1>2, <1>3

LEMMA FreeLinks ==
  ASSUME FatInv, NEW id \in Ids, fatMade[id].state = "live",
         fat' = Freed(id), fatMade' = [fatMade EXCEPT ![id].state = "deleted"]
  PROVE  FatInv'
<1>1. /\ fatMade' \in Seq(FatFiles) /\ Ids' = Ids /\ fatMade'[id].state = "deleted"
      /\ \A i \in Ids : /\ i # id => fatMade'[i] = fatMade[i]
                        /\ fatMade'[i].clusters = fatMade[i].clusters /\ HasOf(i)' = HasOf(i)
  BY ZenonT(30), FatStateIs
<1>2. /\ fat' = [c \in Clusters |-> IF c \in HasOf(id) THEN 0 ELSE fat[c]]
      /\ fat \in [Clusters -> Nat]
  BY DEF Freed, HasOf, FatInv
<1>3. fat' \in [Clusters -> Nat]
  BY <1>2
<1>4. ASSUME NEW i \in Ids, i # id, fatMade[i].state # "deleted" PROVE HasOf(i) \cap HasOf(id) = {}
  BY <1>4, HaveApart
<1>5. \A i \in Ids' : IsInjective(fatMade'[i].clusters)
  BY <1>1 DEF FatInv
<1>6. ASSUME NEW i \in Ids', NEW j \in Ids', i < j, fatMade'[i].state # "deleted"
      PROVE  HasOf(i)' \cap HasOf(j)' = {}
  <2>1. i # id /\ i \in Ids /\ j \in Ids
    BY <1>1, <1>6
  <2>2. fatMade[i].state # "deleted"
    BY <1>1, <1>6, <2>1
  <2>3. HasOf(i) \cap HasOf(j) = {}
    BY <1>6, <2>1, <2>2 DEF FatInv
  <2> QED
    BY <1>1, <2>1, <2>3
<1>7. ASSUME NEW c \in Clusters
      PROVE  fat'[c] = 0 <=> \A i \in Ids' : fatMade'[i].state # "deleted" => c \notin HasOf(i)'
  <2>1. fat[c] = 0 <=> \A i \in Ids : fatMade[i].state # "deleted" => c \notin HasOf(i)
    BY DEF FatInv
  <2>2. CASE c \in HasOf(id)
    <3>1. fat'[c] = 0
      BY <1>2, <2>2
    <3>2. ASSUME NEW i \in Ids, fatMade'[i].state # "deleted" PROVE c \notin HasOf(i)'
      <4>1. i # id /\ fatMade[i].state # "deleted"
        BY <1>1, <3>2
      <4> QED
        BY <1>1, <1>4, <2>2, <4>1
    <3> QED
      BY <1>1, <3>1, <3>2
  <2>3. CASE c \notin HasOf(id)
    <3>1. fat'[c] = fat[c]
      BY <1>2, <2>3
    <3>2. (\A i \in Ids : fatMade[i].state # "deleted" => c \notin HasOf(i)) <=>
          \A i \in Ids : fatMade'[i].state # "deleted" => c \notin HasOf(i)
      BY <1>1, <2>3
    <3> QED
      BY <1>1, <2>1, <3>1, <3>2
  <2> QED
    BY <2>2, <2>3
<1>8. ASSUME NEW i \in Ids', fatMade'[i].state # "deleted" PROVE LinkedAs(i)'
  <2>1. i \in Ids /\ i # id
    BY <1>1, <1>8
  <2>2. fatMade'[i] = fatMade[i] /\ fatMade[i].state # "deleted"
    BY <1>1, <1>8, <2>1
  <2>3. LinkedAs(i)
    BY <2>1, <2>2 DEF FatInv
  <2>4. PICK ds \in Seq(Clusters) : ds = fatMade[i].clusters /\ ToSet(ds) = HasOf(i)
    BY <2>1, FatMadeIs DEF FatInv, HasOf
  <2>5. \A k \in 1 .. Len(ds) : ds[k] \in ToSet(ds) /\ ds[k] \in Clusters
    BY DEF ToSet
  <2>6. \A k \in 1 .. Len(ds) : fat'[ds[k]] = fat[ds[k]]
    BY <1>2, <1>4, <2>1, <2>2, <2>4, <2>5
  <2> QED
    BY <2>2, <2>3, <2>4, <2>6 DEF LinkedAs
<1> QED
  BY <1>1, <1>3, <1>5, <1>6, <1>7, <1>8 DEF FatInv

LEMMA LoseLinks ==
  ASSUME FatInv, NEW id \in Ids, fatMade[id].state = "live",
         fat' = fat, fatMade' = [fatMade EXCEPT ![id].state = "lost"]
  PROVE  FatInv'
<1>1. /\ fatMade' \in Seq(FatFiles) /\ Ids' = Ids /\ fatMade'[id].state = "lost"
      /\ \A i \in Ids : /\ i # id => fatMade'[i] = fatMade[i]
                        /\ fatMade'[i].clusters = fatMade[i].clusters /\ HasOf(i)' = HasOf(i)
  BY FatStateIs
<1>2. \A i \in Ids : fatMade'[i].state # "deleted" <=> fatMade[i].state # "deleted"
  BY <1>1
<1>3. \A i \in Ids : LinkedAs(i)' <=> LinkedAs(i)
  BY SMTT(30), <1>1 DEF LinkedAs
<1> QED
  BY <1>1, <1>2, <1>3 DEF FatInv

LEMMA MakeStep ==
  ASSUME FatInv, NEW d, NEW name \in FatNames, NEW kind \in {"file", "dir"}, NEW size \in Nat,
         NEW n \in Nat, NEW cs \in FatArrangements(n), Make(d, name, kind, size, cs)
  PROVE  FatInv'
<1>1. cs \in Seq(Clusters)
  BY TakenFree
<1>2. PICK f : f = [name |-> name, kind |-> kind, clusters |-> cs, size |-> size, state |-> "live"]
  OBVIOUS
<1>3. f \in FatFiles /\ f.state = "live" /\ f.clusters = cs
  BY <1>1, <1>2 DEF FatFiles
<1>4. fat' = Linked(cs) /\ fatMade' = Append(fatMade, f)
  BY <1>2 DEF Make
<1> QED
  BY <1>3, <1>4, MakeLinks

LEMMA OneCluster ==
  ASSUME NEW c \in FatFree PROVE <<c>> \in FatArrangements(1)
  BY DEF FatArrangements, IsInjective

LEMMA FatStep ==
  ASSUME FatInv, [FatNext]_fatVars PROVE FatInv'
<1>1. CASE UNCHANGED fatVars
  BY <1>1 DEF FatInv, LinkedAs, HasOf, Ids, fatVars
<1>2. CASE FatCreate
  <2>1. PICK d \in {Root} \cup LiveDirs, name \in FatNames : \E size \in FatSizes[name] :
          \E cs \in FatArrangements((size + 1) \div 2) : Make(d, name, "file", size, cs)
    BY <1>2 DEF FatCreate
  <2>2. PICK size \in FatSizes[name] : \E cs \in FatArrangements((size + 1) \div 2) : Make(d, name, "file", size, cs)
    BY <2>1
  <2>3. PICK cs \in FatArrangements((size + 1) \div 2) : Make(d, name, "file", size, cs)
    BY <2>2
  <2>4. size \in Nat
    BY FatAssumption
  <2>5. (size + 1) \div 2 \in Nat
    BY <2>4
  <2> QED
    BY <2>3, <2>4, <2>5, MakeStep
<1>3. CASE Mkdir
  <2>1. PICK name \in FatNames, c \in FatFree : Make(Root, name, "dir", 0, <<c>>)
    BY <1>3 DEF Mkdir
  <2> QED
    BY <2>1, OneCluster, MakeStep
<1>4. CASE FatDelete
  <2>1. PICK id \in Ids :
          /\ fatMade[id].state = "live"
          /\ \/ fat' = Freed(id) /\ fatMade' = [fatMade EXCEPT ![id].state = "deleted"]
             \/ UNCHANGED fat /\ fatMade' = [fatMade EXCEPT ![id].state = "lost"]
    BY <1>4 DEF FatDelete, Live
  <2> QED
    BY <2>1, FreeLinks, LoseLinks
<1> QED
  BY <1>1, <1>2, <1>3, <1>4 DEF FatNext

(* The free ranges of a FAT volume are what no file holds (Unallocated).     *)
THEOREM FatUnallocatedExact == FatSpec => []UnallocatedExact
<1>1. FatInv => UnallocatedExact
  <2>1. SUFFICES ASSUME FatInv PROVE UnallocatedExact
    OBVIOUS
  <2>2. PICK free : free = {c \in Clusters : fat[c] = 0}
    OBVIOUS
  <2>3. PICK held : held = UNION {ToSet(fatMade[id].clusters) : id \in {i \in Ids : fatMade[i].state # "deleted"}}
    OBVIOUS
  <2>4. \A c \in Clusters : c \notin held <=> \A id \in Ids : fatMade[id].state # "deleted" => c \notin HasOf(id)
    BY <2>3 DEF HasOf
  <2>5. free = Clusters \ held
    BY <2>1, <2>2, <2>4 DEF FatInv
  <2>6. free \cap (0 .. (Count + 2) - 1) = free
    <3>1. Clusters \subseteq 0 .. (Count + 2) - 1
      BY FatAssumption DEF Clusters
    <3> QED
      BY <2>2, <3>1
  <2>7. Count + 2 \in Nat
    BY FatAssumption
  <2>8. Bytes(FreeRuns(Count + 2, free)) = UNION {{2 * b, 2 * b + 1} : b \in free}
    BY <2>6, <2>7, RunsExact
  <2> QED
    BY <2>2, <2>3, <2>5, <2>8 DEF UnallocatedExact, FatUnallocated
<1> QED
  BY <1>1, FatStart, FatStep, PTL DEF FatSpec

(* On a volume of either kind, a free range holds nothing of a file that is  *)
(* there, and none is left out (Unallocated of fsfat.go and fsext.go).       *)
THEOREM VolumesFreeExact == FatSpec /\ ExtSpec => []FreeExact
<1>1. UnallocatedExact /\ FreeRangesExact => FreeExact
  BY DEF FreeExact
<1> QED
  BY <1>1, FatUnallocatedExact, ExtFreeRangesExact, PTL

-----------------------------------------------------------------------------
(* The slots of a FAT volume's directories.                                  *)

FatDirs == {Root} \cup Clusters
FirstOf(f) == IF f.clusters = <<>> THEN 0 ELSE f.clusters[1]
LongOf(f) == Parts[f.name]

(* Slot k of a file, its short one for 0, as it was written and stamped.     *)
LongAs(f, id, k, b) ==
  [kind |-> "long", stamped |-> b, of |-> id, text |-> <<f.name, k>>, seq |-> k,
   last |-> k = LongOf(f), sum |-> Checksum[f.name]]
ShortAs(f, id, b) ==
  [kind |-> f.kind, stamped |-> b, of |-> id, first |-> FirstOf(f), size |-> f.size]
IsSlot(s, f, id, k) ==
  \E b \in BOOLEAN : /\ b <=> f.state # "live"
                     /\ s = IF k = 0 THEN ShortAs(f, id, b) ELSE LongAs(f, id, k, b)

(* D: the directories, M: the files made. Every slot is a label or one of a  *)
(* file's, and no two are the same.                                          *)
Shaped(D) ==
  DOMAIN D = FatDirs /\ \A d \in FatDirs : Len(D[d]) \in Nat /\ DOMAIN D[d] = 1 .. Len(D[d])
SlotsKnown(D, M) ==
  \A d \in FatDirs : \A j \in DOMAIN D[d] :
    \/ D[d][j] = Label
    \/ \E id \in DOMAIN M : \E k \in 0 .. LongOf(M[id]) : IsSlot(D[d][j], M[id], id, k)
SlotsApart(D, M) ==
  \A id \in DOMAIN M : \A k \in 0 .. LongOf(M[id]) :
    \A d, e \in FatDirs : \A i \in DOMAIN D[d] : \A j \in DOMAIN D[e] :
      IsSlot(D[d][i], M[id], id, k) /\ IsSlot(D[e][j], M[id], id, k) => d = e /\ i = j

(* A live file's slots lie together, in the root or in a live directory.     *)
DirsOf(M) == {M[id].clusters[1] : id \in {i \in DOMAIN M : M[i].state = "live" /\ M[i].kind = "dir"}}
Lies(D, M, id, d, j) ==
  /\ LongOf(M[id]) < j
  /\ \A k \in 0 .. LongOf(M[id]) : IsSlot(D[d][j - k], M[id], id, k)
  /\ d = Root \/ (M[id].kind = "file" /\ d \in DirsOf(M))
LiveLie(D, M) ==
  \A id \in DOMAIN M : M[id].state = "live" =>
    \E d \in FatDirs : \E j \in DOMAIN D[d] : Lies(D, M, id, d, j)

(* What is left of a name is its end: a slot of a name is followed by the    *)
(* next of the same. True when the first slots that suffice are taken.       *)
NamesFollow(D, M) ==
  \A d \in FatDirs : \A j \in DOMAIN D[d] : \A id \in DOMAIN M : \A k \in 1 .. LongOf(M[id]) :
    IsSlot(D[d][j], M[id], id, k) => j + 1 \in DOMAIN D[d] /\ IsSlot(D[d][j + 1], M[id], id, k - 1)

Sized(f) == Len(f.clusters) = IF f.kind = "dir" THEN 1 ELSE (f.size + 1) \div 2

DirInv ==
  /\ Shaped(dir) /\ SlotsKnown(dir, fatMade) /\ SlotsApart(dir, fatMade) /\ LiveLie(dir, fatMade)
  /\ fit = "first" => NamesFollow(dir, fatMade)
  /\ \A id \in Ids : Sized(fatMade[id])

LEMMA NextIs ==
  ASSUME NEW out \in Seq(Clusters), NEW start
  PROVE  NextLink(out, start) \in Seq(Clusters)
<1>1. PICK c : c = IF out = <<>> THEN start ELSE fat[out[Len(out)]]
  OBVIOUS
<1>2. NextLink(out, start) = IF c \in Clusters \ ToSet(out) THEN Append(out, c) ELSE out
  BY <1>1 DEF NextLink
<1> QED
  BY <1>2

LEMMA ChainUnfold ==
  ASSUME NEW start, NEW max \in Nat
  PROVE  \E f \in [0 .. max -> Seq(Clusters)] :
           /\ chain(start, max) = f[max] /\ f[0] = <<>>
           /\ \A k \in 1 .. max : f[k] = NextLink(f[k - 1], start)
<1> DEFINE M(k, s) == NextLink(s, start)
           n == max
           a == <<>>
           P(f) == f = [k \in 0 .. n |-> IF k = 0 THEN a ELSE M(k, f[k - 1])]
           G == [k \in 1 .. n |-> [s \in Seq(Clusters) |-> M(k, s)]]
           g == CHOOSE f : P(f)
<1>1. n \in Nat /\ a \in Seq(Clusters)
  OBVIOUS
<1>2. \A k \in 1 .. n : \A s \in Seq(Clusters) : M(k, s) \in Seq(Clusters)
  BY NextIs
<1>3. chain(start, max) = g[n]
  BY DEF chain
<1> HIDE DEF M, n, g, a
<1>4. Steps(n, Seq(Clusters), a, G)
  BY <1>1, <1>2 DEF Steps
<1>5. PICK f : Solution(n, Seq(Clusters), a, G, f)
  <2> HIDE DEF G
  <2> QED
    BY <1>1, <1>4, NatRecursion
<1>6. f \in [0 .. n -> Seq(Clusters)] /\ f[0] = a /\ \A i \in 1 .. n : f[i] = M(i, f[i - 1])
  BY <1>5 DEF Solution
<1>7. P(f)
  BY <1>1, <1>6
<1>8. P(g)
  <2> HIDE DEF P
  <2> QED
    BY <1>7 DEF g
<1>9. g = f
  <2>1. g = [k \in 0 .. n |-> IF k = 0 THEN a ELSE M(k, g[k - 1])]
    BY <1>8
  <2>2. \A k \in 0 .. n : g[k] = IF k = 0 THEN a ELSE M(k, g[k - 1])
    BY <2>1
  <2>3. g = [k \in 0 .. n |-> g[k]] /\ g[0] = a
    BY <1>1, <2>1, <2>2
  <2>6. \A k \in 1 .. n : g[k] = M(k, g[k - 1])
    BY <1>1, <2>2
  <2>4. \A k \in 1 .. n : g[k - 1] \in Seq(Clusters) => g[k] = G[k][g[k - 1]]
    BY <2>6
  <2>5. Solves(n, Seq(Clusters), a, G, g)
    BY <2>3, <2>4 DEF Solves
  <2> HIDE DEF G, P
  <2> QED
    BY <1>1, <1>4, <1>5, <2>5, NatRecursionUnique
<1> QED
  BY <1>3, <1>6, <1>9 DEF M, n, a

(* The chain of a file whose links are kept is its clusters; that of one     *)
(* whose first cluster is free is that cluster.                              *)
LEMMA ChainIs ==
  ASSUME NEW cs \in Seq(Clusters), IsInjective(cs), NEW start, cs # <<>> => start = cs[1],
         \A k \in 1 .. Len(cs) : fat[cs[k]] = IF k = Len(cs) THEN EOC ELSE cs[k + 1]
  PROVE  chain(start, Len(cs)) = cs
<1>1. PICK n \in Nat : n = Len(cs) /\ DOMAIN cs = 1 .. n
  OBVIOUS
<1>2. PICK f \in [0 .. n -> Seq(Clusters)] :
        /\ chain(start, n) = f[n] /\ f[0] = <<>>
        /\ \A k \in 1 .. n : f[k] = NextLink(f[k - 1], start)
  BY <1>1, ChainUnfold
<1> DEFINE E == {k \in 0 .. n : Len(f[k]) = k /\ \A i \in 1 .. k : f[k][i] = cs[i]}
<1>3. 0 \in E
  BY <1>2
<1>4. ASSUME NEW k \in 1 .. n, k - 1 \in E PROVE k \in E
  <2>1. PICK out \in Seq(Clusters) : out = f[k - 1]
    BY <1>2
  <2>2. Len(out) = k - 1 /\ \A i \in 1 .. k - 1 : out[i] = cs[i]
    BY <1>4, <2>1
  <2>3. PICK c : c = IF out = <<>> THEN start ELSE fat[out[Len(out)]]
    OBVIOUS
  <2>4. c = cs[k]
    <3>1. CASE k = 1
      <4>1. out = <<>> /\ cs # <<>>
        BY <1>1, <2>2, <3>1
      <4> QED
        BY <2>3, <3>1, <4>1
    <3>2. CASE k # 1
      <4>1. out # <<>> /\ k - 1 \in 1 .. n /\ k - 1 # n /\ (k - 1) + 1 = k /\ k - 1 \in 1 .. k - 1
        BY <2>2, <3>2
      <4>2. out[Len(out)] = cs[k - 1]
        BY <2>2, <4>1
      <4>3. fat[cs[k - 1]] = cs[k]
        BY <1>1, <4>1
      <4> QED
        BY <2>3, <4>1, <4>2, <4>3
    <3> QED
      BY <3>1, <3>2
  <2>5. cs[k] \in Clusters
    BY <1>1
  <2>6. cs[k] \notin ToSet(out)
    <3>1. ASSUME NEW i \in 1 .. k - 1 PROVE cs[i] # cs[k]
      <4>1. i \in DOMAIN cs /\ k \in DOMAIN cs /\ i # k
        BY <1>1
      <4> QED
        BY <4>1 DEF IsInjective
    <3> QED
      <4>1. DOMAIN out = 1 .. k - 1
        BY <2>1, <2>2
      <4>2. \A i \in DOMAIN out : out[i] # cs[k]
        BY <2>2, <3>1, <4>1
      <4> QED
        BY ZenonT(30), <4>2 DEF ToSet
  <2>7. f[k] = Append(out, cs[k])
    BY <1>2, <2>1, <2>3, <2>4, <2>5, <2>6 DEF NextLink
  <2>8. Len(f[k]) = k /\ \A i \in 1 .. k : f[k][i] = IF i = k THEN cs[k] ELSE out[i]
    BY <2>2, <2>5, <2>7, AppendProperties
  <2>9. \A i \in 1 .. k : f[k][i] = cs[i]
    <3>1. \A i \in 1 .. k : i # k => i \in 1 .. k - 1
      OBVIOUS
    <3> QED
      BY <2>2, <2>8, <3>1
  <2>10. k \in 0 .. n
    OBVIOUS
  <2> QED
    BY <2>8, <2>9, <2>10
<1> HIDE DEF E
<1>5. 0 .. n \subseteq E
  BY <1>3, <1>4, UpTo
<1> USE DEF E
<1>6. Len(f[n]) = n /\ \A i \in 1 .. n : f[n][i] = cs[i]
  BY <1>5
<1>7. f[n] \in Seq(Clusters)
  BY <1>2
<1>8. f[n] = cs
  BY <1>1, <1>6, <1>7
<1> QED
  BY <1>1, <1>2, <1>8

LEMMA ChainOne ==
  ASSUME NEW c \in Clusters, fat[c] = 0, NEW max \in Nat \ {0}
  PROVE  chain(c, max) = <<c>>
<1>1. PICK f \in [0 .. max -> Seq(Clusters)] :
        /\ chain(c, max) = f[max] /\ f[0] = <<>>
        /\ \A k \in 1 .. max : f[k] = NextLink(f[k - 1], c)
  BY ChainUnfold
<1> DEFINE E == {k \in 0 .. max : k = 0 \/ f[k] = <<c>>}
<1>2. 0 \in E
  OBVIOUS
<1>3. ASSUME NEW k \in 1 .. max, k - 1 \in E PROVE k \in E
  <2>1. CASE k = 1
    <3>1. f[1] = NextLink(<<>>, c)
      BY <1>1, <2>1
    <3>2. NextLink(<<>>, c) = Append(<<>>, c)
      BY DEF NextLink, ToSet
    <3> QED
      BY <2>1, <3>1, <3>2
  <2>2. CASE k # 1
    <3>1. f[k - 1] = <<c>>
      BY <1>3, <2>2
    <3>2. 0 \notin Clusters
      BY DEF Clusters
    <3>3. NextLink(<<c>>, c) = <<c>>
      BY <3>2 DEF NextLink
    <3>4. PICK one : one = <<c>>
      OBVIOUS
    <3>5. f[k] = NextLink(f[k - 1], c) /\ k \in 0 .. max
      BY <1>1
    <3>6. f[k] = one
      BY <3>1, <3>3, <3>4, <3>5
    <3> QED
      BY <3>4, <3>5, <3>6
  <2> QED
    BY <2>1, <2>2
<1> HIDE DEF E
<1>4. 0 .. max \subseteq E
  BY <1>2, <1>3, UpTo
<1> USE DEF E
<1>5. max \in E
  BY <1>4
<1> QED
  BY <1>1, <1>5

(* The bytes of clusters, the last one's up to the size.                     *)
Fits(cs, size) == \A i \in 1 .. Len(cs) : 2 * (i - 1) < size
IsByte(cs, size, x) == \E i \in 1 .. Len(cs) : x = 2 * cs[i] \/ (x = 2 * cs[i] + 1 /\ 2 * (i - 1) + 1 < size)
RangesOf(cs, size) == mergeExtents([i \in DOMAIN cs |-> FSExtent(clustAbs(cs[i]), Smaller(2, size - 2 * (i - 1)))])

LEMMA FatBytes ==
  ASSUME NEW cs \in Seq(Clusters), NEW size \in Nat, Fits(cs, size)
  PROVE  \A x : x \in Bytes(RangesOf(cs, size)) <=> IsByte(cs, size, x)
<1>0. \A i \in 1 .. Len(cs) : 2 * (i - 1) < size
  BY DEF Fits
<1>1. PICK n \in Nat : n = Len(cs) /\ DOMAIN cs = 1 .. n
  OBVIOUS
<1>2. PICK in : in = [i \in DOMAIN cs |-> FSExtent(clustAbs(cs[i]), Smaller(2, size - 2 * (i - 1)))]
  OBVIOUS
<1>3. ASSUME NEW i \in 1 .. n
      PROVE  /\ in[i] \in Pieces /\ cs[i] \in Nat
             /\ \A x : x \in Of(in[i]) <=> x = 2 * cs[i] \/ (x = 2 * cs[i] + 1 /\ 2 * (i - 1) + 1 < size)
  <2>1. PICK c \in Nat : c = cs[i]
    BY <1>1, ClusterIs
  <2>2. PICK a \in Nat : a = 2 * (i - 1) /\ a < size
    BY <1>0, <1>1
  <2>3. PICK l \in Nat : l = Smaller(2, size - a) /\ l = IF a + 1 < size THEN 2 ELSE 1
    BY <2>2 DEF Smaller
  <2>4. in[i] = FSExtent(2 * c, l)
    BY <1>1, <1>2, <2>1, <2>2, <2>3 DEF clustAbs
  <2>5. PICK s \in Nat : s = 2 * c
    BY <2>1
  <2>6. in[i] \in Pieces /\ in[i].start = s /\ in[i].len = l
    BY <2>4, <2>5 DEF FSExtent, Pieces
  <2>7. Of(in[i]) = s .. s + l - 1
    BY <2>6 DEF Of, End
  <2>8. \A x : x \in s .. s + l - 1 <=> x = s \/ (x = s + 1 /\ a + 1 < size)
    BY <2>3
  <2> QED
    BY <2>1, <2>2, <2>5, <2>6, <2>7, <2>8
<1>4. in \in Seq(Pieces) /\ DOMAIN in = 1 .. n
  <2>1. in = [i \in 1 .. n |-> in[i]]
    BY <1>1, <1>2
  <2>2. in \in [1 .. n -> Pieces]
    BY <1>3, <2>1
  <2> QED
    BY <2>2
<1>5. Bytes(mergeExtents(in)) = Bytes(in)
  BY <1>4, Merging
<1>6. \A x : x \in Bytes(in) <=> \E i \in 1 .. n : x \in Of(in[i])
  BY <1>4 DEF Bytes, Of
<1>7. ASSUME NEW x PROVE x \in Bytes(in) <=> IsByte(cs, size, x)
  BY <1>1, <1>3, <1>6 DEF IsByte
<1> QED
  BY <1>2, <1>5, <1>7 DEF RangesOf

-----------------------------------------------------------------------------
(* A directory as it is read: each entry with the name slots before it.      *)

SlotsIn(s) == {s[i] : i \in 1 .. Len(s)}
ListedIn(s) == {Listed(l, x) : l \in Seq(SlotsIn(s)), x \in SlotsIn(s)}
Lists(s) == [lfn : Seq(SlotsIn(s)), out : SUBSET ListedIn(s)]
Entry(x) == x.kind \notin {"long", "label"}

(* The name slots that end at place k.                                       *)
Gather(l, s, k) ==
  \E m \in 0 .. k : /\ Len(l) = m /\ \A i \in 1 .. m : l[i] = s[k - m + i] /\ s[k - m + i].kind = "long"
                    /\ m = k \/ s[k - m].kind # "long"

LEMMA ListSlotIs ==
  ASSUME NEW s, Len(s) \in Nat, NEW x \in SlotsIn(s), NEW a \in Lists(s)
  PROVE  /\ a.lfn \in Seq(SlotsIn(s)) /\ ListSlot(a, x) \in Lists(s)
         /\ x.kind = "long" => ListSlot(a, x).lfn = Append(a.lfn, x) /\ ListSlot(a, x).out = a.out
         /\ x.kind = "label" => ListSlot(a, x).lfn = <<>> /\ ListSlot(a, x).out = a.out
         /\ Entry(x) => ListSlot(a, x).lfn = <<>> /\ ListSlot(a, x).out = a.out \cup {Listed(a.lfn, x)}
<1>1. PICK lfn \in Seq(SlotsIn(s)), out \in SUBSET ListedIn(s) : a = [lfn |-> lfn, out |-> out]
  BY DEF Lists
<1>2. a.lfn = lfn /\ a.out = out
  BY <1>1
<1>3. PICK b : b = ListSlot(a, x)
  OBVIOUS
<1>4. <<>> \in Seq(SlotsIn(s))
  OBVIOUS
<1>5. CASE x.kind = "long"
  <2>1. b = [lfn |-> Append(lfn, x), out |-> out]
    <3>1. b = [a EXCEPT !.lfn = Append(@, x)]
      BY <1>3, <1>5 DEF ListSlot
    <3> QED
      BY <1>1, <3>1
  <2>2. Append(lfn, x) \in Seq(SlotsIn(s))
    OBVIOUS
  <2>3. b \in Lists(s) /\ b.lfn = Append(lfn, x) /\ b.out = out
    BY <2>1, <2>2 DEF Lists
  <2> QED
    BY <1>2, <1>3, <1>5, <2>3 DEF Entry
<1>6. CASE x.kind = "label"
  <2>1. b = [lfn |-> <<>>, out |-> out]
    <3>1. b = [a EXCEPT !.lfn = <<>>]
      BY <1>3, <1>6 DEF ListSlot
    <3> QED
      BY <1>1, <3>1
  <2>2. b \in Lists(s) /\ b.lfn = <<>> /\ b.out = out
    BY <1>4, <2>1 DEF Lists
  <2> QED
    BY <1>2, <1>3, <1>6, <2>2 DEF Entry
<1>7. CASE Entry(x)
  <2>1. PICK e : e = Listed(lfn, x)
    OBVIOUS
  <2>2. b = [lfn |-> <<>>, out |-> out \cup {e}]
    BY <1>2, <1>3, <1>7, <2>1 DEF ListSlot, Entry
  <2>3. out \cup {e} \in SUBSET ListedIn(s)
    BY <2>1 DEF ListedIn
  <2>4. b \in Lists(s) /\ b.lfn = <<>> /\ b.out = out \cup {e}
    BY <1>4, <2>2, <2>3 DEF Lists
  <2> QED
    BY <1>2, <1>3, <1>7, <2>1, <2>4 DEF Entry
<1> QED
  BY <1>5, <1>6, <1>7 DEF Entry

LEMMA ListingUnfold ==
  ASSUME NEW s, Len(s) \in Nat
  PROVE  \E f \in [0 .. Len(s) -> Lists(s)] :
           /\ Listing(s) = f[Len(s)].out /\ f[0] = [lfn |-> <<>>, out |-> {}]
           /\ \A k \in 1 .. Len(s) : f[k] = ListSlot(f[k - 1], s[k])
<1> DEFINE M(k, acc) == ListSlot(acc, s[k])
           n == Len(s)
           a == [lfn |-> <<>>, out |-> {}]
           P(f) == f = [k \in 0 .. n |-> IF k = 0 THEN a ELSE M(k, f[k - 1])]
           G == [k \in 1 .. n |-> [acc \in Lists(s) |-> M(k, acc)]]
           g == CHOOSE f : P(f)
<1>1. n \in Nat /\ a \in Lists(s)
  <2>1. <<>> \in Seq(SlotsIn(s))
    OBVIOUS
  <2> QED
    BY <2>1 DEF Lists
<1>2. \A k \in 1 .. n : \A acc \in Lists(s) : M(k, acc) \in Lists(s)
  <2>1. ASSUME NEW k \in 1 .. n, NEW acc \in Lists(s) PROVE M(k, acc) \in Lists(s)
    <3>1. s[k] \in SlotsIn(s)
      BY DEF SlotsIn
    <3> QED
      BY <3>1, ListSlotIs
  <2> HIDE DEF M, n
  <2> QED
    BY <2>1
<1>3. Listing(s) = g[n].out
  BY DEF Listing
<1> HIDE DEF M, n, g, a
<1>4. Steps(n, Lists(s), a, G)
  BY <1>1, <1>2 DEF Steps
<1>5. PICK f : Solution(n, Lists(s), a, G, f)
  <2> HIDE DEF G
  <2> QED
    BY <1>1, <1>4, NatRecursion
<1>6. f \in [0 .. n -> Lists(s)] /\ f[0] = a /\ \A i \in 1 .. n : f[i] = M(i, f[i - 1])
  BY <1>5 DEF Solution
<1>7. P(f)
  BY <1>1, <1>6
<1>8. P(g)
  <2> HIDE DEF P
  <2> QED
    BY <1>7 DEF g
<1>9. g = f
  <2>1. g = [k \in 0 .. n |-> IF k = 0 THEN a ELSE M(k, g[k - 1])]
    BY <1>8
  <2>2. \A k \in 0 .. n : g[k] = IF k = 0 THEN a ELSE M(k, g[k - 1])
    BY <2>1
  <2>3. g = [k \in 0 .. n |-> g[k]] /\ g[0] = a
    BY <1>1, <2>1, <2>2
  <2>6. \A k \in 1 .. n : g[k] = M(k, g[k - 1])
    BY <1>1, <2>2
  <2>4. \A k \in 1 .. n : g[k - 1] \in Lists(s) => g[k] = G[k][g[k - 1]]
    BY <2>6
  <2>5. Solves(n, Lists(s), a, G, g)
    BY <2>3, <2>4 DEF Solves
  <2> HIDE DEF G, P
  <2> QED
    BY <1>1, <1>4, <1>5, <2>5, NatRecursionUnique
<1> QED
  BY <1>3, <1>6, <1>9 DEF M, n, a

LEMMA GatherStep ==
  ASSUME NEW s, Len(s) \in Nat, NEW k \in 1 .. Len(s), NEW l \in Seq(SlotsIn(s)), Gather(l, s, k - 1)
  PROVE  /\ s[k].kind = "long" => Gather(Append(l, s[k]), s, k)
         /\ s[k].kind # "long" => Gather(<<>>, s, k)
<1>1. PICK m \in 0 .. k - 1 : /\ Len(l) = m
                              /\ \A i \in 1 .. m : l[i] = s[(k - 1) - m + i] /\ s[(k - 1) - m + i].kind = "long"
                              /\ m = k - 1 \/ s[(k - 1) - m].kind # "long"
  BY DEF Gather
<1>2. ASSUME s[k].kind # "long" PROVE Gather(<<>>, s, k)
  <2>1. 0 \in 0 .. k /\ k - 0 = k
    OBVIOUS
  <2> QED
    BY <1>2, <2>1 DEF Gather
<1>3. ASSUME s[k].kind = "long" PROVE Gather(Append(l, s[k]), s, k)
  <2>1. s[k] \in SlotsIn(s)
    BY DEF SlotsIn
  <2>2. PICK t : t = Append(l, s[k])
    OBVIOUS
  <2>3. Len(t) = m + 1 /\ \A i \in 1 .. m + 1 : t[i] = IF i = m + 1 THEN s[k] ELSE l[i]
    BY <1>1, <2>1, <2>2, AppendProperties
  <2>4. m + 1 \in 0 .. k /\ k - (m + 1) = (k - 1) - m /\ (m + 1 = k <=> m = k - 1)
    OBVIOUS
  <2>5. ASSUME NEW i \in 1 .. m + 1 PROVE t[i] = s[k - (m + 1) + i] /\ s[k - (m + 1) + i].kind = "long"
    <3>1. CASE i = m + 1
      <4>1. k - (m + 1) + i = k
        BY <3>1
      <4> QED
        BY <1>3, <2>3, <3>1, <4>1
    <3>2. CASE i # m + 1
      <4>1. i \in 1 .. m /\ k - (m + 1) + i = (k - 1) - m + i
        BY <3>2
      <4> QED
        BY <1>1, <2>3, <3>2, <4>1
    <3> QED
      BY <3>1, <3>2
  <2> QED
    BY <1>1, <2>2, <2>3, <2>4, <2>5 DEF Gather
<1> QED
  BY <1>2, <1>3

LEMMA ListingIs ==
  ASSUME NEW s, Len(s) \in Nat
  PROVE  \E g : /\ \A k \in 0 .. Len(s) : g[k] \in Seq(SlotsIn(s)) /\ Gather(g[k], s, k)
                /\ \A e : e \in Listing(s) <=> \E j \in 1 .. Len(s) : Entry(s[j]) /\ e = Listed(g[j - 1], s[j])
<1>1. PICK n \in Nat : n = Len(s)
  OBVIOUS
<1>2. PICK f \in [0 .. n -> Lists(s)] :
        /\ Listing(s) = f[n].out /\ f[0] = [lfn |-> <<>>, out |-> {}]
        /\ \A k \in 1 .. n : f[k] = ListSlot(f[k - 1], s[k])
  BY <1>1, ListingUnfold
<1> DEFINE g == [k \in 0 .. n |-> f[k].lfn]
           Has(k) == \A e : e \in f[k].out <=> \E j \in 1 .. k : Entry(s[j]) /\ e = Listed(g[j - 1], s[j])
           E == {k \in 0 .. n : g[k] \in Seq(SlotsIn(s)) /\ Gather(g[k], s, k) /\ Has(k)}
<1>3. 0 \in E
  <2>1. f[0].lfn = <<>> /\ f[0].out = {} /\ 0 \in 0 .. n
    BY <1>2
  <2>2. g[0] = <<>>
    BY <2>1
  <2>3. <<>> \in Seq(SlotsIn(s)) /\ Gather(<<>>, s, 0)
    BY DEF Gather
  <2>4. Has(0)
    BY <2>1
  <2> HIDE DEF Has, g
  <2> QED
    BY <2>1, <2>2, <2>3, <2>4
<1>4. ASSUME NEW k \in 1 .. n, k - 1 \in E PROVE k \in E
  <2>1. PICK a \in Lists(s) : a = f[k - 1]
    BY <1>2
  <2>2. PICK b : b = f[k] /\ b = ListSlot(a, s[k])
    BY <1>2, <2>1
  <2>3. s[k] \in SlotsIn(s)
    BY <1>1 DEF SlotsIn
  <2>4. /\ a.lfn \in Seq(SlotsIn(s)) /\ b \in Lists(s)
        /\ s[k].kind = "long" => b.lfn = Append(a.lfn, s[k]) /\ b.out = a.out
        /\ s[k].kind = "label" => b.lfn = <<>> /\ b.out = a.out
        /\ Entry(s[k]) => b.lfn = <<>> /\ b.out = a.out \cup {Listed(a.lfn, s[k])}
    BY <1>1, <2>2, <2>3, ListSlotIs
  <2>5. g[k - 1] = a.lfn /\ g[k] = b.lfn
    <3>1. k - 1 \in 0 .. n /\ k \in 0 .. n
      OBVIOUS
    <3>2. \A i \in 0 .. n : g[i] = f[i].lfn
      OBVIOUS
    <3> HIDE DEF g
    <3> QED
      BY <2>1, <2>2, <3>1, <3>2
  <2>6. Gather(a.lfn, s, k - 1) /\ Has(k - 1)
    BY <1>4, <2>5
  <2>7. b.lfn \in Seq(SlotsIn(s))
    BY <2>4 DEF Lists
  <2>8. Gather(b.lfn, s, k)
    <3>1. s[k].kind = "long" \/ s[k].kind = "label" \/ Entry(s[k])
      BY DEF Entry
    <3>2. s[k].kind = "label" \/ Entry(s[k]) => s[k].kind # "long"
      BY DEF Entry
    <3>3. /\ s[k].kind = "long" => Gather(Append(a.lfn, s[k]), s, k)
          /\ s[k].kind # "long" => Gather(<<>>, s, k)
      BY <1>1, <2>4, <2>6, GatherStep
    <3> QED
      BY <2>4, <3>1, <3>2, <3>3
  <2>9. Has(k)
    <3>1. \A e : e \in a.out <=> \E j \in 1 .. k - 1 : Entry(s[j]) /\ e = Listed(g[j - 1], s[j])
      BY <2>1, <2>6
    <3>2. 1 .. k = (1 .. k - 1) \cup {k}
      OBVIOUS
    <3>3. \A e : e \in b.out <=> e \in a.out \/ (Entry(s[k]) /\ e = Listed(g[k - 1], s[k]))
      BY <2>4, <2>5 DEF Entry
    <3> HIDE DEF g
    <3> QED
      BY <2>2, <3>1, <3>2, <3>3
  <2>10. k \in 0 .. n
    OBVIOUS
  <2> HIDE DEF Has, g
  <2> QED
    BY <2>5, <2>7, <2>8, <2>9, <2>10
<1> HIDE DEF E
<1>5. 0 .. n \subseteq E
  BY <1>3, <1>4, UpTo
<1> USE DEF E
<1>6. Has(n) /\ \A k \in 0 .. n : g[k] \in Seq(SlotsIn(s)) /\ Gather(g[k], s, k)
  <2> HIDE DEF Has, g
  <2>1. n \in 0 .. n
    OBVIOUS
  <2> QED
    BY <1>5, <2>1
<1>8. \A e : e \in Listing(s) <=> \E j \in 1 .. n : Entry(s[j]) /\ e = Listed(g[j - 1], s[j])
  BY <1>2, <1>6
<1> HIDE DEF g, Has
<1> QED
  BY <1>1, <1>6, <1>8

-----------------------------------------------------------------------------
(* What the driver's steps do to the slots.                                  *)

LEMMA FileIs ==
  ASSUME NEW f \in FatFiles
  PROVE  /\ f.name \in FatNames /\ f.kind \in {"file", "dir"} /\ f.clusters \in Seq(Clusters)
         /\ f.size \in Nat /\ f.state \in {"live", "deleted", "lost"}
         /\ LongOf(f) \in Nat /\ LongOf(f) = Parts[f.name]
<1>1. /\ f.name \in FatNames /\ f.kind \in {"file", "dir"} /\ f.clusters \in Seq(Clusters)
      /\ f.size \in Nat /\ f.state \in {"live", "deleted", "lost"}
  BY DEF FatFiles
<1> QED
  BY <1>1, FatAssumption DEF LongOf

(* What one sees of a slot that is known to be a file's.                     *)
SeenAs(s, f, id, k) ==
  /\ s.of = id /\ s # Label
  /\ k = 0 => s.kind = f.kind /\ s.first = FirstOf(f) /\ s.size = f.size /\ Entry(s)
  /\ k # 0 => s.kind = "long" /\ s.text = <<f.name, k>> /\ s.seq = k /\ s.sum = Checksum[f.name]
MarkedAs(s, f, k) ==
  /\ s.stamped \in BOOLEAN /\ (s.stamped <=> f.state # "live")
  /\ k # 0 => s.last \in BOOLEAN /\ (s.last <=> k = LongOf(f))

LEMMA SlotReads ==
  ASSUME NEW f \in FatFiles, NEW id, NEW k \in Nat, NEW s, IsSlot(s, f, id, k)
  PROVE  SeenAs(s, f, id, k) /\ MarkedAs(s, f, k)
<1>1. PICK b \in BOOLEAN : /\ b <=> f.state # "live"
                           /\ s = IF k = 0 THEN ShortAs(f, id, b) ELSE LongAs(f, id, k, b)
  BY DEF IsSlot
<1>2. f.kind \in {"file", "dir"}
  BY FileIs
<1>3. CASE k = 0
  <2>1. s = ShortAs(f, id, b)
    BY <1>1, <1>3
  <2>2. s.of = id /\ s.stamped = b /\ s.kind = f.kind /\ s.first = FirstOf(f) /\ s.size = f.size
    BY <2>1 DEF ShortAs
  <2>3. s.kind \notin {"long", "label"}
    BY <1>2, <2>2
  <2>4. s # Label
    BY <2>3 DEF Label
  <2> QED
    BY <1>1, <1>3, <2>2, <2>3, <2>4 DEF Entry, SeenAs, MarkedAs
<1>4. CASE k # 0
  <2>1. PICK c \in BOOLEAN : c = (k = LongOf(f))
    OBVIOUS
  <2>2. s = [kind |-> "long", stamped |-> b, of |-> id, text |-> <<f.name, k>>, seq |-> k, last |-> c,
             sum |-> Checksum[f.name]]
    BY <1>1, <1>4, <2>1 DEF LongAs
  <2>3. /\ s.of = id /\ s.stamped = b /\ s.kind = "long" /\ s.text = <<f.name, k>> /\ s.seq = k
        /\ s.last = c /\ s.sum = Checksum[f.name]
    BY <2>2
  <2>4. s # Label
    BY <2>3 DEF Label
  <2> QED
    BY <1>1, <1>4, <2>1, <2>3, <2>4 DEF SeenAs, MarkedAs
<1> QED
  BY <1>3, <1>4

LEMMA SlotOnce ==
  ASSUME NEW f \in FatFiles, NEW g \in FatFiles, NEW i, NEW j, NEW k \in Nat, NEW l \in Nat,
         NEW s, IsSlot(s, f, i, k), IsSlot(s, g, j, l)
  PROVE  i = j /\ k = l
<1>1. SeenAs(s, f, i, k) /\ SeenAs(s, g, j, l)
  BY SlotReads
<1> QED
  BY <1>1 DEF Entry, SeenAs

(* A slot that is stamped, with its file no longer live.                     *)
LEMMA SlotStamped ==
  ASSUME NEW f, NEW g, g.clusters = f.clusters, g.name = f.name, g.kind = f.kind, g.size = f.size,
         g.state # "live", NEW id, NEW s, NEW k, IsSlot(s, f, id, k)
  PROVE  IsSlot([s EXCEPT !.stamped = TRUE], g, id, k)
<1>1. PICK b \in BOOLEAN : s = IF k = 0 THEN ShortAs(f, id, b) ELSE LongAs(f, id, k, b)
  BY DEF IsSlot
<1>2. PICK t : t = [s EXCEPT !.stamped = TRUE]
  OBVIOUS
<1>3. CASE k = 0
  <2>1. t = ShortAs(f, id, TRUE)
    BY <1>1, <1>2, <1>3 DEF ShortAs
  <2>2. ShortAs(f, id, TRUE) = ShortAs(g, id, TRUE)
    BY DEF ShortAs, FirstOf
  <2> QED
    BY <1>2, <1>3, <2>1, <2>2 DEF IsSlot
<1>4. CASE k # 0
  <2>1. PICK c \in BOOLEAN : c = (k = LongOf(f)) /\ c = (k = LongOf(g))
    BY DEF LongOf
  <2>2. s = [kind |-> "long", stamped |-> b, of |-> id, text |-> <<f.name, k>>, seq |-> k, last |-> c,
             sum |-> Checksum[f.name]]
    BY <1>1, <1>4, <2>1 DEF LongAs
  <2>3. t = [kind |-> "long", stamped |-> TRUE, of |-> id, text |-> <<f.name, k>>, seq |-> k, last |-> c,
             sum |-> Checksum[f.name]]
    BY <1>2, <2>2
  <2>4. t = LongAs(g, id, k, TRUE)
    BY <2>1, <2>3 DEF LongAs
  <2> QED
    BY <1>2, <1>4, <2>4 DEF IsSlot
<1> QED
  BY <1>2, <1>3, <1>4

(* The slots a new file gets.                                                *)
SlotsFor(f, id, n) ==
  Append([i \in 1 .. n |-> LongSlot(id, f.name, n - i + 1, i = 1)], ShortSlot(id, f.kind, FirstOf(f), f.size))

LEMMA NewSlots ==
  ASSUME NEW id \in Nat, NEW n \in Nat, NEW f, n = LongOf(f), f.state = "live", NEW new, new = SlotsFor(f, id, n)
  PROVE  Len(new) = n + 1 /\ \A k \in 0 .. n : IsSlot(new[(n + 1) - k], f, id, k)
<1>1. PICK long : long = [i \in 1 .. n |-> LongSlot(id, f.name, n - i + 1, i = 1)]
  OBVIOUS
<1>2. PICK short : short = ShortSlot(id, f.kind, FirstOf(f), f.size)
  OBVIOUS
<1>3. PICK S : S = {long[i] : i \in 1 .. n} \cup {short}
  OBVIOUS
<1>4. long \in Seq(S) /\ Len(long) = n /\ short \in S
  <2>1. \A i \in 1 .. n : long[i] \in S
    BY <1>3
  <2>2. long \in [1 .. n -> S]
    BY <1>1, <2>1
  <2> QED
    BY <1>3, <2>2
<1>5. Len(new) = n + 1 /\ \A i \in 1 .. n + 1 : new[i] = IF i = n + 1 THEN short ELSE long[i]
  BY <1>1, <1>2, <1>4, AppendProperties DEF SlotsFor
<1>6. IsSlot(short, f, id, 0)
  <2>1. short = ShortAs(f, id, FALSE)
    BY <1>2 DEF ShortSlot, ShortAs, FirstOf
  <2> QED
    BY <2>1 DEF IsSlot
<1>7. ASSUME NEW k \in 1 .. n PROVE IsSlot(long[(n + 1) - k], f, id, k)
  <2>0. PICK i : i = (n + 1) - k
    OBVIOUS
  <2>1. i \in 1 .. n /\ i = (n + 1) - k /\ n - i + 1 = k /\ (i = 1 <=> k = n)
    BY <2>0
  <2>2. PICK c \in BOOLEAN : c = (i = 1) /\ c = (k = n)
    BY <2>1
  <2>3. long[i] = [kind |-> "long", stamped |-> FALSE, of |-> id, text |-> <<f.name, k>>, seq |-> k, last |-> c,
                   sum |-> Checksum[f.name]]
    BY <1>1, <2>1, <2>2 DEF LongSlot
  <2>4. LongAs(f, id, k, FALSE) = [kind |-> "long", stamped |-> FALSE, of |-> id, text |-> <<f.name, k>>, seq |-> k,
                                   last |-> c, sum |-> Checksum[f.name]]
    BY <2>2 DEF LongAs, LongOf
  <2>5. k # 0
    OBVIOUS
  <2>6. IsSlot(long[i], f, id, k)
    BY <2>3, <2>4, <2>5 DEF IsSlot
  <2> QED
    BY <2>1, <2>6
<1>8. ASSUME NEW k \in 0 .. n PROVE IsSlot(new[(n + 1) - k], f, id, k)
  <2>1. (n + 1) - k \in 1 .. n + 1 /\ ((n + 1) - k = n + 1 <=> k = 0)
    OBVIOUS
  <2>2. CASE k = 0
    BY <1>5, <1>6, <2>1, <2>2
  <2>3. CASE k # 0
    <3>1. k \in 1 .. n
      BY <2>3
    <3> QED
      BY <1>5, <1>7, <2>1, <2>3, <3>1
  <2> QED
    BY <2>2, <2>3
<1> QED
  BY <1>5, <1>8

LEMMA SeqIs ==
  ASSUME NEW n \in Nat, NEW t, t = [i \in 1 .. n |-> t[i]]
  PROVE  Len(t) = n /\ DOMAIN t = 1 .. n
<1>1. PICK S : S = {t[i] : i \in 1 .. n}
  OBVIOUS
<1>2. t \in [1 .. n -> S]
  BY <1>1
<1> QED
  BY <1>2

(* t is s, l long, with new, m long, put at place i.                         *)
IsPut(t, s, l, new, m, i) ==
  /\ Len(t) \in Nat /\ DOMAIN t = 1 .. Len(t)
  /\ \A j \in 1 .. Len(t) : IF j \in i .. i + m - 1 THEN t[j] = new[j - i + 1]
                            ELSE j \in 1 .. l /\ t[j] = s[j]
  /\ 1 .. l \subseteq 1 .. Len(t) /\ i .. i + m - 1 \subseteq 1 .. Len(t)

LEMMA PutIs ==
  ASSUME NEW s, NEW l \in Nat, l = Len(s), NEW new, NEW m \in Nat \ {0}, m = Len(new), NEW i \in 1 .. l + 1,
         NEW t, t = Put(s, i, new)
  PROVE  IsPut(t, s, l, new, m, i)
<1>1. PICK n \in Nat : n = Greater(l, i + m - 1) /\ n = IF l > i + m - 1 THEN l ELSE i + m - 1
  BY DEF Greater
<1>2. t = [j \in 1 .. n |-> IF j \in i .. i + m - 1 THEN new[j - i + 1] ELSE s[j]]
  BY <1>1 DEF Put
<1>3. Len(t) = n /\ DOMAIN t = 1 .. n
  <2>1. \A j \in 1 .. n : t[j] = IF j \in i .. i + m - 1 THEN new[j - i + 1] ELSE s[j]
    BY <1>2
  <2>2. t = [j \in 1 .. n |-> t[j]]
    BY <1>2, <2>1
  <2> QED
    BY <2>2, SeqIs
<1>4. ASSUME NEW j \in 1 .. n PROVE IF j \in i .. i + m - 1 THEN t[j] = new[j - i + 1] ELSE j \in 1 .. l /\ t[j] = s[j]
  <2>1. j \notin i .. i + m - 1 => j \in 1 .. l
    BY <1>1
  <2> QED
    BY <1>2, <2>1
<1>5. 1 .. l \subseteq 1 .. n /\ i .. i + m - 1 \subseteq 1 .. n
  BY <1>1
<1> QED
  BY <1>3, <1>4, <1>5 DEF IsPut

(* A file f with the number id is added to those of M.                       *)
Adds(M, M2, f, id) ==
  /\ \A i \in DOMAIN M2 : M2[i] \in FatFiles /\ i \in Nat
  /\ DOMAIN M2 = DOMAIN M \cup {id} /\ id \notin DOMAIN M /\ M2[id] = f
  /\ \A i \in DOMAIN M : M2[i] = M[i]
Fresh(f, c) == f.kind = "dir" /\ c = f.clusters[1]

(* The slots of D2 are those of the new file, n + 1 of them from place at of *)
(* d, and those of D elsewhere; only stamped ones went.                      *)
Grows(D, D2, f, id, d, at, n) ==
  /\ Shaped(D2)
  /\ \A k \in 0 .. n : at + n - k \in DOMAIN D2[d] /\ IsSlot(D2[d][at + n - k], f, id, k)
  /\ \A c \in FatDirs : \A j \in DOMAIN D2[c] : ~(c = d /\ j \in at .. at + n) =>
       ~Fresh(f, c) /\ j \in DOMAIN D[c] /\ D2[c][j] = D[c][j]
  /\ \A c \in FatDirs : \A j \in DOMAIN D[c] : ~Fresh(f, c) =>
       j \in DOMAIN D2[c] /\ (D[c][j].stamped \/ ~(c = d /\ j \in at .. at + n))

LEMMA GrowsIs ==
  ASSUME NEW D, Shaped(D), NEW f \in FatFiles, f.state = "live", NEW id \in Nat, NEW d \in FatDirs,
         NEW n \in Nat, n = LongOf(f), NEW new, new = SlotsFor(f, id, n),
         NEW l \in Nat, l = Len(D[d]), NEW at \in Nat \ {0}, at <= l + 1,
         \A j \in at .. Smaller(at + n, l) : D[d][j].stamped, ~Fresh(f, d),
         NEW D2, D2 = [c \in DOMAIN D |-> IF c = d THEN Put(D[d], at, new) ELSE IF Fresh(f, c) THEN <<>> ELSE D[c]]
  PROVE  Grows(D, D2, f, id, d, at, n)
<1>1. Len(new) = n + 1 /\ \A k \in 0 .. n : IsSlot(new[(n + 1) - k], f, id, k)
  BY NewSlots
<1>2. /\ DOMAIN D2 = FatDirs /\ D2[d] = Put(D[d], at, new)
      /\ \A c \in FatDirs \ {d} : D2[c] = IF Fresh(f, c) THEN <<>> ELSE D[c]
  BY DEF Shaped
<1>3. DOMAIN D[d] = 1 .. l
  BY DEF Shaped
<1>4. PICK m \in Nat \ {0} : m = n + 1 /\ m = Len(new) /\ at + m - 1 = at + n /\ at \in Nat
  BY <1>1
<1>5. PICK s : s = D[d]
  OBVIOUS
<1>6. PICK t : t = D2[d]
  OBVIOUS
<1>7. /\ IsPut(t, s, l, new, m, at) /\ Len(t) \in Nat /\ DOMAIN t = 1 .. Len(t)
      /\ \A j \in 1 .. Len(t) : IF j \in at .. at + m - 1 THEN t[j] = new[j - at + 1]
                                ELSE j \in 1 .. l /\ t[j] = s[j]
      /\ 1 .. l \subseteq 1 .. Len(t) /\ at .. at + m - 1 \subseteq 1 .. Len(t)
  <2>1. l = Len(s) /\ t = Put(s, at, new) /\ at \in 1 .. l + 1
    BY <1>2, <1>5, <1>6
  <2> QED
    <3>1. IsPut(t, s, l, new, m, at)
      <4>1. m \in Nat \ {0} /\ m = Len(new)
        BY <1>4
      <4> QED
        BY <2>1, <4>1, PutIs
    <3> QED
      BY <3>1 DEF IsPut
<1>8. Shaped(D2)
  <2>1. ASSUME NEW c \in FatDirs PROVE Len(D2[c]) \in Nat /\ DOMAIN D2[c] = 1 .. Len(D2[c])
    <3>1. CASE c = d
      BY <1>6, <1>7, <3>1
    <3>2. CASE c # d /\ Fresh(f, c)
      <4>1. D2[c] = <<>>
        BY <1>2, <3>2
      <4> QED
        BY <4>1
    <3>3. CASE c # d /\ ~Fresh(f, c)
      BY <1>2, <3>3 DEF Shaped
    <3> QED
      BY <3>1, <3>2, <3>3
  <2> QED
    BY <1>2, <2>1 DEF Shaped
<1>9. ASSUME NEW k \in 0 .. n PROVE at + n - k \in DOMAIN D2[d] /\ IsSlot(D2[d][at + n - k], f, id, k)
  <2>1. PICK j \in Nat : j = at + n - k
    BY <1>4
  <2>2. j \in at .. at + m - 1 /\ j - at + 1 = (n + 1) - k
    <3>1. at \in Nat /\ n \in Nat /\ m = n + 1
      BY <1>4
    <3>2. k \in Nat /\ k <= n
      OBVIOUS
    <3>3. at <= j
      BY <2>1, <3>1, <3>2
    <3>4. j <= at + m - 1
      BY <2>1, <3>1, <3>2
    <3>5. j - at + 1 = (n + 1) - k
      BY SMTT(30), <2>1, <3>1, <3>2
    <3> QED
      BY <3>1, <3>3, <3>4, <3>5
  <2>3. j \in 1 .. Len(t) /\ t[j] = new[(n + 1) - k]
    BY <1>7, <2>2
  <2> QED
    BY <1>1, <1>6, <1>7, <2>1, <2>3
<1>10. ASSUME NEW c \in FatDirs, NEW j \in DOMAIN D2[c], ~(c = d /\ j \in at .. at + n)
       PROVE  ~Fresh(f, c) /\ j \in DOMAIN D[c] /\ D2[c][j] = D[c][j]
  <2>1. CASE c = d
    BY ZenonT(30), <1>3, <1>4, <1>5, <1>6, <1>7, <1>10, <2>1
  <2>2. CASE c # d /\ Fresh(f, c)
    <3>1. D2[c] = <<>>
      BY <1>2, <2>2
    <3> QED
      BY <1>10, <3>1
  <2>3. CASE c # d /\ ~Fresh(f, c)
    BY <1>2, <1>10, <2>3
  <2> QED
    BY <2>1, <2>2, <2>3
<1>11. ASSUME NEW c \in FatDirs, NEW j \in DOMAIN D[c], ~Fresh(f, c)
       PROVE  j \in DOMAIN D2[c] /\ (D[c][j].stamped \/ ~(c = d /\ j \in at .. at + n))
  <2>1. CASE c = d
    <3>1. j \in 1 .. l /\ j \in DOMAIN D2[c]
      BY <1>3, <1>6, <1>7, <1>11, <2>1
    <3>2. ASSUME j \in at .. at + n PROVE j \in at .. Smaller(at + n, l)
      BY <3>1, <3>2 DEF Smaller
    <3> QED
      BY <2>1, <3>1, <3>2
  <2>2. CASE c # d
    BY <1>2, <1>11, <2>2
  <2> QED
    BY <2>1, <2>2
<1> QED
  BY <1>8, <1>9, <1>10, <1>11 DEF Grows

LEMMA SlotIsNotLabel ==
  ASSUME NEW f \in FatFiles, NEW id, NEW k \in Nat PROVE ~IsSlot(Label, f, id, k)
<1>1. ASSUME IsSlot(Label, f, id, k) PROVE FALSE
  BY <1>1, SlotReads DEF SeenAs
<1> QED
  BY <1>1

LEMMA LongIs ==
  ASSUME NEW f \in FatFiles PROVE LongOf(f) \in Nat
  BY FileIs

(* Which slot of which file is found where.                                  *)
Grown(D, M, D2, M2, f, id, d, at, n) ==
  /\ at \in Nat /\ n \in Nat /\ Shaped(D) /\ SlotsKnown(D, M)
  /\ Adds(M, M2, f, id) /\ Grows(D, D2, f, id, d, at, n)
Added(c, j, k, d, at, n) == c = d /\ j = at + n - k /\ j \in at .. at + n
Stayed(D, M, D2, M2, f, d, at, n, c, j, i, k) ==
  /\ i \in DOMAIN M /\ M2[i] = M[i] /\ ~(c = d /\ j \in at .. at + n)
  /\ ~Fresh(f, c) /\ j \in DOMAIN D[c] /\ D2[c][j] = D[c][j] /\ IsSlot(D[c][j], M[i], i, k)

LEMMA GrownSlot ==
  ASSUME NEW D, NEW M, NEW D2, NEW M2, NEW f, NEW id, NEW d, NEW at, NEW n, Grown(D, M, D2, M2, f, id, d, at, n),
         NEW c \in FatDirs, NEW j \in DOMAIN D2[c], NEW i \in DOMAIN M2, NEW k \in Nat, IsSlot(D2[c][j], M2[i], i, k)
  PROVE  /\ i = id => Added(c, j, k, d, at, n)
         /\ i # id => Stayed(D, M, D2, M2, f, d, at, n, c, j, i, k)
<1>0. at \in Nat /\ n \in Nat /\ SlotsKnown(D, M) /\ Adds(M, M2, f, id) /\ Grows(D, D2, f, id, d, at, n)
  BY DEF Grown
<1>1. M2[i] \in FatFiles /\ f \in FatFiles /\ M2[id] = f
  BY <1>0 DEF Adds
<1>2. CASE c = d /\ j \in at .. at + n
  <2>1. PICK l \in 0 .. n : j = at + n - l
    <3>1. at + n - j \in 0 .. n /\ j = at + n - (at + n - j)
      BY <1>0, <1>2
    <3> QED
      BY <3>1
  <2>2. IsSlot(D2[c][j], f, id, l)
    BY <1>0, <1>2, <2>1 DEF Grows
  <2>3. i = id /\ k = l
    BY <1>0, <1>1, <2>2, SlotOnce
  <2> QED
    BY <1>2, <2>1, <2>3 DEF Added
<1>3. CASE ~(c = d /\ j \in at .. at + n)
  <2>1. ~Fresh(f, c) /\ j \in DOMAIN D[c] /\ D2[c][j] = D[c][j]
    BY <1>0, <1>3 DEF Grows
  <2>2. D[c][j] # Label
    BY <1>1, <2>1, SlotIsNotLabel
  <2>3. PICK o \in DOMAIN M : \E l \in 0 .. LongOf(M[o]) : IsSlot(D[c][j], M[o], o, l)
    BY <1>0, <2>1, <2>2 DEF SlotsKnown
  <2>4. PICK l \in 0 .. LongOf(M[o]) : IsSlot(D[c][j], M[o], o, l)
    BY <2>3
  <2>5. M[o] \in FatFiles /\ o # id /\ M2[o] = M[o]
    BY <1>0 DEF Adds
  <2>6. LongOf(M[o]) \in Nat
    BY <2>5, LongIs
  <2>7. i = o
    <3>1. l \in Nat
      BY <2>6
    <3> QED
      BY <1>1, <2>1, <2>4, <2>5, <3>1, SlotOnce
  <2> QED
    BY <1>3, <2>1, <2>5, <2>7 DEF Stayed
<1> QED
  BY <1>2, <1>3

LEMMA GrownKnown ==
  ASSUME NEW D, NEW M, NEW D2, NEW M2, NEW f, NEW id, NEW d, NEW at, NEW n, Grown(D, M, D2, M2, f, id, d, at, n),
         n = LongOf(f)
  PROVE  SlotsKnown(D2, M2)
<1>0. at \in Nat /\ n \in Nat /\ SlotsKnown(D, M) /\ Adds(M, M2, f, id) /\ Grows(D, D2, f, id, d, at, n)
  BY DEF Grown
<1>1. SUFFICES ASSUME NEW c \in FatDirs, NEW j \in DOMAIN D2[c], D2[c][j] # Label
               PROVE  \E i \in DOMAIN M2 : \E k \in 0 .. LongOf(M2[i]) : IsSlot(D2[c][j], M2[i], i, k)
  BY DEF SlotsKnown
<1>2. CASE c = d /\ j \in at .. at + n
  <2>1. PICK k \in 0 .. n : j = at + n - k
    <3>1. at + n - j \in 0 .. n /\ j = at + n - (at + n - j)
      BY <1>0, <1>2
    <3> QED
      BY <3>1
  <2>2. IsSlot(D2[c][j], f, id, k)
    BY <1>0, <1>2, <2>1 DEF Grows
  <2> QED
    BY <1>0, <2>1, <2>2 DEF Adds
<1>3. CASE ~(c = d /\ j \in at .. at + n)
  <2>1. j \in DOMAIN D[c] /\ D2[c][j] = D[c][j]
    BY <1>0, <1>3 DEF Grows
  <2>2. PICK i \in DOMAIN M : \E k \in 0 .. LongOf(M[i]) : IsSlot(D[c][j], M[i], i, k)
    BY <1>0, <1>1, <2>1 DEF SlotsKnown
  <2> QED
    BY <1>0, <2>1, <2>2 DEF Adds
<1> QED
  BY <1>2, <1>3

LEMMA GrownApart ==
  ASSUME NEW D, NEW M, NEW D2, NEW M2, NEW f, NEW id, NEW d, NEW at, NEW n, Grown(D, M, D2, M2, f, id, d, at, n),
         SlotsApart(D, M)
  PROVE  SlotsApart(D2, M2)
<1>1. SUFFICES ASSUME NEW o \in DOMAIN M2, NEW k \in 0 .. LongOf(M2[o]), NEW c \in FatDirs, NEW e \in FatDirs,
                      NEW i \in DOMAIN D2[c], NEW j \in DOMAIN D2[e],
                      IsSlot(D2[c][i], M2[o], o, k), IsSlot(D2[e][j], M2[o], o, k)
               PROVE  c = e /\ i = j
  BY DEF SlotsApart
<1>2. k \in Nat
  <2>1. M2[o] \in FatFiles
    BY DEF Adds, Grown
  <2> QED
    BY <2>1, LongIs
<1>3. CASE o = id
  <2>1. c = d /\ i = at + n - k
    BY <1>1, <1>2, <1>3, GrownSlot DEF Added
  <2>2. e = d /\ j = at + n - k
    BY <1>1, <1>2, <1>3, GrownSlot DEF Added
  <2> QED
    BY <2>1, <2>2
<1>4. CASE o # id
  <2>1. o \in DOMAIN M /\ M2[o] = M[o] /\ i \in DOMAIN D[c] /\ IsSlot(D[c][i], M[o], o, k)
    BY <1>1, <1>2, <1>4, GrownSlot DEF Stayed
  <2>2. j \in DOMAIN D[e] /\ IsSlot(D[e][j], M[o], o, k)
    BY <1>1, <1>2, <1>4, GrownSlot DEF Stayed
  <2> QED
    BY <2>1, <2>2 DEF SlotsApart
<1> QED
  BY <1>3, <1>4

(* Only stamped slots went, so live files keep theirs; the new one has its   *)
(* slots together.                                                           *)
LEMMA GrownLie ==
  ASSUME NEW D, NEW M, NEW D2, NEW M2, NEW f, NEW id, NEW d \in FatDirs, NEW at, NEW n,
         Grown(D, M, D2, M2, f, id, d, at, n),
         n = LongOf(f), at # 0, f.state = "live", LiveLie(D, M), d = Root \/ (f.kind = "file" /\ d \in DirsOf(M)),
         f.kind = "dir" => f.clusters[1] \notin {Root} \cup DirsOf(M)
  PROVE  LiveLie(D2, M2)
<1>0. at \in Nat /\ n \in Nat /\ SlotsKnown(D, M) /\ Adds(M, M2, f, id) /\ Grows(D, D2, f, id, d, at, n)
  BY DEF Grown
<1>1. DirsOf(M) \subseteq DirsOf(M2)
  BY <1>0 DEF DirsOf, Adds
<1>2. SUFFICES ASSUME NEW o \in DOMAIN M2, M2[o].state = "live"
               PROVE  \E e \in FatDirs : \E j \in DOMAIN D2[e] : Lies(D2, M2, o, e, j)
  BY DEF LiveLie
<1>3. CASE o = id
  <2>1. M2[o] = f
    BY <1>0, <1>3 DEF Adds
  <2>2. PICK j : j = at + n
    OBVIOUS
  <2>3. j \in DOMAIN D2[d] /\ n < j
    <3>1. 0 \in 0 .. n /\ at + n - 0 = at + n
      BY <1>0
    <3> QED
      BY <1>0, <2>2, <3>1 DEF Grows
  <2>4. \A k \in 0 .. n : IsSlot(D2[d][j - k], f, id, k)
    BY <1>0, <2>2 DEF Grows
  <2>5. d = Root \/ (f.kind = "file" /\ d \in DirsOf(M2))
    BY <1>1
  <2>6. Lies(D2, M2, o, d, j)
    BY <1>3, <2>1, <2>3, <2>4, <2>5 DEF Lies
  <2> QED
    BY <2>3, <2>6
<1>4. CASE o # id
  <2>1. o \in DOMAIN M /\ M2[o] = M[o] /\ M[o] \in FatFiles /\ M[o].state = "live"
    BY <1>0, <1>2, <1>4 DEF Adds
  <2>2. PICK e \in FatDirs : \E j \in DOMAIN D[e] : Lies(D, M, o, e, j)
    BY <2>1 DEF LiveLie
  <2>3. PICK j \in DOMAIN D[e] : Lies(D, M, o, e, j)
    BY <2>2
  <2>4. PICK l : l = LongOf(M[o])
    OBVIOUS
  <2>5. /\ l < j /\ \A k \in 0 .. l : IsSlot(D[e][j - k], M[o], o, k)
        /\ e = Root \/ (M[o].kind = "file" /\ e \in DirsOf(M))
    BY <2>3, <2>4 DEF Lies
  <2>6. ~Fresh(f, e)
    BY <2>5 DEF Fresh
  <2>7. l \in Nat
    BY <2>1, <2>4, LongIs
  <2>8. ASSUME NEW k \in 0 .. l, j - k \in DOMAIN D[e]
        PROVE  j - k \in DOMAIN D2[e] /\ D2[e][j - k] = D[e][j - k]
    <3>1. PICK i : i = j - k
      OBVIOUS
    <3>2. i \in DOMAIN D[e] /\ IsSlot(D[e][i], M[o], o, k) /\ k \in Nat
      BY <2>5, <2>8, <3>1
    <3>3. MarkedAs(D[e][i], M[o], k)
      BY <2>1, <3>2, SlotReads
    <3>4. ~D[e][i].stamped
      BY <2>1, <3>3 DEF MarkedAs
    <3>5. i \in DOMAIN D2[e] /\ ~(e = d /\ i \in at .. at + n)
      BY <1>0, <2>6, <3>2, <3>4 DEF Grows
    <3>6. D2[e][i] = D[e][i]
      BY <1>0, <3>5 DEF Grows
    <3> QED
      BY <3>1, <3>5, <3>6
  <2>9. \A k \in 0 .. l : j - k \in DOMAIN D[e]
    <3>1. Shaped(D)
      BY <1>0 DEF Grown
    <3>2. PICK s \in Nat : s = Len(D[e]) /\ DOMAIN D[e] = 1 .. s
      BY <3>1 DEF Shaped
    <3> QED
      BY <2>5, <2>7, <3>2
  <2>10. j \in DOMAIN D2[e]
    <3>1. 0 \in 0 .. l /\ j - 0 = j
      <4>1. Shaped(D)
        BY <1>0 DEF Grown
      <4>2. PICK s \in Nat : s = Len(D[e]) /\ DOMAIN D[e] = 1 .. s
        BY <4>1 DEF Shaped
      <4> QED
        BY <2>7, <4>2
    <3> QED
      BY <2>8, <2>9, <3>1
  <2>11. \A k \in 0 .. l : IsSlot(D2[e][j - k], M2[o], o, k)
    BY <2>1, <2>5, <2>8, <2>9
  <2>12. Lies(D2, M2, o, e, j)
    BY <1>1, <2>1, <2>4, <2>5, <2>11 DEF Lies
  <2> QED
    BY <2>10, <2>12
<1> QED
  BY <1>3, <1>4

(* A name slot stays before the next: the slot before the new ones, if any,  *)
(* is live.                                                                  *)
LEMMA GrownFollow ==
  ASSUME NEW D, NEW M, NEW D2, NEW M2, NEW f, NEW id, NEW d, NEW at, NEW n, Grown(D, M, D2, M2, f, id, d, at, n),
         n = LongOf(f), NamesFollow(D, M), at - 1 \in DOMAIN D[d] => ~D[d][at - 1].stamped
  PROVE  NamesFollow(D2, M2)
<1>0. at \in Nat /\ n \in Nat /\ SlotsKnown(D, M) /\ Adds(M, M2, f, id) /\ Grows(D, D2, f, id, d, at, n)
  BY DEF Grown
<1>1. SUFFICES ASSUME NEW c \in FatDirs, NEW j \in DOMAIN D2[c], NEW o \in DOMAIN M2, NEW k \in 1 .. LongOf(M2[o]),
                      IsSlot(D2[c][j], M2[o], o, k)
               PROVE  j + 1 \in DOMAIN D2[c] /\ IsSlot(D2[c][j + 1], M2[o], o, k - 1)
  BY DEF NamesFollow
<1>2. M2[o] \in FatFiles /\ k \in Nat \ {0} /\ k <= LongOf(M2[o]) /\ j \in Nat
  <2>1. M2[o] \in FatFiles
    BY <1>0 DEF Adds
  <2>2. LongOf(M2[o]) \in Nat
    BY <2>1, LongIs
  <2>3. Shaped(D2)
    BY <1>0 DEF Grows
  <2>4. PICK s \in Nat : DOMAIN D2[c] = 1 .. s
    BY <2>3 DEF Shaped
  <2> QED
    BY <2>1, <2>2, <2>4
<1>3. CASE o = id
  <2>1. c = d /\ j = at + n - k
    BY <1>1, <1>2, <1>3, GrownSlot DEF Added
  <2>2. M2[o] = f
    BY <1>0, <1>3 DEF Adds
  <2>3. PICK m : m = k - 1
    OBVIOUS
  <2>4. m \in 0 .. n /\ at + n - m = j + 1
    BY <1>0, <1>2, <2>1, <2>2, <2>3
  <2>5. at + n - m \in DOMAIN D2[d] /\ IsSlot(D2[d][at + n - m], f, id, m)
    BY <1>0, <2>4 DEF Grows
  <2> QED
    BY <1>3, <2>1, <2>2, <2>3, <2>4, <2>5
<1>4. CASE o # id
  <2>1. /\ o \in DOMAIN M /\ M2[o] = M[o] /\ ~(c = d /\ j \in at .. at + n)
        /\ ~Fresh(f, c) /\ j \in DOMAIN D[c] /\ IsSlot(D[c][j], M[o], o, k)
    BY <1>1, <1>2, <1>4, GrownSlot DEF Stayed
  <2>2. PICK i \in Nat : i = j + 1
    BY <1>2
  <2>3. PICK m \in Nat : m = k - 1
    BY <1>2
  <2>4. i \in DOMAIN D[c] /\ IsSlot(D[c][i], M[o], o, m)
    <3>1. k \in 1 .. LongOf(M[o])
      BY <1>1, <2>1
    <3>2. j + 1 \in DOMAIN D[c] /\ IsSlot(D[c][j + 1], M[o], o, k - 1)
      BY <2>1, <3>1 DEF NamesFollow
    <3> QED
      BY <2>2, <2>3, <3>2
  <2>5. i \in DOMAIN D2[c]
    BY <1>0, <2>1, <2>4 DEF Grows
  <2>6. ASSUME c = d, i \in at .. at + n PROVE FALSE
    <3>1. i = at /\ j = at - 1
      BY <1>0, <1>2, <2>1, <2>2, <2>6
    <3>2. ~D[c][j].stamped
      BY <2>1, <2>6, <3>1
    <3>3. MarkedAs(D[c][j], M[o], k) /\ MarkedAs(D[c][i], M[o], m)
      <4>1. M[o] \in FatFiles
        BY <1>2, <2>1
      <4>2. MarkedAs(D[c][j], M[o], k)
        BY <1>2, <2>1, <4>1, SlotReads
      <4>3. MarkedAs(D[c][i], M[o], m)
        BY <2>4, <4>1, SlotReads
      <4> QED
        BY <4>2, <4>3
    <3>4. ~D[c][i].stamped
      BY <3>2, <3>3 DEF MarkedAs
    <3>5. D[c][i].stamped
      BY <1>0, <2>1, <2>4, <2>6 DEF Grows
    <3> QED
      BY <3>4, <3>5
  <2>7. D2[c][i] = D[c][i]
    BY <1>0, <2>5, <2>6 DEF Grows
  <2> QED
    BY <2>1, <2>2, <2>3, <2>4, <2>5, <2>7
<1> QED
  BY <1>3, <1>4

(* A slot that the deletion of file x stamps remains that of its file.       *)
Deletes(D, M, D2, M2, x) ==
  /\ Shaped(D) /\ Shaped(D2) /\ SlotsKnown(D, M) /\ x \in DOMAIN M /\ DOMAIN M2 = DOMAIN M
  /\ \A i \in DOMAIN M : /\ M[i] \in FatFiles /\ M2[i] \in FatFiles /\ i \in Nat \ {0} /\ (i # x => M2[i] = M[i])
                         /\ M2[i].clusters = M[i].clusters /\ M2[i].name = M[i].name
                         /\ M2[i].kind = M[i].kind /\ M2[i].size = M[i].size
  /\ M2[x].state # "live"
  /\ \A c \in FatDirs : DOMAIN D2[c] = DOMAIN D[c]
  /\ \A c \in FatDirs : \A j \in DOMAIN D[c] :
       D2[c][j] = IF D[c][j].of = x THEN [D[c][j] EXCEPT !.stamped = TRUE] ELSE D[c][j]

LEMMA DeletedSlot ==
  ASSUME NEW D, NEW M, NEW D2, NEW M2, NEW x, Deletes(D, M, D2, M2, x), NEW c \in FatDirs, NEW j \in DOMAIN D[c]
  PROVE  /\ D[c][j] = Label => D2[c][j] = Label
         /\ D[c][j] # Label => \E i \in DOMAIN M : \E k \in 0 .. LongOf(M[i]) :
                                 IsSlot(D[c][j], M[i], i, k) /\ IsSlot(D2[c][j], M2[i], i, k)
<1>0. /\ x \in DOMAIN M /\ M2[x].state # "live" /\ SlotsKnown(D, M)
      /\ \A i \in DOMAIN M : /\ M[i] \in FatFiles /\ M2[i] \in FatFiles /\ i \in Nat \ {0} /\ (i # x => M2[i] = M[i])
                             /\ M2[i].clusters = M[i].clusters /\ M2[i].name = M[i].name
                             /\ M2[i].kind = M[i].kind /\ M2[i].size = M[i].size
      /\ D2[c][j] = IF D[c][j].of = x THEN [D[c][j] EXCEPT !.stamped = TRUE] ELSE D[c][j]
  BY DEF Deletes
<1>1. CASE D[c][j] = Label
  <2>1. Label.of = 0
    BY DEF Label
  <2>2. x # 0
    BY <1>0
  <2> QED
    BY <1>0, <1>1, <2>1, <2>2
<1>2. CASE D[c][j] # Label
  <2>1. PICK i \in DOMAIN M : \E k \in 0 .. LongOf(M[i]) : IsSlot(D[c][j], M[i], i, k)
    BY <1>0, <1>2 DEF SlotsKnown
  <2>2. PICK k \in 0 .. LongOf(M[i]) : IsSlot(D[c][j], M[i], i, k)
    BY <2>1
  <2>3. k \in Nat
    BY <1>0, LongIs
  <2>4. D[c][j].of = i
    <3>1. SeenAs(D[c][j], M[i], i, k)
      <4>1. M[i] \in FatFiles
        BY <1>0
      <4> QED
        BY <2>2, <2>3, <4>1, SlotReads
    <3> QED
      BY <3>1 DEF SeenAs
  <2>5. CASE i = x
    <3>1. IsSlot([D[c][j] EXCEPT !.stamped = TRUE], M2[i], i, k)
      BY <1>0, <2>2, <2>5, SlotStamped
    <3> QED
      BY <1>0, <1>2, <2>2, <2>4, <2>5, <3>1
  <2>6. CASE i # x
    BY <1>0, <1>2, <2>2, <2>4, <2>6
  <2> QED
    BY <2>5, <2>6
<1> QED
  BY <1>1, <1>2

(* So a slot is the same file's before and after.                            *)
LEMMA DeletedSame ==
  ASSUME NEW D, NEW M, NEW D2, NEW M2, NEW x, Deletes(D, M, D2, M2, x), NEW c \in FatDirs, NEW j \in DOMAIN D[c],
         NEW i \in DOMAIN M, NEW k \in Nat
  PROVE  IsSlot(D2[c][j], M2[i], i, k) <=> IsSlot(D[c][j], M[i], i, k)
<1>0. M[i] \in FatFiles /\ M2[i] \in FatFiles
  BY DEF Deletes
<1>1. CASE D[c][j] = Label
  <2>1. D2[c][j] = Label
    BY <1>1, DeletedSlot
  <2> QED
    BY <1>0, <1>1, <2>1, SlotIsNotLabel
<1>2. CASE D[c][j] # Label
  <2>1. PICK o \in DOMAIN M : \E l \in 0 .. LongOf(M[o]) : IsSlot(D[c][j], M[o], o, l) /\ IsSlot(D2[c][j], M2[o], o, l)
    BY <1>2, DeletedSlot
  <2>2. PICK l \in 0 .. LongOf(M[o]) : IsSlot(D[c][j], M[o], o, l) /\ IsSlot(D2[c][j], M2[o], o, l)
    BY <2>1
  <2>3. M[o] \in FatFiles /\ M2[o] \in FatFiles
    BY DEF Deletes
  <2>4. l \in Nat
    BY <2>3, LongIs
  <2>5. IsSlot(D[c][j], M[i], i, k) => i = o /\ k = l
    BY <1>0, <2>2, <2>3, <2>4, SlotOnce
  <2>6. IsSlot(D2[c][j], M2[i], i, k) => i = o /\ k = l
    BY <1>0, <2>2, <2>3, <2>4, SlotOnce
  <2> QED
    BY <2>2, <2>5, <2>6
<1> QED
  BY <1>1, <1>2

LEMMA DeletedKeeps ==
  ASSUME NEW D, NEW M, NEW D2, NEW M2, NEW x, Deletes(D, M, D2, M2, x)
  PROVE  /\ SlotsKnown(D2, M2)
         /\ SlotsApart(D, M) => SlotsApart(D2, M2)
         /\ NamesFollow(D, M) => NamesFollow(D2, M2)
<1>0. /\ \A c \in FatDirs : DOMAIN D2[c] = DOMAIN D[c]
      /\ DOMAIN M2 = DOMAIN M
      /\ \A i \in DOMAIN M : LongOf(M2[i]) = LongOf(M[i]) /\ LongOf(M[i]) \in Nat
  <2>1. /\ \A c \in FatDirs : DOMAIN D2[c] = DOMAIN D[c]
        /\ DOMAIN M2 = DOMAIN M
        /\ \A i \in DOMAIN M : M[i] \in FatFiles /\ M2[i].name = M[i].name
    BY DEF Deletes
  <2>2. \A i \in DOMAIN M : LongOf(M2[i]) = LongOf(M[i])
    BY <2>1 DEF LongOf
  <2> QED
    BY <2>1, <2>2, LongIs
<1>1. \A c \in FatDirs : \A j \in DOMAIN D[c] : \A i \in DOMAIN M : \A k \in Nat :
        IsSlot(D2[c][j], M2[i], i, k) <=> IsSlot(D[c][j], M[i], i, k)
  BY DeletedSame
<1>2. SlotsKnown(D2, M2)
  <2>1. SUFFICES ASSUME NEW c \in FatDirs, NEW j \in DOMAIN D2[c], D2[c][j] # Label
                 PROVE  \E i \in DOMAIN M2 : \E k \in 0 .. LongOf(M2[i]) : IsSlot(D2[c][j], M2[i], i, k)
    BY DEF SlotsKnown
  <2>2. j \in DOMAIN D[c]
    BY <1>0
  <2>3. D[c][j] # Label
    BY <2>1, <2>2, DeletedSlot
  <2>4. PICK i \in DOMAIN M : \E k \in 0 .. LongOf(M[i]) : IsSlot(D[c][j], M[i], i, k) /\ IsSlot(D2[c][j], M2[i], i, k)
    BY <2>2, <2>3, DeletedSlot
  <2> QED
    BY <1>0, <2>4
<1>3. ASSUME SlotsApart(D, M) PROVE SlotsApart(D2, M2)
  <2>1. SUFFICES ASSUME NEW o \in DOMAIN M2, NEW k \in 0 .. LongOf(M2[o]), NEW c \in FatDirs, NEW e \in FatDirs,
                        NEW i \in DOMAIN D2[c], NEW j \in DOMAIN D2[e],
                        IsSlot(D2[c][i], M2[o], o, k), IsSlot(D2[e][j], M2[o], o, k)
                 PROVE  c = e /\ i = j
    BY DEF SlotsApart
  <2>2. o \in DOMAIN M /\ k \in 0 .. LongOf(M[o]) /\ k \in Nat /\ i \in DOMAIN D[c] /\ j \in DOMAIN D[e]
    BY <1>0
  <2>3. IsSlot(D[c][i], M[o], o, k) /\ IsSlot(D[e][j], M[o], o, k)
    BY <1>1, <2>1, <2>2
  <2> QED
    BY <1>3, <2>2, <2>3 DEF SlotsApart
<1>4. ASSUME NamesFollow(D, M) PROVE NamesFollow(D2, M2)
  <2>1. SUFFICES ASSUME NEW c \in FatDirs, NEW j \in DOMAIN D2[c], NEW o \in DOMAIN M2, NEW k \in 1 .. LongOf(M2[o]),
                        IsSlot(D2[c][j], M2[o], o, k)
                 PROVE  j + 1 \in DOMAIN D2[c] /\ IsSlot(D2[c][j + 1], M2[o], o, k - 1)
    BY DEF NamesFollow
  <2>2. o \in DOMAIN M /\ k \in 1 .. LongOf(M[o]) /\ k \in Nat /\ k - 1 \in Nat /\ j \in DOMAIN D[c]
    BY <1>0
  <2>3. IsSlot(D[c][j], M[o], o, k)
    BY <1>1, <2>1, <2>2
  <2>4. j + 1 \in DOMAIN D[c] /\ IsSlot(D[c][j + 1], M[o], o, k - 1)
    BY <1>4, <2>2, <2>3 DEF NamesFollow
  <2> QED
    BY <1>0, <1>1, <2>2, <2>4
<1> QED
  BY <1>2, <1>3, <1>4

(* A directory is deleted when all in it is: no live file lies there.        *)
LEMMA DeletedLie ==
  ASSUME NEW D, NEW M, NEW D2, NEW M2, NEW x, Deletes(D, M, D2, M2, x), LiveLie(D, M),
         M[x].kind = "dir" => \A j \in DOMAIN D[M[x].clusters[1]] : D[M[x].clusters[1]][j].stamped
  PROVE  LiveLie(D2, M2)
<1>1. SUFFICES ASSUME NEW o \in DOMAIN M2, M2[o].state = "live"
               PROVE  \E e \in FatDirs : \E j \in DOMAIN D2[e] : Lies(D2, M2, o, e, j)
  BY DEF LiveLie
<1>2. o \in DOMAIN M /\ o # x /\ M2[o] = M[o] /\ M[o] \in FatFiles
  BY <1>1 DEF Deletes
<1>3. PICK e \in FatDirs : \E j \in DOMAIN D[e] : Lies(D, M, o, e, j)
  BY <1>1, <1>2 DEF LiveLie
<1>4. PICK j \in DOMAIN D[e] : Lies(D, M, o, e, j)
  BY <1>3
<1>5. PICK l \in Nat : l = LongOf(M[o])
  BY <1>2, LongIs
<1>6. /\ l < j /\ \A k \in 0 .. l : IsSlot(D[e][j - k], M[o], o, k)
      /\ e = Root \/ (M[o].kind = "file" /\ e \in DirsOf(M))
  BY <1>4, <1>5 DEF Lies
<1>7. PICK s \in Nat : DOMAIN D[e] = 1 .. s /\ DOMAIN D2[e] = 1 .. s
  BY DEF Deletes, Shaped
<1>8. \A k \in 0 .. l : IsSlot(D2[e][j - k], M2[o], o, k)
  <2>1. \A k \in 0 .. l : k \in Nat /\ j - k \in DOMAIN D[e]
    BY <1>6, <1>7
  <2> QED
    BY <1>2, <1>6, <2>1, DeletedSame
<1>9. ASSUME e # Root PROVE e \in DirsOf(M2)
  <2>1. PICK i \in DOMAIN M : M[i].state = "live" /\ M[i].kind = "dir" /\ e = M[i].clusters[1]
    BY <1>6, <1>9 DEF DirsOf
  <2>2. i # x
    <3>1. ASSUME i = x PROVE FALSE
      <4>1. 0 \in 0 .. l /\ j - 0 = j
        BY <1>7
      <4>2. IsSlot(D[e][j], M[o], o, 0)
        BY <1>6, <4>1
      <4>3. MarkedAs(D[e][j], M[o], 0)
        BY <1>2, <4>2, SlotReads
      <4>4. D[e][j].stamped
        BY <2>1, <3>1
      <4> QED
        BY <1>1, <1>2, <4>3, <4>4 DEF MarkedAs
    <3> QED
      BY <3>1
  <2>3. M2[i] = M[i] /\ i \in DOMAIN M2
    BY <2>2 DEF Deletes
  <2> QED
    BY <2>1, <2>3 DEF DirsOf
<1>10. Lies(D2, M2, o, e, j)
  BY <1>2, <1>5, <1>6, <1>8, <1>9 DEF Lies
<1> QED
  BY <1>7, <1>10

-----------------------------------------------------------------------------
(* The steps of the driver.                                                  *)

LEMMA DirStart == FatInit => DirInv
<1> SUFFICES ASSUME FatInit PROVE DirInv
  OBVIOUS
<1>1. PICK D : D = dir
  OBVIOUS
<1>2. D = [c \in FatDirs |-> IF c = Root THEN <<Label>> ELSE <<>>] /\ fatMade = <<>>
  BY <1>1 DEF FatInit, FatDirs
<1>3. DOMAIN fatMade = {} /\ Ids = {}
  BY <1>2 DEF Ids
<1>4. ASSUME NEW d \in FatDirs
      PROVE  Len(D[d]) \in Nat /\ DOMAIN D[d] = 1 .. Len(D[d]) /\ \A j \in DOMAIN D[d] : D[d][j] = Label
  <2>1. CASE d = Root
    <3>1. PICK x : x = Label
      OBVIOUS
    <3>2. D[d] = <<x>>
      BY <1>2, <2>1, <3>1
    <3> QED
      BY <3>1, <3>2
  <2>2. CASE d # Root
    <3>1. D[d] = <<>>
      BY <1>2, <2>2
    <3> QED
      BY <3>1
  <2> QED
    BY <2>1, <2>2
<1>5. Shaped(D)
  BY <1>2, <1>4 DEF Shaped
<1>6. SlotsKnown(D, fatMade)
  BY <1>4 DEF SlotsKnown
<1>7. SlotsApart(D, fatMade) /\ LiveLie(D, fatMade) /\ NamesFollow(D, fatMade)
  BY <1>3 DEF SlotsApart, LiveLie, NamesFollow
<1> QED
  BY <1>1, <1>3, <1>5, <1>6, <1>7 DEF DirInv

(* The first cluster of a live directory is not free.                        *)
LEMMA DirClusters ==
  ASSUME FatInv, \A id \in Ids : Sized(fatMade[id])
  PROVE  /\ DirsOf(fatMade) \subseteq Clusters /\ \A c \in DirsOf(fatMade) : fat[c] # 0
         /\ LiveDirs = DirsOf(fatMade)
<1>1. LiveDirs = DirsOf(fatMade)
  BY DEF LiveDirs, DirsOf, Ids, Live
<1>2. ASSUME NEW c \in DirsOf(fatMade) PROVE c \in Clusters /\ fat[c] # 0
  <2>1. PICK id \in Ids : fatMade[id].state = "live" /\ fatMade[id].kind = "dir" /\ c = fatMade[id].clusters[1]
    BY DEF DirsOf, Ids
  <2>2. PICK cs \in Seq(Clusters) : cs = fatMade[id].clusters
    BY FatMadeIs DEF FatInv
  <2>3. Len(cs) = 1
    BY <2>1, <2>2 DEF Sized
  <2>4. c \in ToSet(cs) /\ c \in Clusters
    BY <2>1, <2>2, <2>3 DEF ToSet
  <2>5. c \in HasOf(id)
    BY <2>2, <2>4 DEF HasOf
  <2> QED
    BY <2>1, <2>4, <2>5 DEF FatInv
<1> QED
  BY <1>1, <1>2

(* Where the slots of a new file go.                                         *)
LEMMA ChosenIs ==
  ASSUME NEW s, NEW l \in Nat, l = Len(s), NEW n \in Nat, NEW at \in Chosen(s, n + 1)
  PROVE  /\ at \in Nat \ {0} /\ at <= l + 1
         /\ \A j \in at .. Smaller(at + n, l) : s[j].stamped
         /\ fit = "first" /\ at # 1 => ~s[at - 1].stamped
<1>1. at \in Places(s, n + 1) /\ (fit = "first" => \A j \in Places(s, n + 1) : at <= j)
  BY DEF Chosen
<1>2. \A i : i \in Places(s, n + 1) <=>
        /\ i \in 1 .. l + 1 /\ i + (n + 1) - 1 <= MaxSlots
        /\ \A j \in i .. Smaller(i + (n + 1) - 1, l) : s[j].stamped
  BY DEF Places, Usable
<1>3. at \in 1 .. l + 1 /\ at + n <= MaxSlots /\ at + (n + 1) - 1 = at + n
  BY <1>1, <1>2
<1>4. \A j \in at .. Smaller(at + n, l) : s[j].stamped
  BY <1>1, <1>2, <1>3
<1>5. ASSUME fit = "first", at # 1, s[at - 1].stamped PROVE FALSE
  <2>1. PICK i \in 1 .. l + 1 : i = at - 1 /\ i <= l
    BY <1>3, <1>5
  <2>2. PICK b \in Nat : b = i + (n + 1) - 1 /\ b <= MaxSlots /\ b + 1 = at + n
    BY <1>3, <2>1, FatAssumption
  <2>3. ASSUME NEW j \in i .. Smaller(b, l) PROVE s[j].stamped
    <3>1. CASE j = i
      BY <1>5, <2>1, <3>1
    <3>2. CASE j # i
      <4>1. j \in at .. Smaller(at + n, l)
        BY <1>3, <2>1, <2>2, <3>2 DEF Smaller
      <4> QED
        BY <1>4, <4>1
    <3> QED
      BY <3>1, <3>2
  <2>4. i \in Places(s, n + 1)
    BY <1>2, <2>1, <2>2, <2>3
  <2>5. at <= i
    BY <1>1, <1>5, <2>4
  <2> QED
    BY <1>3, <2>1, <2>5
<1> QED
  BY <1>3, <1>4, <1>5

LEMMA DirMake ==
  ASSUME FatInv, DirInv, FatInv', NEW d \in {Root} \cup LiveDirs, NEW name \in FatNames, NEW kind \in {"file", "dir"},
         NEW size \in Nat, NEW m \in Nat, NEW cs \in FatArrangements(m), Make(d, name, kind, size, cs),
         IF kind = "dir" THEN d = Root /\ m = 1 ELSE m = (size + 1) \div 2
  PROVE  DirInv'
<1>1. /\ Shaped(dir) /\ SlotsKnown(dir, fatMade) /\ SlotsApart(dir, fatMade) /\ LiveLie(dir, fatMade)
      /\ fit = "first" => NamesFollow(dir, fatMade)
      /\ \A id \in Ids : Sized(fatMade[id])
  BY DEF DirInv
<1>2. cs \in Seq(Clusters) /\ Len(cs) = m /\ DOMAIN cs = 1 .. m /\ \A c \in ToSet(cs) : fat[c] = 0
  BY TakenFree
<1>3. PICK f : f = [name |-> name, kind |-> kind, clusters |-> cs, size |-> size, state |-> "live"]
  OBVIOUS
<1>4. /\ f \in FatFiles /\ f.name = name /\ f.kind = kind /\ f.clusters = cs /\ f.size = size /\ f.state = "live"
  BY <1>2, <1>3 DEF FatFiles
<1>5. /\ DirsOf(fatMade) \subseteq Clusters /\ \A c \in DirsOf(fatMade) : fat[c] # 0
      /\ LiveDirs = DirsOf(fatMade)
  BY <1>1, DirClusters
<1>6. d \in FatDirs /\ (d = Root \/ (f.kind = "file" /\ d \in DirsOf(fatMade)))
  <2>1. d = Root \/ kind = "file"
    OBVIOUS
  <2> QED
    BY <1>4, <1>5, <2>1 DEF FatDirs
<1>7. f.kind = "dir" => f.clusters[1] \notin {Root} \cup DirsOf(fatMade)
  <2>1. SUFFICES ASSUME kind = "dir" PROVE cs[1] \notin {Root} \cup DirsOf(fatMade)
    BY <1>4
  <2>2. m = 1
    BY <2>1
  <2>3. cs[1] \in ToSet(cs) /\ cs[1] \in Clusters
    <3>1. 1 \in DOMAIN cs
      BY <1>2, <2>2
    <3>2. cs[1] \in Clusters
      BY <1>2, <3>1
    <3> QED
      BY <3>1, <3>2 DEF ToSet
  <2>4. fat[cs[1]] = 0 /\ cs[1] # Root
    BY <1>2, <2>3, ClusterIs DEF Root
  <2> QED
    BY <1>5, <2>4
<1>8. ~Fresh(f, d)
  <2>1. ASSUME f.kind = "dir", d = f.clusters[1] PROVE FALSE
    BY <1>6, <1>7, <2>1
  <2> QED
    BY <2>1 DEF Fresh
<1>9. PICK id \in Nat \ {0} : id = Len(fatMade) + 1
  BY DEF FatInv
<1>10. PICK n \in Nat : n = LongOf(f) /\ n = Parts[name]
  BY <1>4, LongIs DEF LongOf
<1>11. PICK new : new = SlotsFor(f, id, n)
  OBVIOUS
<1>12. new = Append([i \in 1 .. n |-> LongSlot(id, name, n - i + 1, i = 1)],
                    ShortSlot(id, kind, IF cs = <<>> THEN 0 ELSE cs[1], size))
  BY <1>4, <1>11 DEF SlotsFor, FirstOf
<1>13. PICK at \in Chosen(dir[d], n + 1) :
         dir' = [c \in DOMAIN dir |-> IF c = d THEN Put(dir[d], at, new)
                                      ELSE IF kind = "dir" /\ c = cs[1] THEN <<>> ELSE dir[c]]
  BY <1>9, <1>10, <1>12 DEF Make
<1>14. PICK D : D = dir
  OBVIOUS
<1>15. PICK D2 : D2 = dir'
  OBVIOUS
<1>16. PICK M : M = fatMade
  OBVIOUS
<1>17. PICK M2 : M2 = fatMade'
  OBVIOUS
<1>18. fatMade' = Append(fatMade, f) /\ fit' = fit
  BY <1>3 DEF Make
<1>19. /\ DOMAIN M2 = DOMAIN M \cup {id} /\ id \notin DOMAIN M /\ M2[id] = f
       /\ \A i \in DOMAIN M : M2[i] = M[i]
  <2>1. M \in Seq(FatFiles) /\ M2 = Append(M, f) /\ id = Len(M) + 1
    BY <1>9, <1>16, <1>17, <1>18 DEF FatInv
  <2>2. /\ M2 \in Seq(FatFiles) /\ Len(M2) = id
        /\ \A i \in 1 .. id : M2[i] = IF i = id THEN f ELSE M[i]
    BY <1>4, <2>1, AppendProperties
  <2>3. DOMAIN M2 = 1 .. id /\ DOMAIN M = 1 .. id - 1
    BY <2>1, <2>2
  <2>4. 1 .. id = (1 .. id - 1) \cup {id} /\ id \notin 1 .. id - 1
    BY <1>9
  <2> QED
    BY <2>2, <2>3, <2>4
<1>20. Adds(M, M2, f, id)
  <2>1. M2 \in Seq(FatFiles)
    BY <1>17 DEF FatInv
  <2>2. \A i \in DOMAIN M2 : M2[i] \in FatFiles /\ i \in Nat
    BY <2>1
  <2> QED
    BY <1>19, <2>2 DEF Adds
<1>21. PICK l \in Nat : l = Len(D[d]) /\ DOMAIN D[d] = 1 .. l
  BY <1>1, <1>6, <1>14 DEF Shaped
<1>22. PICK s : s = D[d]
  OBVIOUS
<1>23. /\ at \in Nat \ {0} /\ at <= l + 1
       /\ \A j \in at .. Smaller(at + n, l) : s[j].stamped
       /\ fit = "first" /\ at # 1 => ~s[at - 1].stamped
  <2>1. l = Len(s) /\ at \in Chosen(s, n + 1)
    BY <1>13, <1>14, <1>21, <1>22
  <2> QED
    BY <2>1, ChosenIs
<1>24. D2 = [c \in DOMAIN D |-> IF c = d THEN Put(D[d], at, new) ELSE IF Fresh(f, c) THEN <<>> ELSE D[c]]
  BY <1>4, <1>13, <1>14, <1>15 DEF Fresh
<1>25. Grows(D, D2, f, id, d, at, n)
  BY <1>1, <1>4, <1>6, <1>8, <1>9, <1>10, <1>11, <1>14, <1>21, <1>22, <1>23, <1>24, GrowsIs
<1>26. Grown(D, M, D2, M2, f, id, d, at, n)
  BY <1>1, <1>14, <1>16, <1>20, <1>23, <1>25 DEF Grown
<1>27. SlotsKnown(D2, M2)
  BY <1>10, <1>26, GrownKnown
<1>28. SlotsApart(D2, M2)
  BY <1>1, <1>14, <1>16, <1>26, GrownApart
<1>29. LiveLie(D2, M2)
  <2>1. LiveLie(D, M) /\ at # 0 /\ (d = Root \/ (f.kind = "file" /\ d \in DirsOf(M)))
        /\ (f.kind = "dir" => f.clusters[1] \notin {Root} \cup DirsOf(M))
    BY <1>1, <1>6, <1>7, <1>14, <1>16, <1>23
  <2> QED
    BY <1>4, <1>6, <1>10, <1>26, <2>1, GrownLie
<1>30. fit = "first" => NamesFollow(D2, M2)
  <2>1. SUFFICES ASSUME fit = "first" PROVE NamesFollow(D2, M2)
    OBVIOUS
  <2>2. at - 1 \in DOMAIN D[d] => ~D[d][at - 1].stamped
    BY <1>21, <1>22, <1>23, <2>1
  <2> QED
    BY <1>1, <1>10, <1>14, <1>16, <1>26, <2>1, <2>2, GrownFollow
<1>31. ASSUME NEW i \in DOMAIN M2 PROVE Sized(M2[i])
  <2>1. CASE i = id
    <3>1. Len(f.clusters) = m /\ m = IF f.kind = "dir" THEN 1 ELSE (f.size + 1) \div 2
      BY <1>2, <1>4
    <3> QED
      BY <1>19, <2>1, <3>1 DEF Sized
  <2>2. CASE i # id
    BY <1>1, <1>16, <1>19, <2>2 DEF Ids
  <2> QED
    BY <2>1, <2>2
<1>32. Shaped(D2)
  BY <1>25 DEF Grows
<1> QED
  BY <1>15, <1>17, <1>18, <1>27, <1>28, <1>29, <1>30, <1>31, <1>32 DEF DirInv, Ids

LEMMA DirDelete ==
  ASSUME FatInv, DirInv, NEW id \in Ids, fatMade[id].state = "live", Empty(id), dir' = Stamp(id), fit' = fit,
         NEW s \in {"deleted", "lost"}, fatMade' = [fatMade EXCEPT ![id].state = s]
  PROVE  DirInv'
<1>1. /\ Shaped(dir) /\ SlotsKnown(dir, fatMade) /\ SlotsApart(dir, fatMade) /\ LiveLie(dir, fatMade)
      /\ fit = "first" => NamesFollow(dir, fatMade)
      /\ \A i \in Ids : Sized(fatMade[i])
  BY DEF DirInv
<1>2. /\ fatMade' \in Seq(FatFiles) /\ Ids' = Ids /\ fatMade'[id].state = s
      /\ \A i \in Ids : /\ i # id => fatMade'[i] = fatMade[i]
                        /\ fatMade'[i].clusters = fatMade[i].clusters
                        /\ fatMade'[i].name = fatMade[i].name /\ fatMade'[i].kind = fatMade[i].kind
                        /\ fatMade'[i].size = fatMade[i].size
  BY FatStateIs
<1>3. PICK D : D = dir
  OBVIOUS
<1>4. PICK D2 : D2 = dir'
  OBVIOUS
<1>5. PICK M : M = fatMade
  OBVIOUS
<1>6. PICK M2 : M2 = fatMade'
  OBVIOUS
<1>7. D2 = [c \in FatDirs |-> [j \in DOMAIN D[c] |->
               IF D[c][j].of = id THEN [D[c][j] EXCEPT !.stamped = TRUE] ELSE D[c][j]]]
  BY <1>1, <1>3, <1>4 DEF Stamp, Shaped
<1>8. ASSUME NEW c \in FatDirs
      PROVE  /\ DOMAIN D2[c] = DOMAIN D[c] /\ Len(D2[c]) \in Nat /\ DOMAIN D2[c] = 1 .. Len(D2[c])
             /\ \A j \in DOMAIN D[c] :
                  D2[c][j] = IF D[c][j].of = id THEN [D[c][j] EXCEPT !.stamped = TRUE] ELSE D[c][j]
  <2>1. PICK n \in Nat : DOMAIN D[c] = 1 .. n
    BY <1>1, <1>3 DEF Shaped
  <2>2. PICK t : t = D2[c]
    OBVIOUS
  <2>3. t = [j \in 1 .. n |-> IF D[c][j].of = id THEN [D[c][j] EXCEPT !.stamped = TRUE] ELSE D[c][j]]
    BY <1>7, <2>1, <2>2
  <2>4. t = [j \in 1 .. n |-> t[j]]
    BY <2>3
  <2>5. Len(t) = n /\ DOMAIN t = 1 .. n
    BY <2>4, SeqIs
  <2> QED
    BY <2>1, <2>2, <2>3, <2>5
<1>9. Shaped(D2)
  BY <1>7, <1>8 DEF Shaped
<1>10. Deletes(D, M, D2, M2, id)
  <2>1. /\ DOMAIN M = Ids /\ DOMAIN M2 = Ids /\ id \in DOMAIN M /\ M2[id].state # "live"
        /\ \A i \in DOMAIN M2 : M2[i] \in FatFiles
    <3>1. M2 \in Seq(FatFiles)
      BY <1>2, <1>6
    <3>2. DOMAIN M2 = Ids' /\ DOMAIN M = Ids
      BY <1>5, <1>6 DEF Ids
    <3>3. M2[id].state # "live"
      BY <1>2, <1>6
    <3> QED
      BY <1>2, <3>1, <3>2, <3>3
  <2>2. \A i \in DOMAIN M : M[i] \in FatFiles /\ i \in Nat \ {0}
    BY <1>5, FatMadeIs DEF FatInv, Ids
  <2>3. \A i \in DOMAIN M : /\ i # id => M2[i] = M[i]
                            /\ M2[i].clusters = M[i].clusters /\ M2[i].name = M[i].name
                            /\ M2[i].kind = M[i].kind /\ M2[i].size = M[i].size
    BY <1>2, <1>5, <1>6, <2>1
  <2>4. Shaped(D) /\ SlotsKnown(D, M)
    BY <1>1, <1>3, <1>5
  <2> QED
    BY <1>8, <1>9, <2>1, <2>2, <2>3, <2>4 DEF Deletes
<1>11. /\ SlotsKnown(D2, M2) /\ SlotsApart(D2, M2)
       /\ fit = "first" => NamesFollow(D2, M2)
  BY <1>1, <1>3, <1>5, <1>10, DeletedKeeps
<1>12. LiveLie(D2, M2)
  <2>1. M[id].kind = "dir" => \A j \in DOMAIN D[M[id].clusters[1]] : D[M[id].clusters[1]][j].stamped
    BY <1>3, <1>5 DEF Empty
  <2> QED
    BY <1>1, <1>3, <1>5, <1>10, <2>1, DeletedLie
<1>13. \A i \in Ids' : Sized(fatMade'[i])
  BY <1>1, <1>2 DEF Sized
<1> QED
  BY <1>4, <1>6, <1>9, <1>11, <1>12, <1>13 DEF DirInv

LEMMA DirStep ==
  ASSUME FatInv, DirInv, FatInv', [FatNext]_fatVars PROVE DirInv'
<1>1. CASE UNCHANGED fatVars
  BY <1>1 DEF DirInv, Ids, fatVars
<1>2. CASE FatCreate
  <2>1. PICK d \in {Root} \cup LiveDirs, name \in FatNames : \E size \in FatSizes[name] :
          \E cs \in FatArrangements((size + 1) \div 2) : Make(d, name, "file", size, cs)
    BY <1>2 DEF FatCreate
  <2>2. PICK size \in FatSizes[name] : \E cs \in FatArrangements((size + 1) \div 2) : Make(d, name, "file", size, cs)
    BY <2>1
  <2>3. size \in Nat
    BY FatAssumption
  <2>4. PICK m \in Nat : m = (size + 1) \div 2
    BY <2>3
  <2>5. PICK cs \in FatArrangements(m) : Make(d, name, "file", size, cs)
    BY <2>2, <2>4
  <2> QED
    BY <2>3, <2>4, <2>5, DirMake
<1>3. CASE Mkdir
  <2>1. PICK name \in FatNames, c \in FatFree : Make(Root, name, "dir", 0, <<c>>)
    BY <1>3 DEF Mkdir
  <2>2. <<c>> \in FatArrangements(1)
    BY OneCluster
  <2> QED
    BY <2>1, <2>2, DirMake
<1>4. CASE FatDelete
  <2>1. PICK id \in Ids :
          /\ fatMade[id].state = "live" /\ Empty(id) /\ dir' = Stamp(id) /\ fit' = fit
          /\ \/ fatMade' = [fatMade EXCEPT ![id].state = "deleted"]
             \/ fatMade' = [fatMade EXCEPT ![id].state = "lost"]
    BY <1>4 DEF FatDelete, Live
  <2> QED
    BY <2>1, DirDelete
<1> QED
  BY <1>1, <1>2, <1>3, <1>4 DEF FatNext

-----------------------------------------------------------------------------
(* What is listed, from which slot.                                          *)

TellsOf(e, f, id, lfn) ==
  /\ e.kind = f.kind /\ e.of = id /\ e.deleted \in BOOLEAN /\ (e.deleted <=> f.state # "live")
  /\ e.first = FirstOf(f)
  /\ e.long = IF f.state # "live" THEN assembleDeletedLFN(lfn) ELSE assembleLFN(lfn)
  /\ e.extents = IF f.kind = "file" /\ f.size > 0 /\ FirstOf(f) >= 2 THEN fatExtents(FirstOf(f), f.size) ELSE <<>>

LEMMA ListedIs ==
  ASSUME NEW f \in FatFiles, NEW id, NEW s, IsSlot(s, f, id, 0), NEW lfn
  PROVE  TellsOf(Listed(lfn, s), f, id, lfn)
<1>1. SeenAs(s, f, id, 0) /\ MarkedAs(s, f, 0)
  BY SlotReads
<1>2. /\ s.of = id /\ s.kind = f.kind /\ s.first = FirstOf(f) /\ s.size = f.size
      /\ s.stamped \in BOOLEAN /\ (s.stamped <=> f.state # "live")
  BY <1>1 DEF SeenAs, MarkedAs
<1>3. PICK long : long = IF f.state # "live" THEN assembleDeletedLFN(lfn) ELSE assembleLFN(lfn)
  OBVIOUS
<1>4. PICK x : x = IF f.kind = "file" /\ f.size > 0 /\ FirstOf(f) >= 2 THEN fatExtents(FirstOf(f), f.size) ELSE <<>>
  OBVIOUS
<1>5. PICK b \in BOOLEAN : b = s.stamped
  BY <1>2
<1>6. Listed(lfn, s) = [kind |-> f.kind, of |-> id, deleted |-> b, first |-> FirstOf(f), long |-> long, extents |-> x]
  BY <1>2, <1>3, <1>4, <1>5 DEF Listed
<1> QED
  BY <1>2, <1>3, <1>4, <1>5, <1>6 DEF TellsOf

(* The entry e of directory d is that of the slot at j, for file id.         *)
From(e, d, j, id, lfn) ==
  /\ j \in DOMAIN dir[d] /\ id \in Ids /\ IsSlot(dir[d][j], fatMade[id], id, 0)
  /\ lfn \in Seq(SlotsIn(dir[d])) /\ Gather(lfn, dir[d], j - 1)
  /\ e = Listed(lfn, dir[d][j]) /\ TellsOf(e, fatMade[id], id, lfn)

LEMMA ListedFrom ==
  ASSUME FatInv, DirInv, NEW d \in FatDirs
  PROVE  /\ \A e \in Listing(dir[d]) : \E j, id, lfn : From(e, d, j, id, lfn)
         /\ \A j \in DOMAIN dir[d] : \A id \in Ids : IsSlot(dir[d][j], fatMade[id], id, 0) =>
              \E e \in Listing(dir[d]) : e.of = id /\ \A x \in Listing(dir[d]) : x.of = id => x = e
<1>1. PICK s : s = dir[d]
  OBVIOUS
<1>2. /\ Len(s) \in Nat /\ DOMAIN s = 1 .. Len(s)
      /\ \A j \in DOMAIN s : s[j] = Label \/ \E id \in Ids : \E k \in 0 .. LongOf(fatMade[id]) : IsSlot(s[j], fatMade[id], id, k)
  BY <1>1 DEF DirInv, Shaped, SlotsKnown, Ids
<1>3. PICK g : /\ \A k \in 0 .. Len(s) : g[k] \in Seq(SlotsIn(s)) /\ Gather(g[k], s, k)
               /\ \A e : e \in Listing(s) <=> \E j \in 1 .. Len(s) : Entry(s[j]) /\ e = Listed(g[j - 1], s[j])
  BY <1>2, ListingIs
<1>4. \A id \in Ids : fatMade[id] \in FatFiles
  BY FatMadeIs DEF FatInv
<1>5. ASSUME NEW j \in DOMAIN s, NEW id \in Ids, IsSlot(s[j], fatMade[id], id, 0)
      PROVE  /\ Listed(g[j - 1], s[j]) \in Listing(s)
             /\ From(Listed(g[j - 1], s[j]), d, j, id, g[j - 1])
  <2>1. j \in 1 .. Len(s) /\ j - 1 \in 0 .. Len(s)
    BY <1>2
  <2>2. SeenAs(s[j], fatMade[id], id, 0)
    BY <1>4, <1>5, SlotReads
  <2>3. TellsOf(Listed(g[j - 1], s[j]), fatMade[id], id, g[j - 1])
    BY <1>4, <1>5, ListedIs
  <2>4. Entry(s[j])
    BY <2>2 DEF SeenAs
  <2> QED
    BY <1>1, <1>3, <1>5, <2>1, <2>3, <2>4 DEF From
<1>6. ASSUME NEW e \in Listing(s)
      PROVE  \E j \in DOMAIN s : \E id \in Ids : IsSlot(s[j], fatMade[id], id, 0) /\ e = Listed(g[j - 1], s[j])
  <2>1. PICK j \in DOMAIN s : Entry(s[j]) /\ e = Listed(g[j - 1], s[j])
    BY <1>2, <1>3
  <2>2. s[j] # Label
    BY <2>1 DEF Entry, Label
  <2>3. PICK id \in Ids : \E k \in 0 .. LongOf(fatMade[id]) : IsSlot(s[j], fatMade[id], id, k)
    BY <1>2, <2>2
  <2>4. PICK k \in 0 .. LongOf(fatMade[id]) : IsSlot(s[j], fatMade[id], id, k)
    BY <2>3
  <2>5. k \in Nat
    BY <1>4, LongIs
  <2>6. SeenAs(s[j], fatMade[id], id, k)
    BY <1>4, <2>4, <2>5, SlotReads
  <2>7. k = 0
    BY <2>1, <2>6 DEF SeenAs, Entry
  <2> QED
    BY <2>1, <2>4, <2>7
<1>7. \A e \in Listing(s) : \E j, id, lfn : From(e, d, j, id, lfn)
  BY <1>5, <1>6
<1>8. ASSUME NEW j \in DOMAIN s, NEW id \in Ids, IsSlot(s[j], fatMade[id], id, 0)
      PROVE  \E e \in Listing(s) : e.of = id /\ \A x \in Listing(s) : x.of = id => x = e
  <2>1. PICK e : e = Listed(g[j - 1], s[j])
    OBVIOUS
  <2>2. e \in Listing(s) /\ TellsOf(e, fatMade[id], id, g[j - 1])
    BY <1>5, <1>8, <2>1 DEF From
  <2>3. e.of = id
    BY <2>2 DEF TellsOf
  <2>4. ASSUME NEW x \in Listing(s), x.of = id PROVE x = e
    <3>1. PICK i \in DOMAIN s : \E o \in Ids : IsSlot(s[i], fatMade[o], o, 0) /\ x = Listed(g[i - 1], s[i])
      BY <1>6
    <3>2. PICK o \in Ids : IsSlot(s[i], fatMade[o], o, 0) /\ x = Listed(g[i - 1], s[i])
      BY <3>1
    <3>3. From(x, d, i, o, g[i - 1])
      BY <1>5, <3>2
    <3>4. TellsOf(x, fatMade[o], o, g[i - 1])
      BY <3>3 DEF From
    <3>5. o = id
      BY <2>4, <3>4 DEF TellsOf
    <3>6. 0 \in 0 .. LongOf(fatMade[id])
      BY <1>4, LongIs
    <3>7. i = j
      BY <1>1, <1>8, <3>2, <3>5, <3>6 DEF DirInv, SlotsApart, Ids
    <3> QED
      BY <2>1, <3>2, <3>7
  <2> QED
    BY <2>2, <2>3, <2>4
<1> QED
  BY <1>1, <1>7, <1>8

(* The directories entered are those that are there.                         *)
LEMMA EnteredIs ==
  ASSUME FatInv, DirInv
  PROVE  /\ DirsOf(fatMade) \subseteq FatDirs /\ Root \in FatDirs
         /\ \A e : e \in FatEntries <=>
              e.kind = "file" /\ \E d \in {Root} \cup DirsOf(fatMade) : e \in Listing(dir[d])
<1>0. /\ DirsOf(fatMade) \subseteq Clusters
      /\ \A id \in Ids : fatMade[id] \in FatFiles /\ Sized(fatMade[id])
  BY DirClusters, FatMadeIs DEF DirInv, FatInv
<1>1. PICK top : top = Listing(dir[Root])
  OBVIOUS
<1>2. \A id \in Ids : fatMade[id].kind = "dir" => FirstOf(fatMade[id]) = fatMade[id].clusters[1]
  <2>1. SUFFICES ASSUME NEW id \in Ids, fatMade[id].kind = "dir" PROVE fatMade[id].clusters # <<>>
    BY DEF FirstOf
  <2>2. PICK cs \in Seq(Clusters) : cs = fatMade[id].clusters
    BY FatMadeIs DEF FatInv
  <2>3. Len(cs) = 1
    BY <1>0, <2>1, <2>2 DEF Sized
  <2>4. cs = <<>> => Len(cs) = 0
    OBVIOUS
  <2> QED
    BY <2>2, <2>3, <2>4
<1>3. ASSUME NEW c \in Entered(top) PROVE c \in DirsOf(fatMade)
  <2>1. PICK e \in top : e.kind = "dir" /\ ~e.deleted /\ c = e.first
    BY DEF Entered
  <2>2. PICK j, id, lfn : From(e, Root, j, id, lfn)
    BY <1>1, ListedFrom DEF FatDirs
  <2>3. id \in Ids /\ TellsOf(e, fatMade[id], id, lfn)
    BY <2>2 DEF From
  <2>4. fatMade[id].kind = "dir" /\ fatMade[id].state = "live" /\ c = FirstOf(fatMade[id])
    BY <2>1, <2>3 DEF TellsOf
  <2> QED
    BY <1>2, <2>3, <2>4 DEF DirsOf, Ids
<1>4. ASSUME NEW c \in DirsOf(fatMade) PROVE c \in Entered(top)
  <2>1. PICK id \in Ids : fatMade[id].state = "live" /\ fatMade[id].kind = "dir" /\ c = fatMade[id].clusters[1]
    BY DEF DirsOf, Ids
  <2>2. PICK d \in FatDirs : \E j \in DOMAIN dir[d] : Lies(dir, fatMade, id, d, j)
    BY <2>1 DEF DirInv, LiveLie, Ids
  <2>3. PICK j \in DOMAIN dir[d] : Lies(dir, fatMade, id, d, j)
    BY <2>2
  <2>4. d = Root
    BY <2>1, <2>3 DEF Lies
  <2>5. 0 \in 0 .. LongOf(fatMade[id]) /\ j - 0 = j
    <3>1. LongOf(fatMade[id]) \in Nat
      BY <1>0, LongIs
    <3>2. j \in Nat
      BY DEF DirInv, Shaped
    <3> QED
      BY <3>1, <3>2
  <2>6. IsSlot(dir[d][j], fatMade[id], id, 0)
    BY <2>3, <2>5 DEF Lies
  <2>7. PICK e \in Listing(dir[d]) : e.of = id
    BY <2>6, ListedFrom
  <2>8. PICK i, o, lfn : From(e, d, i, o, lfn)
    BY ListedFrom
  <2>9. TellsOf(e, fatMade[o], o, lfn)
    BY <2>8 DEF From
  <2>10. o = id
    BY <2>7, <2>9 DEF TellsOf
  <2>11. e.kind = "dir" /\ ~e.deleted /\ e.first = c
    BY <1>2, <2>1, <2>9, <2>10 DEF TellsOf
  <2> QED
    BY <1>1, <2>4, <2>11 DEF Entered
<1>5. Entered(top) = DirsOf(fatMade)
  BY <1>3, <1>4
<1> QED
  BY <1>0, <1>1, <1>5 DEF FatEntries, FatDirs

LEMMA EntryFrom ==
  ASSUME FatInv, DirInv, NEW e \in FatEntries
  PROVE  e.kind = "file" /\ \E d \in FatDirs : e \in Listing(dir[d]) /\ \E j, id, lfn : From(e, d, j, id, lfn)
<1>1. PICK d \in {Root} \cup DirsOf(fatMade) : e \in Listing(dir[d])
  BY EnteredIs
<1>2. d \in FatDirs /\ e.kind = "file"
  BY EnteredIs
<1> QED
  BY <1>1, <1>2, ListedFrom

LEMMA LiveIsListed ==
  ASSUME FatInv, DirInv, NEW id \in Ids, fatMade[id].state = "live", fatMade[id].kind = "file"
  PROVE  \E e \in FatEntries : e.of = id /\ \A x \in FatEntries : x.of = id => x = e
<1>0. fatMade[id] \in FatFiles
  BY FatMadeIs DEF FatInv
<1>1. PICK d \in FatDirs : \E j \in DOMAIN dir[d] : Lies(dir, fatMade, id, d, j)
  BY DEF DirInv, LiveLie, Ids
<1>2. PICK j \in DOMAIN dir[d] : Lies(dir, fatMade, id, d, j)
  BY <1>1
<1>3. 0 \in 0 .. LongOf(fatMade[id]) /\ j - 0 = j
  <2>1. LongOf(fatMade[id]) \in Nat
    BY <1>0, LongIs
  <2>2. j \in Nat
    BY DEF DirInv, Shaped
  <2> QED
    BY <2>1, <2>2
<1>4. IsSlot(dir[d][j], fatMade[id], id, 0) /\ d \in {Root} \cup DirsOf(fatMade)
  BY <1>2, <1>3 DEF Lies
<1>5. PICK e \in Listing(dir[d]) : e.of = id /\ \A x \in Listing(dir[d]) : x.of = id => x = e
  BY <1>4, ListedFrom
<1>6. PICK i, o, lfn : From(e, d, i, o, lfn)
  BY ListedFrom
<1>7. TellsOf(e, fatMade[o], o, lfn)
  BY <1>6 DEF From
<1>8. e.kind = "file"
  BY <1>5, <1>7 DEF TellsOf
<1>9. e \in FatEntries
  BY <1>4, <1>8, EnteredIs
<1>10. ASSUME NEW x \in FatEntries, x.of = id PROVE x = e
  <2>1. PICK c \in FatDirs : x \in Listing(dir[c]) /\ \E k, p, l : From(x, c, k, p, l)
    BY EntryFrom
  <2>2. PICK k, p, l : From(x, c, k, p, l)
    BY <2>1
  <2>3. k \in DOMAIN dir[c] /\ IsSlot(dir[c][k], fatMade[p], p, 0) /\ TellsOf(x, fatMade[p], p, l)
    BY <2>2 DEF From
  <2>4. p = id
    BY <1>10, <2>3 DEF TellsOf
  <2>5. c = d
    BY <1>3, <1>4, <2>3, <2>4 DEF DirInv, SlotsApart, Ids
  <2> QED
    BY <1>5, <1>10, <2>1, <2>5
<1> QED
  BY <1>5, <1>9, <1>10

-----------------------------------------------------------------------------
(* The bytes of a FAT file.                                                  *)

LEMMA FatContentIs ==
  ASSUME FatInv, DirInv, NEW id \in Ids, fatMade[id].kind = "file",
         NEW cs, cs = fatMade[id].clusters, NEW size, size = fatMade[id].size
  PROVE  /\ cs \in Seq(Clusters) /\ IsInjective(cs) /\ size \in Nat /\ Len(cs) = (size + 1) \div 2
         /\ Fits(cs, size) /\ \A x : x \in FatContent(id) <=> IsByte(cs, size, x)
<1>1. cs \in Seq(Clusters) /\ IsInjective(cs) /\ size \in Nat
  BY FatMadeIs DEF FatInv
<1>2. Len(cs) = (size + 1) \div 2
  BY DEF DirInv, Sized
<1>3. PICK n \in Nat : n = Len(cs) /\ n = (size + 1) \div 2 /\ DOMAIN cs = 1 .. n
  BY <1>1, <1>2
<1>4. \A i \in 1 .. n : 2 * (i - 1) < size
  BY <1>1, <1>3
<1>5. ASSUME NEW x
      PROVE  x \in FatContent(id) <=> \E i \in 1 .. n : \E j \in 0 .. 1 : 2 * (i - 1) + j < size /\ x = 2 * cs[i] + j
  <2>1. FatContent(id) = UNION {{2 * cs[k] + j : j \in {j \in 0 .. 1 : 2 * (k - 1) + j < size}} : k \in 1 .. n}
    BY <1>3 DEF FatContent
  <2> QED
    BY <2>1
<1>6. ASSUME NEW x, NEW i \in 1 .. n
      PROVE  (\E j \in 0 .. 1 : 2 * (i - 1) + j < size /\ x = 2 * cs[i] + j)
             <=> x = 2 * cs[i] \/ (x = 2 * cs[i] + 1 /\ 2 * (i - 1) + 1 < size)
  <2>1. PICK a \in Nat : a = 2 * (i - 1) /\ a < size
    BY <1>4
  <2>2. cs[i] \in Clusters
    BY <1>1, <1>3
  <2>3. PICK b \in Nat : b = 2 * cs[i]
    BY <2>2, ClusterIs
  <2>4. a + 0 < size /\ b + 0 = b
    BY <2>1, <2>3, <1>1
  <2>5. (\E j \in 0 .. 1 : a + j < size /\ x = b + j) <=> x = b \/ (x = b + 1 /\ a + 1 < size)
    <3>1. ASSUME NEW j \in 0 .. 1, a + j < size, x = b + j PROVE x = b \/ (x = b + 1 /\ a + 1 < size)
      BY <2>1, <2>3, <3>1
    <3>2. 0 \in 0 .. 1 /\ 1 \in 0 .. 1
      OBVIOUS
    <3> QED
      BY <2>4, <3>1, <3>2
  <2> QED
    BY <2>1, <2>3, <2>5
<1>7. Fits(cs, size)
  BY <1>3, <1>4 DEF Fits
<1>8. ASSUME NEW x PROVE x \in FatContent(id) <=> IsByte(cs, size, x)
  <2>1. IsByte(cs, size, x) <=> \E i \in 1 .. n : x = 2 * cs[i] \/ (x = 2 * cs[i] + 1 /\ 2 * (i - 1) + 1 < size)
    BY <1>3 DEF IsByte
  <2>2. ASSUME IsByte(cs, size, x) PROVE x \in FatContent(id)
    <3>1. PICK i \in 1 .. n : x = 2 * cs[i] \/ (x = 2 * cs[i] + 1 /\ 2 * (i - 1) + 1 < size)
      BY <2>1, <2>2
    <3>2. \E j \in 0 .. 1 : 2 * (i - 1) + j < size /\ x = 2 * cs[i] + j
      BY ZenonT(30), <1>6, <3>1
    <3> QED
      BY <1>5, <3>2
  <2>3. ASSUME x \in FatContent(id) PROVE IsByte(cs, size, x)
    <3>1. PICK i \in 1 .. n : \E j \in 0 .. 1 : 2 * (i - 1) + j < size /\ x = 2 * cs[i] + j
      BY <1>5, <2>3
    <3>2. x = 2 * cs[i] \/ (x = 2 * cs[i] + 1 /\ 2 * (i - 1) + 1 < size)
      BY <1>6, <3>1
    <3> QED
      BY <2>1, <3>2
  <2> QED
    BY <2>2, <2>3
<1> QED
  BY <1>1, <1>2, <1>7, <1>8

LEMMA FileRanges ==
  ASSUME FatInv, DirInv, NEW id \in Ids, fatMade[id].kind = "file", fatMade[id].size > 0,
         NEW out, out = fatExtents(FirstOf(fatMade[id]), fatMade[id].size)
  PROVE  /\ FirstOf(fatMade[id]) >= 2
         /\ fatMade[id].state # "deleted" => Bytes(out) = FatContent(id)
         /\ ~Retaken(id) => Bytes(out) \subseteq FatContent(id) /\ 2 * fatMade[id].clusters[1] \in Bytes(out)
<1>1. PICK cs : cs = fatMade[id].clusters
  OBVIOUS
<1>2. PICK size : size = fatMade[id].size
  OBVIOUS
<1>3. /\ cs \in Seq(Clusters) /\ IsInjective(cs) /\ size \in Nat /\ size > 0 /\ Len(cs) = (size + 1) \div 2
      /\ Fits(cs, size) /\ \A x : x \in FatContent(id) <=> IsByte(cs, size, x)
  BY <1>1, <1>2, FatContentIs
<1>4. PICK n \in Nat \ {0} : n = Len(cs) /\ n = (size + 1) \div 2 /\ DOMAIN cs = 1 .. n
  BY <1>3
<1>5. PICK c \in Clusters : c = cs[1] /\ c \in HasOf(id)
  <2>1. 1 \in DOMAIN cs /\ cs[1] \in Clusters
    BY <1>3, <1>4
  <2> QED
    BY <1>1, <2>1 DEF HasOf, ToSet
<1>6. FirstOf(fatMade[id]) = c
  <2>1. cs = <<>> => Len(cs) = 0
    OBVIOUS
  <2>2. cs # <<>>
    BY <1>4, <2>1
  <2> QED
    BY <1>1, <1>5, <2>2 DEF FirstOf
<1>7. c >= 2
  BY FatAssumption DEF Clusters
<1>8. PICK ds : ds = chain(c, n)
  OBVIOUS
<1>9. out = RangesOf(ds, size)
  BY <1>2, <1>4, <1>6, <1>8 DEF fatExtents, RangesOf
<1>10. ASSUME fatMade[id].state # "deleted" PROVE Bytes(out) = FatContent(id)
  <2>1. \A k \in 1 .. Len(cs) : fat[cs[k]] = IF k = Len(cs) THEN EOC ELSE cs[k + 1]
    BY <1>1, <1>10 DEF FatInv, LinkedAs
  <2>2. ds = cs
    <3>1. chain(c, Len(cs)) = cs
      BY <1>3, <1>5, <2>1, ChainIs
    <3> QED
      BY <1>4, <1>8, <3>1
  <2>3. \A x : x \in Bytes(out) <=> IsByte(cs, size, x)
    BY <1>3, <1>9, <2>2, FatBytes
  <2> QED
    BY <1>3, <2>3
<1>11. ASSUME ~Retaken(id), fatMade[id].state = "deleted"
       PROVE  Bytes(out) \subseteq FatContent(id) /\ 2 * c \in Bytes(out)
  <2>1. fat[c] = 0
    <3>1. ASSUME NEW i \in Ids, fatMade[i].state # "deleted" PROVE c \notin HasOf(i)
      <4>1. i \in Nat /\ id \in Nat /\ i # id
        BY <1>11, <3>1, FatMadeIs DEF FatInv
      <4>2. CASE i < id
        <5>1. HasOf(i) \cap HasOf(id) = {}
          BY <3>1, <4>2 DEF FatInv
        <5> QED
          BY <1>5, <5>1
      <4>3. CASE id < i
        BY <1>1, <1>5, <1>11, <4>1, <4>3 DEF Retaken, HasOf
      <4> QED
        BY <4>1, <4>2, <4>3
    <3> QED
      BY <3>1 DEF FatInv
  <2>2. ds = <<c>>
    BY <1>4, <1>8, <2>1, ChainOne
  <2>3. ds \in Seq(Clusters) /\ Len(ds) = 1 /\ ds[1] = c
    BY <2>2
  <2>4. Fits(ds, size) /\ \A i \in 1 .. Len(ds) : i = 1
    BY <1>3, <2>3 DEF Fits
  <2>5. \A x : x \in Bytes(out) <=> IsByte(ds, size, x)
    BY <1>3, <1>9, <2>3, <2>4, FatBytes
  <2>6. 1 \in 1 .. Len(ds) /\ 1 \in 1 .. Len(cs)
    BY <1>4, <2>3
  <2>7. 2 * c \in Bytes(out)
    BY <2>3, <2>5, <2>6 DEF IsByte
  <2>8. ASSUME NEW x \in Bytes(out) PROVE x \in FatContent(id)
    <3>1. PICK i \in 1 .. Len(ds) : x = 2 * ds[i] \/ (x = 2 * ds[i] + 1 /\ 2 * (i - 1) + 1 < size)
      BY <2>5 DEF IsByte
    <3>2. i = 1
      BY <2>4
    <3>3. x = 2 * cs[1] \/ (x = 2 * cs[1] + 1 /\ 2 * (1 - 1) + 1 < size)
      BY <1>5, <2>3, <3>1, <3>2
    <3> QED
      BY <1>3, <2>6, <3>3 DEF IsByte
  <2> QED
    BY <2>7, <2>8
<1>12. ASSUME fatMade[id].state # "deleted" PROVE 2 * c \in Bytes(out)
  <2>1. 1 \in 1 .. Len(cs) /\ 2 * c = 2 * cs[1]
    BY <1>4, <1>5
  <2>2. 2 * c \in FatContent(id)
    BY <1>3, <2>1 DEF IsByte
  <2> QED
    BY <1>10, <1>12, <2>2
<1> QED
  BY <1>1, <1>5, <1>6, <1>7, <1>10, <1>11, <1>12

(* A deleted file is listed with what is its own until another takes its     *)
(* first cluster, and all of it if its clusters were never freed             *)
(* (fatExtents, chain, flattenDeletedRanges).                                *)
THEOREM FatDeletedHonest == FatSpec => []DeletedHonest
<1>1. FatSpec => [](FatInv /\ DirInv)
  <2>1. FatInit => FatInv /\ DirInv
    BY FatStart, DirStart
  <2>2. FatInv /\ DirInv /\ [FatNext]_fatVars => (FatInv /\ DirInv)'
    BY FatStep, DirStep
  <2> QED
    BY <2>1, <2>2, PTL DEF FatSpec
<1>2. FatInv /\ DirInv => DeletedHonest
  <2>1. SUFFICES ASSUME FatInv, DirInv, NEW e \in FatEntries, NEW id, id = e.of, NEW u,
                        u = UNION {d.range.start .. End(d.range) - 1 : d \in {x \in deletedRanges : x.of = id}},
                        e.deleted, fatMade[id].size > 0, ~Retaken(id)
                 PROVE  /\ u \subseteq FatContent(id) /\ 2 * fatMade[id].clusters[1] \in u
                        /\ fatMade[id].state = "lost" => u = FatContent(id)
    BY DEF DeletedHonest
  <2>2. PICK out : out = fatExtents(FirstOf(fatMade[id]), fatMade[id].size)
    OBVIOUS
  <2>3. ASSUME NEW x \in FatEntries, x.of = id
        PROVE  id \in Ids /\ fatMade[id].kind = "file" /\ x.extents = out
    <3>1. PICK c \in FatDirs : x.kind = "file" /\ \E k, p, l : From(x, c, k, p, l)
      BY <2>1, EntryFrom
    <3>2. PICK k, p, l : From(x, c, k, p, l)
      BY <3>1
    <3>3. p \in Ids /\ TellsOf(x, fatMade[p], p, l)
      BY <3>2 DEF From
    <3>4. p = id
      BY <2>3, <3>3 DEF TellsOf
    <3>5. fatMade[id].kind = "file"
      BY <3>1, <3>3, <3>4 DEF TellsOf
    <3>6. FirstOf(fatMade[id]) >= 2
      BY <2>1, <3>3, <3>4, <3>5, FileRanges
    <3> QED
      BY <2>1, <2>2, <3>3, <3>4, <3>5, <3>6 DEF TellsOf
  <2>4. id \in Ids /\ fatMade[id].kind = "file" /\ e.extents = out
    BY <2>1, <2>3
  <2>5. \A y : y \in Bytes(out) <=> \E i \in DOMAIN out : y \in out[i].start .. End(out[i]) - 1
    BY DEF Bytes
  <2>6. ASSUME NEW i \in DOMAIN out
        PROVE  \E d \in deletedRanges : d.of = id /\ d.range = out[i]
    <3>1. PICK d : d = [of |-> e.of, label |-> e.long, range |-> e.extents[i]]
      OBVIOUS
    <3>2. d.of = id /\ d.range = out[i]
      BY <2>1, <2>4, <3>1
    <3>3. d \in deletedRanges
      BY <2>1, <2>4, <3>1 DEF deletedRanges
    <3> QED
      BY <3>2, <3>3
  <2>7. ASSUME NEW d \in deletedRanges, d.of = id
        PROVE  \E i \in DOMAIN out : d.range = out[i]
    <3>1. PICK x \in FatEntries : \E i \in DOMAIN x.extents : d = [of |-> x.of, label |-> x.long, range |-> x.extents[i]]
      BY DEF deletedRanges
    <3>2. PICK i \in DOMAIN x.extents : d = [of |-> x.of, label |-> x.long, range |-> x.extents[i]]
      BY <3>1
    <3>3. d.of = x.of /\ d.range = x.extents[i]
      BY <3>2
    <3>4. x.extents = out
      BY <2>3, <2>7, <3>3
    <3> QED
      BY <3>3, <3>4
  <2>8. u = Bytes(out)
    <3>1. \A y : y \in u <=> \E d \in deletedRanges : d.of = id /\ y \in d.range.start .. End(d.range) - 1
      BY <2>1
    <3> QED
      BY <2>5, <2>6, <2>7, <3>1
  <2>9. /\ fatMade[id].state # "deleted" => Bytes(out) = FatContent(id)
        /\ Bytes(out) \subseteq FatContent(id) /\ 2 * fatMade[id].clusters[1] \in Bytes(out)
    BY <2>1, <2>2, <2>4, FileRanges
  <2> QED
    BY <2>8, <2>9
<1> QED
  BY <1>1, <1>2, PTL

-----------------------------------------------------------------------------
(* The names, with a driver that takes the first slots that suffice.         *)

(* lfn: m slots of the name of file id, from the m-th to the first.          *)
NameOf(lfn, m, f, id) == Len(lfn) = m /\ \A i \in 1 .. m : IsSlot(lfn[i], f, id, m - i + 1)

LEMMA GatheredName ==
  ASSUME FatInv, DirInv, fit = "first", NEW e, NEW d \in FatDirs, NEW j, NEW id, NEW lfn, From(e, d, j, id, lfn)
  PROVE  \E m \in 0 .. LongOf(fatMade[id]) :
           /\ NameOf(lfn, m, fatMade[id], id)
           /\ m = j - 1 \/ (j - 1 - m \in DOMAIN dir[d] /\ dir[d][j - 1 - m].kind # "long")
<1>1. /\ j \in DOMAIN dir[d] /\ id \in Ids /\ IsSlot(dir[d][j], fatMade[id], id, 0)
      /\ lfn \in Seq(SlotsIn(dir[d])) /\ Gather(lfn, dir[d], j - 1)
  BY DEF From
<1>2. PICK s : s = dir[d]
  OBVIOUS
<1>3. PICK l \in Nat : l = Len(s) /\ DOMAIN s = 1 .. l
  BY <1>2 DEF DirInv, Shaped
<1>4. /\ \A i \in DOMAIN s : s[i] = Label \/ \E o \in Ids : \E k \in 0 .. LongOf(fatMade[o]) : IsSlot(s[i], fatMade[o], o, k)
      /\ \A i \in DOMAIN s : \A o \in Ids : \A k \in 1 .. LongOf(fatMade[o]) :
           IsSlot(s[i], fatMade[o], o, k) => i + 1 \in DOMAIN s /\ IsSlot(s[i + 1], fatMade[o], o, k - 1)
  BY <1>2 DEF DirInv, SlotsKnown, NamesFollow, Ids
<1>5. \A o \in Ids : fatMade[o] \in FatFiles /\ LongOf(fatMade[o]) \in Nat
  BY FatMadeIs, LongIs DEF FatInv
<1>6. PICK r \in Nat : r = j - 1 /\ j \in 1 .. l /\ j = r + 1
  BY <1>1, <1>2, <1>3
<1>7. PICK m \in 0 .. r : /\ Len(lfn) = m /\ \A i \in 1 .. m : lfn[i] = s[r - m + i] /\ s[r - m + i].kind = "long"
                          /\ m = r \/ s[r - m].kind # "long"
  BY <1>1, <1>2, <1>6 DEF Gather
<1> DEFINE N == LongOf(fatMade[id])
           E == {q \in 0 .. m : q \in 0 .. N /\ IsSlot(s[j - q], fatMade[id], id, q)}
<1>8. N \in Nat
  BY <1>1, <1>5
<1>9. 0 \in E
  <2>1. j - 0 = j /\ 0 \in 0 .. m /\ 0 \in 0 .. N
    BY <1>6, <1>7, <1>8
  <2> QED
    BY <1>1, <1>2, <2>1
<1>10. ASSUME NEW q \in 1 .. m, q - 1 \in E PROVE q \in E
  <2>1. PICK i \in 1 .. m : i = m - q + 1 /\ r - m + i = j - q
    <3>1. m - q + 1 \in 1 .. m /\ r - m + (m - q + 1) = j - q
      BY <1>6, <1>7
    <3> QED
      BY <3>1
  <2>2. PICK p \in 1 .. l : p = j - q /\ p + 1 = j - (q - 1)
    BY <1>6, <1>7
  <2>3. s[p].kind = "long"
    BY <1>7, <2>1, <2>2
  <2>4. s[p] # Label
    BY <2>3 DEF Label
  <2>5. PICK o \in Ids : \E k \in 0 .. LongOf(fatMade[o]) : IsSlot(s[p], fatMade[o], o, k)
    BY <1>3, <1>4, <2>4
  <2>6. PICK k \in 0 .. LongOf(fatMade[o]) : IsSlot(s[p], fatMade[o], o, k)
    BY <2>5
  <2>7. k \in Nat /\ k <= LongOf(fatMade[o]) /\ k # 0
    <3>1. k \in Nat /\ k <= LongOf(fatMade[o])
      BY <1>5
    <3>2. SeenAs(s[p], fatMade[o], o, k)
      BY <1>5, <2>6, <3>1, SlotReads
    <3> QED
      BY <2>3, <3>1, <3>2 DEF SeenAs, Entry
  <2>8. IsSlot(s[p + 1], fatMade[o], o, k - 1)
    <3>1. k \in 1 .. LongOf(fatMade[o])
      BY <1>5, <2>7
    <3> QED
      BY <1>3, <1>4, <2>6, <3>1
  <2>9. IsSlot(s[p + 1], fatMade[id], id, q - 1)
    BY <1>10, <2>2
  <2>10. o = id /\ k - 1 = q - 1
    <3>1. k - 1 \in Nat /\ q - 1 \in Nat
      BY <2>7
    <3> QED
      BY <1>1, <1>5, <2>8, <2>9, <3>1, SlotOnce
  <2>11. k = q
    BY <2>7, <2>10
  <2>12. q \in 0 .. N
    BY <1>8, <2>7, <2>10, <2>11
  <2> QED
    BY <2>2, <2>6, <2>10, <2>11, <2>12
<1>11. 0 .. m \subseteq E
  <2> HIDE DEF E
  <2>1. m \in Nat
    BY <1>7
  <2> QED
    BY <1>9, <1>10, <2>1, UpTo
<1>12. m \in 0 .. N
  <2>1. m \in 0 .. m
    BY <1>7
  <2> QED
    BY <1>11, <2>1
<1>13. ASSUME NEW i \in 1 .. m PROVE IsSlot(lfn[i], fatMade[id], id, m - i + 1)
  <2>1. PICK q \in 0 .. m : q = m - i + 1 /\ r - m + i = j - q
    <3>1. m - i + 1 \in 0 .. m /\ r - m + i = j - (m - i + 1)
      <4>1. m \in Nat /\ r \in Nat /\ m <= r /\ j = r + 1
        BY <1>6, <1>7
      <4>2. i \in Nat /\ 1 <= i /\ i <= m
        BY <4>1
      <4> QED
        BY SMTT(30), <4>1, <4>2
    <3> QED
      BY <3>1
  <2>2. IsSlot(s[j - q], fatMade[id], id, q)
    BY <1>11
  <2> QED
    BY <1>7, <2>1, <2>2
<1>14. m = j - 1 \/ (j - 1 - m \in DOMAIN dir[d] /\ dir[d][j - 1 - m].kind # "long")
  <2>1. CASE m = r
    BY <1>6, <2>1
  <2>2. CASE m # r
    <3>1. PICK p \in 1 .. l : p = r - m /\ p = j - 1 - m
      BY <1>6, <1>7, <2>2
    <3> QED
      BY <1>2, <1>3, <1>7, <2>2, <3>1
  <2> QED
    BY <2>1, <2>2
<1>15. NameOf(lfn, m, fatMade[id], id)
  BY <1>7, <1>13 DEF NameOf
<1> QED
  BY <1>12, <1>14, <1>15

(* Its text is the beginning of the name.                                    *)
LEMMA NameText ==
  ASSUME NEW S, NEW lfn \in Seq(S), NEW f \in FatFiles, NEW id, NEW m \in Nat, NameOf(lfn, m, f, id)
  PROVE  Text(lfn) = [i \in 1 .. m |-> <<f.name, i>>]
<1>1. Len(lfn) = m /\ DOMAIN lfn = 1 .. m /\ \A i \in 1 .. m : IsSlot(lfn[i], f, id, m - i + 1)
  BY DEF NameOf
<1>2. ASSUME NEW i \in 1 .. m PROVE lfn[i].text = <<f.name, m - i + 1>>
  <2>1. PICK k \in Nat : k = m - i + 1 /\ k # 0
    <3>1. m - i + 1 \in Nat /\ m - i + 1 # 0
      OBVIOUS
    <3> QED
      BY <3>1
  <2>2. IsSlot(lfn[i], f, id, k)
    BY <1>1, <2>1
  <2>3. SeenAs(lfn[i], f, id, k)
    BY <2>2, SlotReads
  <2> QED
    BY <2>1, <2>3 DEF SeenAs
<1>3. PICK t : t = [i \in DOMAIN lfn |-> lfn[i].text]
  OBVIOUS
<1>4. t = [i \in 1 .. m |-> t[i]] /\ \A i \in 1 .. m : t[i] = <<f.name, m - i + 1>>
  BY <1>1, <1>2, <1>3
<1>5. Len(t) = m
  BY <1>4, SeqIs
<1>6. Text(lfn) = [i \in 1 .. m |-> t[(m - i) + 1]]
  BY <1>3, <1>5 DEF Text, Reverse
<1>7. ASSUME NEW i \in 1 .. m PROVE t[(m - i) + 1] = <<f.name, i>>
  <2>1. PICK k \in 1 .. m : k = (m - i) + 1 /\ m - k + 1 = i
    <3>1. (m - i) + 1 \in 1 .. m /\ m - ((m - i) + 1) + 1 = i
      OBVIOUS
    <3> QED
      BY <3>1
  <2> QED
    BY <1>4, <2>1
<1> QED
  BY <1>6, <1>7

LEMMA AssembledIs ==
  ASSUME NEW lfn PROVE assembleLFN(lfn) \in {<<>>, Text(lfn)} /\ assembleDeletedLFN(lfn) \in {<<>>, Text(lfn)}
<1>1. assembleLFN(lfn) \in {<<>>, Text(lfn)}
  BY DEF assembleLFN
<1> QED
  BY <1>1 DEF assembleDeletedLFN

(* A live file's slots before its entry are all of its name.                 *)
LEMMA WholeName ==
  ASSUME FatInv, DirInv, fit = "first", NEW e, NEW d \in FatDirs, NEW j, NEW id, NEW lfn, From(e, d, j, id, lfn),
         fatMade[id].state = "live"
  PROVE  assembleLFN(lfn) = Whole(fatMade[id].name)
<1>1. PICK f \in FatFiles : f = fatMade[id]
  BY FatMadeIs DEF FatInv, From
<1>2. PICK n \in Nat : n = LongOf(f)
  BY <1>1, LongIs
<1>3. PICK m \in 0 .. n : /\ NameOf(lfn, m, f, id)
                          /\ m = j - 1 \/ (j - 1 - m \in DOMAIN dir[d] /\ dir[d][j - 1 - m].kind # "long")
  BY <1>1, <1>2, GatheredName
<1>4. id \in Ids /\ j \in DOMAIN dir[d] /\ IsSlot(dir[d][j], f, id, 0) /\ lfn \in Seq(SlotsIn(dir[d]))
  BY <1>1 DEF From
<1>5. PICK l \in Nat : DOMAIN dir[d] = 1 .. l
  BY DEF DirInv, Shaped
<1>6. n < j /\ \A k \in 0 .. n : IsSlot(dir[d][j - k], f, id, k)
  <2>1. PICK c \in FatDirs : \E i \in DOMAIN dir[c] : Lies(dir, fatMade, id, c, i)
    BY <1>1, <1>4 DEF DirInv, LiveLie, Ids
  <2>2. PICK i \in DOMAIN dir[c] : Lies(dir, fatMade, id, c, i)
    BY <2>1
  <2>3. n < i /\ \A k \in 0 .. n : IsSlot(dir[c][i - k], f, id, k)
    BY <1>1, <1>2, <2>2 DEF Lies
  <2>4. 0 \in 0 .. n /\ i - 0 = i
    <3>1. i \in Nat
      BY DEF DirInv, Shaped
    <3> QED
      BY <1>2, <3>1
  <2>5. IsSlot(dir[c][i], f, id, 0)
    BY <2>3, <2>4
  <2>6. c = d /\ i = j
    BY <1>1, <1>2, <1>4, <2>4, <2>5 DEF DirInv, SlotsApart, Ids
  <2> QED
    BY <2>3, <2>6
<1>7. m = n
  <2>1. SUFFICES ASSUME m < n PROVE FALSE
    BY <1>2, <1>3
  <2>2. PICK k \in 0 .. n : k = m + 1 /\ k # 0 /\ k \in Nat
    <3>1. m + 1 \in 0 .. n /\ m + 1 # 0 /\ m + 1 \in Nat
      BY <1>2, <1>3, <2>1
    <3> QED
      BY <3>1
  <2>3. PICK p \in 1 .. l : p = j - k /\ p = j - 1 - m /\ m # j - 1
    <3>1. j \in Nat /\ j <= l /\ k \in Nat /\ k # 0 /\ k < j /\ k = m + 1 /\ m \in Nat
      BY <1>2, <1>3, <1>4, <1>5, <1>6, <2>2
    <3>2. j - k \in 1 .. l /\ j - k = j - 1 - m /\ m # j - 1
      BY <3>1
    <3> QED
      BY <3>2
  <2>4. IsSlot(dir[d][p], f, id, k)
    BY <1>6, <2>2, <2>3
  <2>5. SeenAs(dir[d][p], f, id, k)
    BY <2>2, <2>4, SlotReads
  <2>6. dir[d][p].kind = "long"
    BY <2>2, <2>5 DEF SeenAs
  <2> QED
    BY <1>3, <2>3, <2>6
<1>8. Text(lfn) = [i \in 1 .. n |-> <<f.name, i>>]
  BY <1>2, <1>3, <1>4, <1>7, NameText
<1>9. Whole(f.name) = [i \in 1 .. n |-> <<f.name, i>>]
  BY <1>2 DEF Whole, LongOf
<1>10. Len(lfn) = n /\ DOMAIN lfn = 1 .. n /\ \A i \in 1 .. n : IsSlot(lfn[i], f, id, n - i + 1)
  BY <1>3, <1>4, <1>7 DEF NameOf
<1>11. ASSUME NEW i \in 1 .. n PROVE Seq5(lfn[i]) = n - i + 1 /\ (i = 1 => Last5(lfn[i]))
  <2>1. PICK k \in Nat : k = n - i + 1 /\ k # 0 /\ (i = 1 => k = n)
    <3>1. n - i + 1 \in Nat /\ n - i + 1 # 0 /\ (i = 1 => n - i + 1 = n)
      BY <1>2
    <3> QED
      BY <3>1
  <2>2. PICK x : x = lfn[i]
    OBVIOUS
  <2>3. SeenAs(x, f, id, k) /\ MarkedAs(x, f, k)
    <3>1. IsSlot(x, f, id, k)
      BY <1>10, <2>1, <2>2
    <3> QED
      BY <3>1, SlotReads
  <2>4. x.seq = k /\ ~x.stamped /\ (k = n => x.last)
    BY <1>1, <1>2, <2>1, <2>3 DEF SeenAs, MarkedAs
  <2> QED
    BY <2>1, <2>2, <2>4 DEF Seq5, Last5
<1>12. CASE n = 0
  <2>1. lfn = <<>> /\ Whole(f.name) = <<>>
    BY <1>4, <1>9, <1>10, <1>12
  <2> QED
    BY <1>1, <2>1 DEF assembleLFN
<1>13. CASE n # 0
  <2>1. lfn # <<>> /\ Last5(lfn[1]) /\ \A i \in DOMAIN lfn : Seq5(lfn[i]) = Len(lfn) - i + 1
    <3>1. 1 \in 1 .. n
      BY <1>13
    <3>2. lfn = <<>> => Len(lfn) = 0
      OBVIOUS
    <3> QED
      BY <1>10, <1>11, <1>13, <3>1, <3>2
  <2>2. assembleLFN(lfn) = Text(lfn)
    BY <2>1 DEF assembleLFN
  <2> QED
    BY <1>1, <1>8, <1>9, <2>2
<1> QED
  BY <1>12, <1>13

(* A live file is listed once, with exactly its bytes, and by its whole name *)
(* when the driver takes the first slots that suffice (listDir, assembleLFN, *)
(* fatExtents).                                                              *)
THEOREM FatLiveExact == FatSpec => []LiveExact
<1>1. FatSpec => [](FatInv /\ DirInv)
  <2>1. FatInit => FatInv /\ DirInv
    BY FatStart, DirStart
  <2>2. FatInv /\ DirInv /\ [FatNext]_fatVars => (FatInv /\ DirInv)'
    BY FatStep, DirStep
  <2> QED
    BY <2>1, <2>2, PTL DEF FatSpec
<1>2. FatInv /\ DirInv => LiveExact
  <2>1. SUFFICES ASSUME FatInv, DirInv, NEW id \in Ids, fatMade[id].state = "live", fatMade[id].kind = "file",
                        NEW es, es = {e \in FatEntries : e.of = id}
                 PROVE  /\ Cardinality(es) = 1
                        /\ \A e \in es : /\ ~e.deleted /\ Bytes(e.extents) = FatContent(id)
                                         /\ fit = "first" => e.long = Whole(fatMade[id].name)
    BY DEF LiveExact, Live
  <2>2. PICK e \in FatEntries : e.of = id /\ \A x \in FatEntries : x.of = id => x = e
    BY <2>1, LiveIsListed
  <2>3. es = {e}
    BY <2>1, <2>2
  <2>4. Cardinality(es) = 1
    BY <2>3, FS_Singleton
  <2>5. PICK d \in FatDirs : \E j, o, lfn : From(e, d, j, o, lfn)
    BY <2>1, EntryFrom
  <2>6. PICK j, o, lfn : From(e, d, j, o, lfn)
    BY <2>5
  <2>7. TellsOf(e, fatMade[o], o, lfn)
    BY <2>6 DEF From
  <2>8. o = id
    BY <2>2, <2>7 DEF TellsOf
  <2>9. PICK f \in FatFiles : f = fatMade[id]
    BY <2>1, FatMadeIs DEF FatInv
  <2>10. TellsOf(e, f, id, lfn) /\ f.state = "live" /\ f.kind = "file" /\ f.size \in Nat
    BY <2>1, <2>7, <2>8, <2>9, FileIs
  <2>11. ~e.deleted /\ e.long = assembleLFN(lfn)
    BY <2>10 DEF TellsOf
  <2>12. fit = "first" => e.long = Whole(fatMade[id].name)
    BY <2>1, <2>6, <2>8, <2>11, WholeName
  <2>13. Bytes(e.extents) = FatContent(id)
    <3>1. CASE f.size > 0
      <4>1. PICK out : out = fatExtents(FirstOf(f), f.size)
        OBVIOUS
      <4>2. FirstOf(f) >= 2 /\ Bytes(out) = FatContent(id)
        BY <2>1, <2>9, <2>10, <3>1, <4>1, FileRanges
      <4> QED
        BY <2>10, <3>1, <4>1, <4>2 DEF TellsOf
    <3>2. CASE f.size = 0
      <4>1. PICK cs : cs = f.clusters
        OBVIOUS
      <4>2. /\ Len(cs) = (f.size + 1) \div 2
            /\ \A x : x \in FatContent(id) <=> IsByte(cs, f.size, x)
        BY <2>1, <2>9, <4>1, FatContentIs
      <4>3. Len(cs) = 0
        BY <3>2, <4>2
      <4>4. FatContent(id) = {}
        BY <4>2, <4>3 DEF IsByte
      <4>5. e.extents = <<>>
        BY <2>10, <3>2 DEF TellsOf
      <4>6. Bytes(e.extents) = {}
        BY <4>5 DEF Bytes
      <4> QED
        BY <4>4, <4>6
    <3> QED
      BY <2>10, <3>1, <3>2
  <2> QED
    BY <2>3, <2>4, <2>11, <2>12, <2>13
<1> QED
  BY <1>1, <1>2, PTL

(* With such a driver, a long name is the beginning of that of the file it   *)
(* is reported for, deleted or not, so it is never put together from two     *)
(* (assembleDeletedLFN); and on an ext volume no stale entry names another   *)
(* file (dirEntries).                                                        *)
THEOREM FirstFitNamesOwn == FatSpec /\ ExtSpec => [](fit = "first" => NamesOwn)
<1>1. FatSpec => [](FatInv /\ DirInv)
  <2>1. FatInit => FatInv /\ DirInv
    BY FatStart, DirStart
  <2>2. FatInv /\ DirInv /\ [FatNext]_fatVars => (FatInv /\ DirInv)'
    BY FatStep, DirStep
  <2> QED
    BY <2>1, <2>2, PTL DEF FatSpec
<1>2. FatInv /\ DirInv => (fit = "first" => NamesUnmixed)
  <2>1. SUFFICES ASSUME FatInv, DirInv, fit = "first", NEW e \in FatEntries, e.long # <<>>
                 PROVE  /\ \A i, j \in DOMAIN e.long : e.long[i][1] = e.long[j][1]
                        /\ IsPrefix(e.long, Whole(fatMade[e.of].name))
    BY DEF NamesUnmixed
  <2>2. PICK d \in FatDirs : \E j, id, lfn : From(e, d, j, id, lfn)
    BY <2>1, EntryFrom
  <2>3. PICK j, id, lfn : From(e, d, j, id, lfn)
    BY <2>2
  <2>4. id \in Ids /\ lfn \in Seq(SlotsIn(dir[d])) /\ TellsOf(e, fatMade[id], id, lfn)
    BY <2>3 DEF From
  <2>5. PICK f \in FatFiles : f = fatMade[id]
    BY <2>1, <2>4, FatMadeIs DEF FatInv
  <2>6. PICK n \in Nat : n = LongOf(f)
    BY LongIs
  <2>7. PICK m \in 0 .. n : NameOf(lfn, m, f, id)
    BY <2>1, <2>3, <2>5, <2>6, GatheredName
  <2>8. Text(lfn) = [i \in 1 .. m |-> <<f.name, i>>]
    BY <2>4, <2>6, <2>7, NameText
  <2>9. e.long = Text(lfn) /\ e.of = id
    <3>1. e.long \in {assembleLFN(lfn), assembleDeletedLFN(lfn)} /\ e.of = id
      BY <2>4 DEF TellsOf
    <3> QED
      BY <2>1, <3>1, AssembledIs
  <2>10. PICK t : t = e.long
    OBVIOUS
  <2>11. t = [i \in 1 .. m |-> <<f.name, i>>]
    BY <2>8, <2>9, <2>10
  <2>12. PICK w : w = Whole(f.name)
    OBVIOUS
  <2>13. w = [i \in 1 .. n |-> <<f.name, i>>]
    BY <2>6, <2>12 DEF Whole, LongOf
  <2>14. \A i, k \in DOMAIN t : t[i][1] = t[k][1]
    <3>1. \A i \in DOMAIN t : t[i][1] = f.name
      BY <2>11
    <3> QED
      BY <3>1
  <2>15. Len(t) = m /\ DOMAIN t = 1 .. m /\ Len(w) = n
    <3>1. t = [i \in 1 .. m |-> t[i]] /\ w = [i \in 1 .. n |-> w[i]] /\ m \in Nat
      BY <2>6, <2>7, <2>11, <2>13
    <3> QED
      BY <3>1, SeqIs
  <2>16. IsPrefix(t, w)
    <3>1. SubSeq(t, 1, m) = [i \in 1 .. m |-> t[i]] /\ SubSeq(w, 1, m) = [i \in 1 .. m |-> w[i]]
      <4>1. PICK S : S = {<<f.name, i>> : i \in 1 .. n}
        OBVIOUS
      <4>2. t \in Seq(S) /\ w \in Seq(S)
        <5>1. \A i \in 1 .. m : i \in 1 .. n
          BY <2>7
        <5>2. t \in [1 .. m -> S] /\ w \in [1 .. n -> S]
          BY <2>11, <2>13, <4>1, <5>1
        <5> QED
          BY <2>7, <5>2
      <4>3. PICK a \in Seq(S), b \in Seq(S) : a = t /\ b = w
        BY <4>2
      <4>4. Len(a) = m /\ Len(b) = n /\ m \in Nat /\ m <= n
        BY <2>7, <2>15, <4>3
      <4>5. Len(SubSeq(a, 1, m)) = m /\ Len(SubSeq(b, 1, m)) = m
        BY <4>4
      <4>6. \A i \in 1 .. m : SubSeq(a, 1, m)[i] = a[i] /\ SubSeq(b, 1, m)[i] = b[i]
        BY <4>4
      <4>7. SubSeq(a, 1, m) = [i \in 1 .. m |-> a[i]] /\ SubSeq(b, 1, m) = [i \in 1 .. m |-> b[i]]
        BY <4>4, <4>5, <4>6
      <4> QED
        BY <4>3, <4>7
    <3>2. \A i \in 1 .. m : t[i] = w[i]
      BY <2>7, <2>11, <2>13
    <3>3. SubSeq(t, 1, m) = SubSeq(w, 1, m)
      BY <3>1, <3>2
    <3> QED
      BY <2>7, <2>15, <3>3 DEF IsPrefix
  <2> QED
    BY <2>5, <2>9, <2>10, <2>12, <2>14, <2>16
<1>3. NamesUnmixed /\ EntriesOwn => NamesOwn
  BY DEF NamesOwn
<1> QED
  BY <1>1, <1>2, <1>3, ExtEntriesOwn, PTL
=============================================================================
