---------------------------- MODULE SourceProofs ----------------------------
(* Where blocks come from and what may be left out of them: the bank of       *)
(* covered members of one root (CoverBank), and the sweep of a directory tree *)
(* (Walk). For every root, tree of members of depth two, inherited journal    *)
(* and bound on runs and edits: a deferred member was read as it is now, and  *)
(* a member filed under its own extent was read whole. The root may be edited *)
(* under a filed span, so the invariant speaks of every root that the hashed  *)
(* prefix still pins, not of the one that was scanned. For every tree of      *)
(* directories, links and hits, and every policy of a sweep: a descent ends,  *)
(* whatever links lead back, and what it ends with is every file the policy   *)
(* leads to; a reported carve holds what it was reported with, until a        *)
(* finding is kept silent.                                                    *)
EXTENDS CoverBank, Walk, SequenceTheorems, FiniteSetTheorems, Recursion, TLAPS

Roots == [1..Blocks -> Versions]
Spans == Nat \X Nat

(* b is a root that a scan could have hashed P of.                           *)
Agrees(b, P) == \A i \in 1..Len(P) : b[i] = P[i]

(* What a key's span says, by what S holds as read, of every root that P     *)
(* pins: where the span is where the member is, the member was read as it is *)
(* there, and where it is the member's own extent, so was all inside of it.  *)
WasRead(S, b, m, span) == Matches(b, m, span) => <<m, Within(b, Extent(b, depth1(m)))>> \in S
IsWhole(S, b, m, span) ==
  span = Extent(b, m) => \A c \in Members : ParentOf[c] = m => <<c, Within(b, span)>> \in S
Sound(S, P, m, span) ==
  \A b \in Roots : Agrees(b, P) => WasRead(S, b, m, span) /\ IsWhole(S, b, m, span)

(* An entry that a run may act on: this program filed it, or it is the only  *)
(* one under its key, and it has a span that the proof covers.               *)
Told(by, filed, e) == by = "this" \/ FiledSpans(filed, e[1]) = {e[2]}
SoundJournal(S, j) ==
  \A e \in j.filed :
    Told(j.by, j.filed, e) /\ e[2] # NoSpan /\ spanCovers(j.proof, e[2])
    => Sound(S, j.proof, e[1], e[2])

(* The parts.                                                                *)
BytesOK == bytes \in Roots
JournalOK == /\ journal.proof \in Seq(Versions) /\ Len(journal.proof) <= Blocks
             /\ journal.filed \subseteq Members \X Spans
JournalSound == SoundJournal(seen, journal)
HashedOK == hashed \in Seq(Versions) /\ Len(hashed) <= Blocks /\ pos \in Nat
HashedTrue == running => Agrees(bytes, hashed) /\ pos <= Len(hashed)
SetsOK == running => /\ covered \subseteq live \cup DOMAIN seedSpan
                     /\ DOMAIN seedSpan \subseteq covered
                     /\ live \subseteq met /\ met \subseteq Members
                     /\ covered \subseteq Members
SeedsOK == \A k \in DOMAIN seedSpan : seedSpan[k] \in Spans
SeedsSound == running => \A k \in DOMAIN seedSpan : Sound(seen, hashed, k, seedSpan[k])
LiveRead == running => \A k \in live : <<k, Content(k)>> \in seen
MetRead == running => \A c \in met : \/ <<c, Content(c)>> \in seen
                                     \/ ParentOf[c] \in poisoned \cup {"root"}
BankInv == /\ BytesOK /\ JournalOK /\ JournalSound /\ DeferredWasRead /\ HashedOK /\ HashedTrue
           /\ SetsOK /\ SeedsOK /\ SeedsSound /\ LiveRead /\ MetRead

-----------------------------------------------------------------------------
(* What a member lies in is a member (depth1).                               *)
LEMMA ParentIsMember == \A m \in Members : depth1(m) \in Members
  BY TreeAssumption DEF depth1

(* An extent starts where the member does, is not empty, and ends inside     *)
(* the root, whatever the bytes are.                                         *)
LEMMA ExtentInRoot ==
  ASSUME NEW b, NEW m \in Members
  PROVE  /\ Extent(b, m) \in Spans
         /\ Extent(b, m)[1] = StartOf[m]
         /\ StartOf[m] < Extent(b, m)[2]
         /\ Extent(b, m)[2] <= Blocks
  BY ExtentAssumption DEF Extent, Spans

(* An extent depends on no byte but the one that tells a short stream.       *)
LEMMA ExtentSame ==
  ASSUME NEW b, NEW c, NEW m \in Members, b[StartOf[m] + 1] = c[StartOf[m] + 1]
  PROVE  Extent(b, m) = Extent(c, m)
  BY DEF Extent

(* Roots that agree over a span hold the same there.                         *)
LEMMA WithinSame ==
  ASSUME NEW b, NEW c, NEW span \in Spans, \A i \in span[1] + 1 .. span[2] : b[i] = c[i]
  PROVE  Within(b, span) = Within(c, span)
<1> DEFINE m == span[1] + 1
           n == span[2]
           S == {b[i] : i \in m..n}
           lb == SubSeq(b, m, n)
           lc == SubSeq(c, m, n)
<1>0. m \in Nat /\ n \in Nat BY DEF Spans
<1>1. \A i \in m..n : b[i] \in S /\ c[i] \in S OBVIOUS
<1> HIDE DEF m, n, S
<1>3. /\ lb \in Seq(S) /\ Len(lb) = IF m <= n THEN n-m+1 ELSE 0
      /\ \A i \in 1 .. n-m+1 : lb[i] = b[m+i-1]
  BY <1>0, <1>1, SubSeqProperties
<1>4. /\ lc \in Seq(S) /\ Len(lc) = IF m <= n THEN n-m+1 ELSE 0
      /\ \A i \in 1 .. n-m+1 : lc[i] = c[m+i-1]
  BY <1>0, <1>1, SubSeqProperties
<1>5. \A i \in 1 .. n-m+1 : b[m+i-1] = c[m+i-1] BY <1>0 DEF m, n
<1> HIDE DEF lb, lc
<1>6. Len(lb) = Len(lc) /\ \A i \in 1 .. Len(lb) : i \in 1 .. n-m+1 BY <1>0, <1>3, <1>4
<1>8. \A i \in 1 .. Len(lb) : lb[i] = lc[i] BY <1>3, <1>4, <1>5, <1>6
<1>7. lb = lc BY <1>3, <1>4, <1>6, <1>8, SeqEqual
<1> QED BY <1>7 DEF Within, m, n, lb, lc

(* More reading and a longer hash only make more of it true.                 *)
LEMMA SoundGrows ==
  ASSUME NEW S, NEW T, S \subseteq T, NEW P, NEW Q, NEW m, NEW span,
         \A b \in Roots : Agrees(b, Q) => Agrees(b, P), Sound(S, P, m, span)
  PROVE  Sound(T, Q, m, span)
<1> SUFFICES ASSUME NEW b \in Roots, Agrees(b, Q)
             PROVE  WasRead(T, b, m, span) /\ IsWhole(T, b, m, span)
  BY DEF Sound
<1>1. WasRead(S, b, m, span) /\ IsWhole(S, b, m, span) BY DEF Sound
<1>2. WasRead(T, b, m, span) BY <1>1 DEF WasRead
<1>3. IsWhole(T, b, m, span) BY <1>1 DEF IsWhole
<1> QED BY <1>2, <1>3

(* What the journal says stays true while more is read.                      *)
LEMMA JournalGrows ==
  ASSUME NEW S, NEW T, S \subseteq T, NEW j, SoundJournal(S, j)
  PROVE  SoundJournal(T, j)
<1> SUFFICES ASSUME NEW e \in j.filed, Told(j.by, j.filed, e), e[2] # NoSpan, spanCovers(j.proof, e[2])
             PROVE  Sound(T, j.proof, e[1], e[2])
  BY DEF SoundJournal
<1>1. Sound(S, j.proof, e[1], e[2]) BY DEF SoundJournal
<1> QED BY <1>1, SoundGrows

-----------------------------------------------------------------------------
(* What the program finds at its start: an honest journal of another writer, *)
(* or none.                                                                  *)
LEMMA FiledInit ==
  ASSUME Init PROVE BankInv
<1>0. PICK filed \in Inherited :
       /\ journal = [proof |-> IF filed = {} THEN <<>> ELSE bytes, filed |-> filed, by |-> "other"]
       /\ seen = ReadBefore(filed)
  BY DEF Init
<1>1. BytesOK BY DEF Init, BytesOK, Roots
<1>2. JournalOK
  <2>1. filed \subseteq Members \X Spans BY InheritedAssumption DEF Spans
  <2>2. bytes \in Seq(Versions) /\ Len(bytes) = Blocks
    BY <1>1, ExtentAssumption DEF BytesOK, Roots
  <2>3. <<>> \in Seq(Versions) /\ Len(<<>>) <= Blocks BY ExtentAssumption
  <2> QED BY <1>0, <2>1, <2>2, <2>3 DEF JournalOK
<1>3. JournalSound
  <2> SUFFICES ASSUME NEW e \in filed, FiledSpans(filed, e[1]) = {e[2]},
                      NEW b \in Roots, Agrees(b, bytes)
               PROVE  WasRead(seen, b, e[1], e[2]) /\ IsWhole(seen, b, e[1], e[2])
    <3>1. SUFFICES ASSUME NEW e \in filed, Told("other", filed, e)
                   PROVE  Sound(seen, bytes, e[1], e[2])
      BY <1>0 DEF JournalSound, SoundJournal
    <3>2. FiledSpans(filed, e[1]) = {e[2]} BY <3>1 DEF Told
    <3> QED BY <3>1, <3>2 DEF Sound
  <2>1. b = bytes
    <3>1. Len(bytes) = Blocks BY <1>1, ExtentAssumption DEF BytesOK, Roots
    <3> QED BY <1>1, <3>1 DEF BytesOK, Roots, Agrees
  <2> DEFINE k == e[1]
             span == e[2]
  <2>2. k \in Members /\ span \in Spans BY InheritedAssumption DEF Spans
  <2>3. ASSUME Matches(bytes, k, span) PROVE \A m \in Inside(k) : <<m, Content(m)>> \in seen
    <3>1. \E s \in FiledSpans(filed, k) : FiledSpans(filed, k) = {s} /\ Matches(bytes, k, s)
      BY <2>3
    <3> QED BY <1>0, <2>2, <3>1 DEF ReadBefore
  <2> HIDE DEF k, span
  <2>4. WasRead(seen, bytes, k, span)
    <3> SUFFICES ASSUME Matches(bytes, k, span)
                 PROVE  <<k, Within(bytes, Extent(bytes, depth1(k)))>> \in seen
      BY DEF WasRead
    <3> QED BY <2>2, <2>3 DEF Inside, Content, ownExtent
  <2>5. IsWhole(seen, bytes, k, span)
    <3> SUFFICES ASSUME span = Extent(bytes, k), NEW c \in Members, ParentOf[c] = k
                 PROVE  <<c, Within(bytes, span)>> \in seen
      BY DEF IsWhole
    <3>1. depth1(k) = k /\ depth1(c) = k BY <2>2, TreeAssumption DEF depth1
    <3>2. Matches(bytes, k, span) BY <2>2, <3>1, ExtentInRoot DEF Matches
    <3> QED BY <2>3, <3>1, <3>2 DEF Inside, Content, ownExtent
  <2> QED BY <2>1, <2>4, <2>5 DEF k, span
<1>4. DeferredWasRead BY DEF Init, DeferredWasRead
<1>5. HashedOK BY ExtentAssumption DEF Init, HashedOK
<1>6. SeedsOK BY DEF Init, SeedsOK
<1>7. HashedTrue /\ SetsOK /\ SeedsSound /\ LiveRead /\ MetRead
  BY DEF Init, HashedTrue, SetsOK, SeedsSound, LiveRead, MetRead
<1> QED BY <1>1, <1>2, <1>3, <1>4, <1>5, <1>6, <1>7 DEF BankInv

-----------------------------------------------------------------------------
(* StartRun: what the journal says of a key kept under its one span, within  *)
(* the bytes that have just verified, is what the run says of the seed.      *)
LEMMA StartKeeps ==
  ASSUME BankInv, StartRun PROVE BankInv'
<1> DEFINE kept == IF Verifies THEN Kept(journal.filed, journal.proof) ELSE {}
<1>0. /\ covered' = kept
      /\ seedSpan' = [k \in kept |-> UniqueSpan(journal.filed, k)]
      /\ hashed' = IF Verifies THEN journal.proof ELSE <<>>
      /\ running' = TRUE /\ pos' = 0 /\ live' = {} /\ poisoned' = {} /\ met' = {}
      /\ UNCHANGED <<bytes, journal, deferred, seen>>
  BY DEF StartRun
<1>1. BytesOK' /\ DeferredWasRead' BY <1>0 DEF BankInv, BytesOK, DeferredWasRead
<1>2. JournalOK' BY <1>0 DEF BankInv, JournalOK
<1>3. JournalSound' BY <1>0 DEF BankInv, JournalSound
<1>4. HashedOK' BY <1>0, ExtentAssumption DEF BankInv, HashedOK, JournalOK
<1>5. HashedTrue'
  <2>1. CASE Verifies
    <3>1. \A i \in 1..Len(journal.proof) : SubSeq(bytes, 1, Len(journal.proof))[i] = bytes[i]
      BY DEF BankInv, BytesOK, Roots, JournalOK
    <3> QED BY <1>0, <2>1, <3>1 DEF HashedTrue, Agrees, Verifies, BankInv, JournalOK
  <2>2. CASE ~Verifies BY <1>0, <2>2 DEF HashedTrue, Agrees
  <2> QED BY <2>1, <2>2
<1>6. ASSUME NEW k \in kept
      PROVE  /\ Verifies /\ k \in Members
             /\ \E e \in journal.filed :
                  /\ e[1] = k /\ e[2] = UniqueSpan(journal.filed, k) /\ e[2] # NoSpan
                  /\ FiledSpans(journal.filed, k) = {e[2]} /\ spanCovers(journal.proof, e[2])
  <2>1. Verifies /\ k \in Kept(journal.filed, journal.proof) OBVIOUS
  <2>2. PICK span \in FiledSpans(journal.filed, k) :
           FiledSpans(journal.filed, k) = {span} /\ spanCovers(journal.proof, span)
    BY <2>1 DEF Kept
  <2>3. UniqueSpan(journal.filed, k) = span BY <2>2 DEF UniqueSpan
  <2>4. PICK e \in journal.filed : e[1] = k /\ e[2] = span /\ span # NoSpan
    BY DEF FiledSpans
  <2> QED BY <2>1, <2>2, <2>3, <2>4 DEF Kept
<1>7. SetsOK' BY <1>0, <1>6 DEF SetsOK
<1>8. SeedsOK'
  <2> SUFFICES ASSUME NEW k \in kept PROVE UniqueSpan(journal.filed, k) \in Spans
    BY <1>0 DEF SeedsOK
  <2> QED BY <1>6 DEF BankInv, JournalOK, Spans
<1>9. SeedsSound'
  <2> SUFFICES ASSUME NEW k \in kept
               PROVE  Sound(seen, journal.proof, k, UniqueSpan(journal.filed, k))
    BY <1>0, <1>6 DEF SeedsSound
  <2> QED BY <1>6 DEF BankInv, JournalSound, SoundJournal, Told
<1>10. LiveRead' /\ MetRead' BY <1>0 DEF LiveRead, MetRead
<1> QED BY <1>1, <1>2, <1>3, <1>4, <1>5, <1>7, <1>8, <1>9, <1>10 DEF BankInv

(* RootRead: the hash grows by the block that is there.                      *)
LEMMA RootReadKeeps ==
  ASSUME BankInv, RootRead PROVE BankInv'
<1>0. /\ running /\ pos < Blocks /\ pos' = pos + 1
      /\ hashed' = IF pos < Len(hashed) THEN hashed ELSE Append(hashed, bytes[pos + 1])
      /\ UNCHANGED <<bytes, journal, running, covered, live, seedSpan, poisoned, met, deferred, seen>>
  BY DEF RootRead
<1>1. hashed \in Seq(Versions) /\ Len(hashed) <= Blocks /\ pos \in Nat /\ pos <= Len(hashed)
      /\ Agrees(bytes, hashed) /\ bytes \in Roots
  BY <1>0 DEF BankInv, HashedOK, HashedTrue, BytesOK
<1>2. /\ hashed' \in Seq(Versions) /\ Len(hashed') <= Blocks /\ pos' <= Len(hashed')
      /\ Agrees(bytes, hashed')
      /\ \A b : Agrees(b, hashed') => Agrees(b, hashed)
  <2>1. CASE pos < Len(hashed) BY <1>0, <1>1, <2>1
  <2>2. CASE ~(pos < Len(hashed))
    <3>1. pos = Len(hashed) /\ bytes[pos + 1] \in Versions /\ Blocks \in Nat
      BY <1>0, <1>1, <2>2, ExtentAssumption DEF Roots
    <3>2. hashed' = Append(hashed, bytes[pos + 1]) BY <1>0, <2>2
    <3>3. /\ hashed' \in Seq(Versions) /\ Len(hashed') = Len(hashed) + 1
          /\ hashed'[Len(hashed) + 1] = bytes[pos + 1]
          /\ \A i \in 1..Len(hashed) : hashed'[i] = hashed[i]
      BY <1>1, <3>1, <3>2, AppendProperties
    <3>4. \A i \in 1..Len(hashed') : i \in 1..Len(hashed) \/ i = Len(hashed) + 1
      BY <1>1, <3>3
    <3>5. Agrees(bytes, hashed') BY <1>1, <3>1, <3>3, <3>4 DEF Agrees
    <3>6. \A i \in 1..Len(hashed) : i \in 1..Len(hashed') BY <1>1, <3>3
    <3>7. \A b : Agrees(b, hashed') => Agrees(b, hashed) BY <3>3, <3>6 DEF Agrees
    <3> QED BY <1>0, <1>1, <3>1, <3>3, <3>5, <3>7
  <2> QED BY <2>1, <2>2
<1>3. BytesOK' /\ DeferredWasRead' BY <1>0 DEF BankInv, BytesOK, DeferredWasRead
<1>4. JournalOK' BY <1>0 DEF BankInv, JournalOK
<1>5. JournalSound' BY <1>0 DEF BankInv, JournalSound
<1>6. HashedOK' BY <1>0, <1>1, <1>2 DEF HashedOK
<1>7. HashedTrue' BY <1>0, <1>2 DEF HashedTrue
<1>8. SetsOK' BY <1>0 DEF BankInv, SetsOK
<1>9. SeedsOK' BY <1>0 DEF BankInv, SeedsOK
<1>10. SeedsSound'
  <2> SUFFICES ASSUME NEW k \in DOMAIN seedSpan PROVE Sound(seen, hashed', k, seedSpan[k])
    BY <1>0 DEF SeedsSound
  <2>1. Sound(seen, hashed, k, seedSpan[k]) BY <1>0 DEF BankInv, SeedsSound
  <2> QED BY <1>2, <2>1, SoundGrows
<1>11. LiveRead' BY <1>0 DEF BankInv, LiveRead, Content, ownExtent
<1>12. MetRead' BY <1>0 DEF BankInv, MetRead, Content, ownExtent
<1> QED BY <1>3, <1>4, <1>5, <1>6, <1>7, <1>8, <1>9, <1>10, <1>11, <1>12 DEF BankInv

-----------------------------------------------------------------------------
(* What a run reads or defers is settled: only the sets of this run change,  *)
(* and what has been read only grows.                                        *)
LEMMA MeetKeeps ==
  ASSUME BankInv, NEW m \in Members, Meet(m), seen \subseteq seen',
         DeferredWasRead', SetsOK', LiveRead', MetRead',
         DOMAIN seedSpan' \subseteq DOMAIN seedSpan,
         \A k \in DOMAIN seedSpan' : seedSpan'[k] = seedSpan[k]
  PROVE  BankInv'
<1>0. running /\ UNCHANGED <<bytes, journal, running, pos, hashed>> BY DEF Meet
<1>1. BytesOK' BY <1>0 DEF BankInv, BytesOK
<1>2. JournalOK' BY <1>0 DEF BankInv, JournalOK
<1>3. JournalSound' BY <1>0, JournalGrows DEF BankInv, JournalSound
<1>4. HashedOK' /\ HashedTrue' BY <1>0 DEF BankInv, HashedOK, HashedTrue
<1>5. SeedsOK' BY DEF BankInv, SeedsOK
<1>6. SeedsSound'
  <2> SUFFICES ASSUME NEW k \in DOMAIN seedSpan' PROVE Sound(seen', hashed, k, seedSpan[k])
    BY <1>0 DEF SeedsSound
  <2>1. Sound(seen, hashed, k, seedSpan[k]) BY <1>0 DEF BankInv, SeedsSound
  <2> QED BY <2>1, SoundGrows
<1> QED BY <1>1, <1>2, <1>3, <1>4, <1>5, <1>6 DEF BankInv

(* Defer: a seeded key is where the verified span says, so its content was   *)
(* read; a key that is not seeded was read in this run, and is not met again.*)
LEMMA DeferKeeps ==
  ASSUME BankInv, NEW m \in Members, Defer(m) PROVE BankInv'
<1>0. /\ Meet(m) /\ running /\ m \notin met /\ met' = met \cup {m}
      /\ deferCovered(m) /\ deferred' = deferred \cup {<<m, Content(m)>>}
      /\ UNCHANGED <<bytes, running, hashed, covered, live, seedSpan, poisoned, seen>>
  BY DEF Defer, Meet, Found
<1>1. m \in covered /\ (m \in DOMAIN seedSpan => SpanMatches(m))
  BY <1>0 DEF deferCovered, Seeded
<1>2. m \in DOMAIN seedSpan BY <1>0, <1>1 DEF BankInv, SetsOK
<1>3. Sound(seen, hashed, m, seedSpan[m]) /\ Agrees(bytes, hashed) /\ bytes \in Roots
  BY <1>0, <1>2 DEF BankInv, SeedsSound, HashedTrue, BytesOK
<1>4. <<m, Content(m)>> \in seen
  BY <1>1, <1>2, <1>3 DEF Sound, WasRead, SpanMatches, Content, ownExtent
<1>5. DeferredWasRead' BY <1>0, <1>4 DEF BankInv, DeferredWasRead
<1>6. SetsOK' BY <1>0 DEF BankInv, SetsOK
<1>7. LiveRead' BY <1>0 DEF BankInv, LiveRead, Content, ownExtent
<1>8. MetRead' BY <1>0, <1>4 DEF BankInv, MetRead, Content, ownExtent
<1> QED BY <1>0, <1>5, <1>6, <1>7, <1>8, MeetKeeps

(* A key loses at most its own seed, and only when the span is a lie.        *)
LEMMA DropsItsOwn ==
  ASSUME NEW m \in Members, DropSeed(m), ~deferCovered(m), m \in covered \/ ~Seeded(m)
  PROVE  /\ DOMAIN seedSpan' = DOMAIN seedSpan \ {m}
         /\ \A k \in DOMAIN seedSpan' : seedSpan'[k] = seedSpan[k]
<1>1. Lied(m) \subseteq {m} BY DEF Lied
<1>2. m \in DOMAIN seedSpan => m \in Lied(m) BY DEF Lied, deferCovered, Seeded
<1>3. /\ DOMAIN seedSpan' = DOMAIN seedSpan \ Lied(m)
      /\ \A k \in DOMAIN seedSpan' : seedSpan'[k] = seedSpan[k]
  BY DEF DropSeed
<1> QED BY <1>1, <1>2, <1>3

(* Read: a key of this run, read as it is now.                               *)
LEMMA ReadKeeps ==
  ASSUME BankInv, NEW m \in Members, Read(m) PROVE BankInv'
<1>0. /\ Meet(m) /\ running /\ met' = met \cup {m}
      /\ ~deferCovered(m) /\ DropSeed(m)
      /\ covered' = covered \cup {m} /\ live' = live \cup {m}
      /\ seen' = seen \cup {<<m, Content(m)>>}
      /\ UNCHANGED <<bytes, running, poisoned, deferred>>
  BY DEF Read, Meet
<1>1. /\ DOMAIN seedSpan' = DOMAIN seedSpan \ {m}
      /\ \A k \in DOMAIN seedSpan' : seedSpan'[k] = seedSpan[k]
  BY <1>0, DropsItsOwn DEF BankInv, SetsOK, Seeded
<1>2. DeferredWasRead' BY <1>0 DEF BankInv, DeferredWasRead
<1>3. SetsOK' BY <1>0, <1>1 DEF BankInv, SetsOK
<1>4. LiveRead' BY <1>0 DEF BankInv, LiveRead, Content, ownExtent
<1>5. MetRead' BY <1>0 DEF BankInv, MetRead, Content, ownExtent
<1> QED BY <1>0, <1>1, <1>2, <1>3, <1>4, <1>5, MeetKeeps

(* Refuse: what the member is inside of is incomplete from here on.          *)
LEMMA RefuseKeeps ==
  ASSUME BankInv, NEW m \in Members, Refuse(m) PROVE BankInv'
<1>0. /\ Meet(m) /\ running /\ met' = met \cup {m} /\ m \notin met
      /\ ~deferCovered(m) /\ DropSeed(m) /\ covered' = covered \ Lied(m)
      /\ poisoned' = poisoned \cup ({ParentOf[m]} \ {"root"})
      /\ UNCHANGED <<bytes, running, live, deferred, seen>>
  BY DEF Refuse, Meet, Found, Unseeded
<1>1. /\ DOMAIN seedSpan' = DOMAIN seedSpan \ {m}
      /\ \A k \in DOMAIN seedSpan' : seedSpan'[k] = seedSpan[k]
  BY <1>0, DropsItsOwn DEF BankInv, SetsOK, Seeded
<1>2. DeferredWasRead' BY <1>0 DEF BankInv, DeferredWasRead
<1>3. SetsOK'
  <2>1. Lied(m) \subseteq {m} BY DEF Lied
  <2>2. m \in covered => m \in Lied(m) BY <1>0 DEF Lied, deferCovered
  <2> QED BY <1>0, <1>1, <2>1, <2>2 DEF BankInv, SetsOK
<1>4. LiveRead' BY <1>0 DEF BankInv, LiveRead, Content, ownExtent
<1>5. MetRead' BY <1>0 DEF BankInv, MetRead, Content, ownExtent
<1> QED BY <1>0, <1>1, <1>2, <1>3, <1>4, <1>5, MeetKeeps

(* File: the keys of this run are read where they are, as the hashed bytes   *)
(* pin them, and everything found inside of them has been met; the seeds are *)
(* passed on as they came.                                                   *)
LEMMA LiveSound ==
  ASSUME BankInv, running, Quiet, NEW m \in live, m \notin poisoned,
         ownExtent(depth1(m))[2] <= Len(hashed)
  PROVE  Sound(seen, hashed, m, ownExtent(depth1(m)))
<1> DEFINE d == depth1(m)
           span == ownExtent(d)
<1>0. m \in Members /\ d \in Members /\ m \in met
  BY ParentIsMember DEF BankInv, SetsOK
<1>1. /\ span \in Spans /\ span[1] = StartOf[d] /\ StartOf[d] < span[2]
      /\ span[2] <= Len(hashed) /\ StartOf[d] \in Nat
  BY <1>0, ExtentInRoot, ExtentAssumption DEF ownExtent
<1>2. /\ Agrees(bytes, hashed) /\ Len(hashed) \in Nat
      /\ <<m, Within(bytes, span)>> \in seen
  BY DEF BankInv, HashedTrue, HashedOK, LiveRead, Content
<1>3. SUFFICES ASSUME NEW b \in Roots, Agrees(b, hashed)
               PROVE  WasRead(seen, b, m, span) /\ IsWhole(seen, b, m, span)
  BY DEF Sound
<1>4. \A i \in 1..span[2] : b[i] = bytes[i]
  BY <1>1, <1>2, <1>3 DEF Agrees, Spans
<1>5. Extent(b, d) = span
  <2>1. StartOf[d] + 1 \in 1..span[2] BY <1>1 DEF Spans
  <2> QED BY <1>0, <1>4, <2>1, ExtentSame DEF ownExtent
<1>6. Within(b, span) = Within(bytes, span)
  <2>1. \A i \in span[1] + 1 .. span[2] : b[i] = bytes[i] BY <1>1, <1>4 DEF Spans
  <2> HIDE DEF span
  <2> QED BY <1>1, <2>1, WithinSame
<1>7. WasRead(seen, b, m, span) BY <1>2, <1>5, <1>6 DEF WasRead
<1>8. IsWhole(seen, b, m, span)
  <2> SUFFICES ASSUME NEW c \in Members, ParentOf[c] = m
               PROVE  <<c, Within(b, span)>> \in seen
    BY DEF IsWhole
  <2>1. depth1(c) = m /\ d = m /\ m # "root" BY <1>0, TreeAssumption DEF depth1
  <2>2. c \in met BY <2>1 DEF Quiet, Found
  <2>3. <<c, Content(c)>> \in seen BY <2>1, <2>2 DEF BankInv, MetRead
  <2> QED BY <1>6, <2>1, <2>3 DEF Content
<1> QED BY <1>7, <1>8

LEMMA FileKeeps ==
  ASSUME BankInv, File PROVE BankInv'
<1>0. /\ running /\ Quiet
      /\ journal' = [proof |-> hashed, filed |-> snapshotCovered, by |-> "this"]
      /\ UNCHANGED <<bytes, running, pos, hashed, covered, live, seedSpan, poisoned,
                     met, deferred, seen>>
  BY DEF File
<1>1. /\ journal'.proof = hashed /\ journal'.filed = snapshotCovered /\ journal'.by = "this"
  BY <1>0
<1>2. ASSUME NEW e \in snapshotCovered
      PROVE  \E m \in covered \ poisoned : \E span \in Provenance(m) : e = <<m, span>>
  BY DEF snapshotCovered
<1>3. ASSUME NEW m \in covered, NEW span \in Provenance(m)
      PROVE  /\ m \in Members /\ span \in Spans
             /\ \/ m \in live /\ span = ownExtent(depth1(m))
                \/ m \in DOMAIN seedSpan /\ span = seedSpan[m]
  <2>1. m \in Members BY <1>0 DEF BankInv, SetsOK
  <2>2. ownExtent(depth1(m)) \in Spans BY <2>1, ParentIsMember, ExtentInRoot DEF ownExtent
  <2>3. \A k \in DOMAIN seedSpan : seedSpan[k] \in Spans BY DEF BankInv, SeedsOK
  <2> QED BY <2>1, <2>2, <2>3 DEF Provenance
<1>4. JournalOK'
  <2>1. snapshotCovered \subseteq Members \X Spans BY <1>2, <1>3
  <2> QED BY <1>1, <2>1 DEF BankInv, JournalOK, HashedOK
<1>5. JournalSound'
  <2> SUFFICES ASSUME NEW e \in snapshotCovered, spanCovers(hashed, e[2])
               PROVE  Sound(seen, hashed, e[1], e[2])
    BY <1>0, <1>1 DEF JournalSound, SoundJournal
  <2>0. PICK m \in covered \ poisoned : \E span \in Provenance(m) : e = <<m, span>> BY <1>2
  <2>1. PICK span \in Provenance(m) : e = <<m, span>> BY <2>0
  <2>2. CASE m \in live /\ span = ownExtent(depth1(m))
    BY <1>0, <2>1, <2>2, LiveSound DEF spanCovers
  <2>3. CASE m \in DOMAIN seedSpan /\ span = seedSpan[m]
    BY <1>0, <2>1, <2>3 DEF BankInv, SeedsSound
  <2> QED BY <1>3, <2>1, <2>2, <2>3
<1>6. BytesOK' /\ DeferredWasRead' BY <1>0 DEF BankInv, BytesOK, DeferredWasRead
<1>7. HashedOK' /\ HashedTrue' BY <1>0 DEF BankInv, HashedOK, HashedTrue
<1>8. SetsOK' BY <1>0 DEF BankInv, SetsOK
<1>9. SeedsOK' BY <1>0 DEF BankInv, SeedsOK
<1>10. SeedsSound' BY <1>0 DEF BankInv, SeedsSound
<1>11. LiveRead' BY <1>0 DEF BankInv, LiveRead, Content, ownExtent
<1>12. MetRead' BY <1>0 DEF BankInv, MetRead, Content, ownExtent
<1> QED BY <1>4, <1>5, <1>6, <1>7, <1>8, <1>9, <1>10, <1>11, <1>12 DEF BankInv

(* The run is over, with or without a record, and what a run holds is gone.  *)
LEMMA StoppedKeeps ==
  ASSUME BankInv, ~running', bytes' \in Roots, JournalOK', JournalSound',
         UNCHANGED <<pos, hashed, seedSpan, deferred, seen>>
  PROVE  BankInv'
<1>1. BytesOK' /\ DeferredWasRead' BY DEF BankInv, BytesOK, DeferredWasRead
<1>2. HashedOK' BY DEF BankInv, HashedOK
<1>3. SeedsOK' BY DEF BankInv, SeedsOK
<1>4. HashedTrue' /\ SetsOK' /\ SeedsSound' /\ LiveRead' /\ MetRead'
  BY DEF HashedTrue, SetsOK, SeedsSound, LiveRead, MetRead
<1> QED BY <1>1, <1>2, <1>3, <1>4 DEF BankInv

(* Each step of a run, and whatever happens between runs, keeps it.          *)
LEMMA BankStep ==
  ASSUME BankInv, [Next]_vars PROVE BankInv'
<1>1. CASE StartRun BY <1>1, StartKeeps
<1>2. CASE RootRead BY <1>2, RootReadKeeps
<1>3. CASE File BY <1>3, FileKeeps
<1>4. CASE Complete
  <2>1. /\ journal' = [proof |-> hashed, filed |-> {}, by |-> "this"] /\ running' = FALSE
        /\ UNCHANGED <<bytes, pos, hashed, seedSpan, deferred, seen>>
    BY <1>4 DEF Complete
  <2>2. JournalOK' BY <2>1 DEF BankInv, JournalOK, HashedOK
  <2>3. JournalSound' BY <2>1 DEF JournalSound, SoundJournal
  <2>4. bytes' \in Roots BY <2>1 DEF BankInv, BytesOK
  <2> QED BY <2>1, <2>2, <2>3, <2>4, StoppedKeeps
<1>5. CASE Kill
  <2>1. running' = FALSE /\ UNCHANGED <<bytes, journal, pos, hashed, seedSpan, deferred, seen>>
    BY <1>5 DEF Kill
  <2>2. JournalOK' BY <2>1 DEF BankInv, JournalOK
  <2>3. JournalSound' BY <2>1 DEF BankInv, JournalSound
  <2>4. bytes' \in Roots BY <2>1 DEF BankInv, BytesOK
  <2> QED BY <2>1, <2>2, <2>3, <2>4, StoppedKeeps
<1>6. CASE Edit
  <2>1. ~running' /\ UNCHANGED <<journal, pos, hashed, seedSpan, deferred, seen>>
    BY <1>6 DEF Edit
  <2>2. JournalOK' BY <2>1 DEF BankInv, JournalOK
  <2>3. JournalSound' BY <2>1 DEF BankInv, JournalSound
  <2>4. bytes' \in Roots BY <1>6 DEF Edit, BankInv, BytesOK, Roots
  <2> QED BY <2>1, <2>2, <2>3, <2>4, StoppedKeeps
<1>7. CASE \E m \in Members : Defer(m) \/ Read(m) \/ Refuse(m)
  BY <1>7, DeferKeeps, ReadKeeps, RefuseKeeps
<1>8. CASE UNCHANGED vars
  <2>0. UNCHANGED <<bytes, journal, running, pos, hashed, covered, live, seedSpan,
                    poisoned, met, deferred, seen>>
    BY <1>8 DEF vars
  <2>1. BytesOK' /\ DeferredWasRead' BY <2>0 DEF BankInv, BytesOK, DeferredWasRead
  <2>2. JournalOK' BY <2>0 DEF BankInv, JournalOK
  <2>3. JournalSound' BY <2>0 DEF BankInv, JournalSound
  <2>4. HashedOK' /\ HashedTrue' BY <2>0 DEF BankInv, HashedOK, HashedTrue
  <2>5. SetsOK' BY <2>0 DEF BankInv, SetsOK
  <2>6. SeedsOK' BY <2>0 DEF BankInv, SeedsOK
  <2>7. SeedsSound' BY <2>0 DEF BankInv, SeedsSound
  <2>8. LiveRead' BY <2>0 DEF BankInv, LiveRead, Content, ownExtent
  <2>9. MetRead' BY <2>0 DEF BankInv, MetRead, Content, ownExtent
  <2> QED BY <2>1, <2>2, <2>3, <2>4, <2>5, <2>6, <2>7, <2>8, <2>9 DEF BankInv
<1> QED BY <1>1, <1>2, <1>3, <1>4, <1>5, <1>6, <1>7, <1>8 DEF Next

-----------------------------------------------------------------------------
(* No member is ever skipped on a journal's word whose present content no run *)
(* has read to its end (deferCovered, filterCoveredBySpans).                 *)
THEOREM DeferredIsRead == Spec => []DeferredWasRead
<1>1. Init => BankInv BY FiledInit
<1>2. BankInv /\ [Next]_vars => BankInv' BY BankStep
<1>3. BankInv => DeferredWasRead BY DEF BankInv
<1> QED BY <1>1, <1>2, <1>3, PTL DEF Spec

(* A member that is filed under its own extent was read with all that is     *)
(* inside of it, as the proof pins it (snapshotCovered, notePublish).        *)
THEOREM FiledWhole == Spec => []FiledIsWhole
<1>1. Init => BankInv BY FiledInit
<1>2. BankInv /\ [Next]_vars => BankInv' BY BankStep
<1>3. BankInv => FiledIsWhole
  <2> SUFFICES ASSUME BankInv, journal.by = "this", NEW e \in journal.filed,
                      spanCovers(journal.proof, e[2]), StartOf[e[1]] < e[2][2],
                      e[2] = Extent(journal.proof, e[1]),
                      NEW c \in Members, ParentOf[c] = e[1]
               PROVE  <<c, Within(journal.proof, e[2])>> \in seen
    BY DEF FiledIsWhole
  <2> DEFINE proof == journal.proof
             span == e[2]
             b == [i \in 1..Blocks |-> IF i <= Len(proof) THEN proof[i] ELSE bytes[i]]
  <2>1. /\ e[1] \in Members /\ span \in Spans /\ span[2] <= Len(proof)
        /\ proof \in Seq(Versions) /\ Len(proof) <= Blocks /\ Len(proof) \in Nat
        /\ Blocks \in Nat
    BY ExtentAssumption DEF BankInv, JournalOK, spanCovers
  <2>2. /\ span[1] = StartOf[e[1]] /\ StartOf[e[1]] \in Nat /\ StartOf[e[1]] < span[2]
    BY <2>1, ExtentInRoot, ExtentAssumption
  <2>3. \A i \in 1..Len(proof) : b[i] = proof[i] BY <2>1
  <2>4. b \in Roots BY <2>1 DEF Roots, BankInv, BytesOK
  <2>5. Extent(b, e[1]) = span
    <3>1. StartOf[e[1]] + 1 \in 1..Len(proof) BY <2>1, <2>2 DEF Spans
    <3>2. b[StartOf[e[1]] + 1] = proof[StartOf[e[1]] + 1] BY <2>3, <3>1
    <3> HIDE DEF b
    <3> QED BY <2>1, <3>2, ExtentSame
  <2>6. Within(b, span) = Within(proof, span)
    <3>1. \A i \in span[1] + 1 .. span[2] : b[i] = proof[i]
      <4>1. \A i \in span[1] + 1 .. span[2] : i \in 1..Len(proof) BY <2>1, <2>2 DEF Spans
      <4> QED BY <2>3, <4>1
    <3> HIDE DEF b, span
    <3> QED BY <2>1, <3>1, WithinSame
  <2>7. Sound(seen, proof, e[1], span)
    <3>1. span # NoSpan BY <2>1, <2>2 DEF NoSpan, Spans
    <3> QED BY <3>1 DEF BankInv, JournalSound, SoundJournal, Told
  <2> HIDE DEF b
  <2>8. Agrees(b, proof) BY <2>3 DEF Agrees
  <2>9. IsWhole(seen, b, e[1], span) BY <2>4, <2>7, <2>8 DEF Sound
  <2> QED BY <2>5, <2>6, <2>9 DEF IsWhole
<1> QED BY <1>1, <1>2, <1>3, PTL DEF Spec

-----------------------------------------------------------------------------
(* Walk: the directories being read.                                         *)

Frames == [dir : Dirs, next : Nat \ {0}, depth : Nat]

(* The frames that a link, or the caller, led to are at L; each other is an  *)
(* entry of the one below it. What links led to is in V, and once each.      *)
Led(st, L, V) ==
  /\ L \subseteq 1 .. Len(st) /\ (Len(st) # 0 => 1 \in L)
  /\ \A i \in L : st[i].dir \in V
  /\ \A i, j \in L : st[i].dir = st[j].dir => i = j
  /\ \A i \in 1 .. Len(st) : i \notin L =>
       \E k \in DOMAIN Child[st[i - 1].dir] : st[i].dir = Child[st[i - 1].dir][k]

Tower(st, V) == st \in Seq(Frames) /\ \E L : Led(st, L, V)

(* Between two readings of a directory there is one that a link led to.      *)
LEMMA LinkBetween ==
  ASSUME NEW st \in Seq(Frames), NEW L, NEW V, Led(st, L, V),
         NEW i \in 1 .. Len(st), NEW j \in 1 .. Len(st), i < j, st[i].dir = st[j].dir
  PROVE  \E l \in L : i < l /\ l <= j
<1> SUFFICES ASSUME \A l \in L : ~(i < l /\ l <= j) PROVE FALSE
  OBVIOUS
<1> DEFINE S == {st[k].dir : k \in i .. j}
<1>1. Len(st) \in Nat /\ i \in Nat /\ j \in Nat /\ \A k \in i .. j : k \in 1 .. Len(st) /\ st[k] \in Frames
  OBVIOUS
<1>2. S \in (SUBSET Dirs) \ {{}}
  <2>1. \A k \in i .. j : st[k].dir \in Dirs
    BY <1>1 DEF Frames
  <2>2. i \in i .. j
    BY <1>1
  <2> QED
    BY <2>1, <2>2
<1>3. PICK d \in S : \A p \in S : \A k \in DOMAIN Child[p] : Child[p][k] # d
  BY <1>2, DirAssumption
<1>4. PICK m \in i .. j : m > i /\ d = st[m].dir
  <2>1. PICK m \in i .. j : d = st[m].dir
    BY <1>3
  <2>2. CASE m = i
    BY <1>1, <2>1, <2>2
  <2>3. CASE m # i
    BY <1>1, <2>1, <2>3
  <2> QED
    BY <2>2, <2>3
<1>5. m \notin L /\ m \in 1 .. Len(st) /\ m - 1 \in i .. j
  BY <1>1, <1>4
<1>6. \E k \in DOMAIN Child[st[m - 1].dir] : st[m].dir = Child[st[m - 1].dir][k]
  BY <1>5 DEF Led
<1>7. st[m - 1].dir \in S
  BY <1>5
<1> QED
  BY <1>3, <1>4, <1>6, <1>7

(* So a directory is read at most as often as links led to one.              *)
LEMMA TowerIsLow ==
  ASSUME NEW st, NEW V, Tower(st, V), IsFiniteSet(V), NEW d
  PROVE  Cardinality({i \in DOMAIN st : st[i].dir = d}) <= Cardinality(V)
<1>1. PICK L : Led(st, L, V)
  BY DEF Tower
<1>2. st \in Seq(Frames) /\ DOMAIN st = 1 .. Len(st) /\ Len(st) \in Nat
  BY DEF Tower
<1> DEFINE Times == {i \in DOMAIN st : st[i].dir = d}
           Last(i, l) == l \in L /\ l <= i /\ \A k \in L : ~(l < k /\ k <= i)
<1>3. ASSUME NEW i \in 1 .. Len(st) PROVE \E l \in L : Last(i, l)
  <2> DEFINE Back == {x \in Nat : x <= i /\ i - x \in L}
  <2>1. i - 1 \in Back /\ Back \subseteq Nat
    <3>1. 1 \in L
      BY <1>1, <1>2 DEF Led
    <3>2. i - 1 \in Nat /\ i - 1 <= i /\ i - (i - 1) = 1
      BY <1>2
    <3> QED
      BY <3>1, <3>2
  <2>2. PICK x \in Back : \A y \in Back : x <= y
    <3> HIDE DEF Back
    <3> QED
      BY <2>1, NatLeast
  <2>3. ASSUME NEW k \in L, i - x < k, k <= i PROVE FALSE
    <3>1. k \in 1 .. Len(st)
      BY <1>1 DEF Led
    <3>2. i - k \in Nat /\ i - k <= i /\ i - (i - k) = k /\ i - k < x
      BY <1>2, <2>2, <2>3, <3>1
    <3>3. i - k \in Back
      BY <3>2
    <3> QED
      BY <2>2, <3>2, <3>3
  <2>4. i - x \in L /\ i - x <= i
    BY <2>2
  <2> QED
    BY <2>3, <2>4
<1> DEFINE f == [i \in Times |-> st[CHOOSE l \in L : Last(i, l)].dir]
<1>4. ASSUME NEW i \in Times
      PROVE  \E l \in L : Last(i, l) /\ f[i] = st[l].dir /\ st[l].dir \in V
  <2>1. i \in 1 .. Len(st)
    BY <1>2
  <2>2. \E l \in L : Last(i, l)
    BY <1>3, <2>1
  <2> HIDE DEF Last
  <2>3. PICK l : l = CHOOSE x \in L : Last(i, x)
    OBVIOUS
  <2>4. l \in L /\ Last(i, l)
    BY <2>2, <2>3
  <2>5. st[l].dir \in V
    BY <1>1, <2>4 DEF Led
  <2> QED
    BY <2>3, <2>4, <2>5
<1>5. ASSUME NEW i \in Times, NEW j \in Times, i < j, f[i] = f[j] PROVE FALSE
  <2>1. i \in 1 .. Len(st) /\ j \in 1 .. Len(st) /\ st[i].dir = st[j].dir
    BY <1>2
  <2>2. PICK l \in L : Last(i, l) /\ f[i] = st[l].dir
    BY <1>4
  <2>3. PICK m \in L : Last(j, m) /\ f[j] = st[m].dir
    BY <1>4
  <2> HIDE DEF f
  <2>4. l = m
    BY <1>1, <1>5, <2>2, <2>3 DEF Led
  <2>5. PICK k \in L : i < k /\ k <= j
    BY <1>1, <1>2, <1>5, <2>1, LinkBetween
  <2>6. l <= i /\ ~(l < k /\ k <= j)
    BY <2>2, <2>3, <2>4
  <2>7. k \in 1 .. Len(st) /\ l \in 1 .. Len(st)
    BY <1>1 DEF Led
  <2> QED
    BY <1>2, <2>1, <2>5, <2>6, <2>7
<1>6. f \in Injection(Times, V)
  <2>1. f \in [Times -> V]
    <3>1. \A i \in Times : f[i] \in V
      BY <1>4
    <3> QED
      BY <3>1
  <2>2. \A i, j \in Times : f[i] = f[j] => i = j
    <3>1. SUFFICES ASSUME NEW i \in Times, NEW j \in Times, f[i] = f[j], i # j PROVE FALSE
      OBVIOUS
    <3>2. i \in Nat /\ j \in Nat
      BY <1>2
    <3>3. i < j \/ j < i
      BY <3>1, <3>2
    <3> HIDE DEF f, Times
    <3> QED
      BY <1>5, <3>1, <3>3
  <2> HIDE DEF f, Times
  <2> QED
    BY <2>1, <2>2 DEF Injection, IsInjective
<1> HIDE DEF f
<1> QED
  BY <1>6, FS_Injection

LEMMA TowerOf ==
  ASSUME NEW st, NEW V, NEW t \in Seq(Frames), Tower(st, V), Len(t) = Len(st),
         \A i \in 1 .. Len(st) : t[i].dir = st[i].dir
  PROVE  Tower(t, V)
<1>1. PICK L : Led(st, L, V)
  BY DEF Tower
<1>2. Len(st) \in Nat /\ L \subseteq 1 .. Len(st)
  BY <1>1 DEF Led, Tower
<1>3. \A i \in 1 .. Len(st) : i \notin L => i - 1 \in 1 .. Len(st)
  <2>1. SUFFICES ASSUME NEW i \in 1 .. Len(st), i \notin L PROVE i - 1 \in 1 .. Len(st)
    OBVIOUS
  <2>2. i # 1
    BY <1>1, <1>2, <2>1 DEF Led
  <2> QED
    BY <1>2, <2>2
<1>4. Led(t, L, V)
  BY <1>1, <1>2, <1>3 DEF Led
<1> QED
  BY <1>4 DEF Tower

LEMMA EmptyTower == \A V : Tower(<<>>, V)
<1>1. <<>> \in Seq(Frames) /\ Len(<<>>) = 0
  BY EmptySeq
<1>2. \A V : Led(<<>>, {}, V)
  BY <1>1 DEF Led
<1> QED
  BY <1>1, <1>2 DEF Tower

LEMMA TowerPops ==
  ASSUME NEW st, NEW V, Tower(st, V), st # <<>>
  PROVE  Tower(SubSeq(st, 1, Len(st) - 1), V)
<1>1. PICK n \in Nat : Len(st) = n + 1 /\ st \in Seq(Frames)
  <2>1. Len(st) \in Nat /\ Len(st) # 0 /\ st \in Seq(Frames)
    BY EmptySeq DEF Tower
  <2>2. Len(st) - 1 \in Nat /\ Len(st) = (Len(st) - 1) + 1
    BY <2>1
  <2> QED
    BY <2>1, <2>2
<1>2. PICK t : t = SubSeq(st, 1, n)
  OBVIOUS
<1>3. t \in Seq(Frames) /\ Len(t) = n /\ \A i \in 1 .. n : t[i] = st[i]
  <2>1. \A i \in 1 .. n : st[i] \in Frames
    BY <1>1
  <2>2. /\ 1 \in Int /\ n \in Int /\ n - 1 + 1 = n /\ (1 <= n \/ n = 0)
        /\ \A i \in 1 .. n : 1 + i - 1 = i
    BY <1>1
  <2> QED
    BY <1>2, <2>1, <2>2, SubSeqProperties
<1>4. PICK L : Led(st, L, V)
  BY DEF Tower
<1>5. PICK M : M = L \cap 1 .. n
  OBVIOUS
<1>6. Led(t, M, V)
  <2>1. M \subseteq 1 .. n /\ (n # 0 => 1 \in M)
    BY <1>1, <1>4, <1>5 DEF Led
  <2>2. /\ \A i \in M : t[i].dir \in V
        /\ \A i, j \in M : t[i].dir = t[j].dir => i = j
    BY <1>3, <1>4, <1>5 DEF Led
  <2>3. ASSUME NEW i \in 1 .. n, i \notin M
        PROVE  \E k \in DOMAIN Child[t[i - 1].dir] : t[i].dir = Child[t[i - 1].dir][k]
    <3>1. i \in 1 .. Len(st) /\ i \notin L /\ i # 1
      BY <1>1, <1>5, <2>1, <2>3
    <3>2. i - 1 \in 1 .. n
      BY <1>1, <3>1
    <3>3. t[i] = st[i] /\ t[i - 1] = st[i - 1]
      BY <1>3, <3>2
    <3> QED
      BY <1>4, <3>1, <3>3 DEF Led
  <2> QED
    BY <1>3, <2>1, <2>2, <2>3 DEF Led
<1>7. Len(st) - 1 = n
  BY <1>1
<1> QED
  BY <1>2, <1>3, <1>6, <1>7 DEF Tower

LEMMA TowerByName ==
  ASSUME NEW st, NEW V, Tower(st, V), st # <<>>, NEW fr \in Frames,
         NEW k \in DOMAIN Child[st[Len(st)].dir], fr.dir = Child[st[Len(st)].dir][k]
  PROVE  Tower(Append(st, fr), V)
<1>1. PICK n \in Nat : Len(st) = n /\ n # 0 /\ st \in Seq(Frames)
  BY EmptySeq DEF Tower
<1>2. PICK t : t = Append(st, fr)
  OBVIOUS
<1>3. t \in Seq(Frames) /\ Len(t) = n + 1 /\ (\A i \in 1 .. n : t[i] = st[i]) /\ t[n + 1] = fr
  BY <1>1, <1>2, AppendProperties
<1>4. PICK L : Led(st, L, V)
  BY DEF Tower
<1>5. L \subseteq 1 .. n /\ 1 \in L
  BY <1>1, <1>4 DEF Led
<1>6. ASSUME NEW i \in 1 .. n + 1, i \notin L
      PROVE  \E x \in DOMAIN Child[t[i - 1].dir] : t[i].dir = Child[t[i - 1].dir][x]
  <2>1. CASE i = n + 1
    <3>1. i - 1 = n /\ n \in 1 .. n
      BY <1>1, <2>1
    <3> QED
      BY <1>1, <1>3, <2>1, <3>1
  <2>2. CASE i # n + 1
    <3>1. i \in 1 .. n /\ i - 1 \in 1 .. n
      BY <1>1, <1>5, <1>6, <2>2
    <3>2. t[i] = st[i] /\ t[i - 1] = st[i - 1] /\ i \in 1 .. Len(st)
      BY <1>1, <1>3, <3>1
    <3> QED
      BY <1>4, <1>6, <3>2 DEF Led
  <2> QED
    BY <2>1, <2>2
<1>7. L \subseteq 1 .. n + 1
  BY <1>5
<1>8. Led(t, L, V)
  BY <1>3, <1>4, <1>5, <1>6, <1>7 DEF Led
<1> QED
  BY <1>2, <1>3, <1>8 DEF Tower

LEMMA TowerByLink ==
  ASSUME NEW st, NEW V, Tower(st, V), NEW fr \in Frames, fr.dir \notin V
  PROVE  Tower(Append(st, fr), V \cup {fr.dir})
<1>1. PICK n \in Nat : Len(st) = n /\ st \in Seq(Frames)
  BY DEF Tower
<1>2. PICK t : t = Append(st, fr)
  OBVIOUS
<1>3. t \in Seq(Frames) /\ Len(t) = n + 1 /\ (\A i \in 1 .. n : t[i] = st[i]) /\ t[n + 1] = fr
  BY <1>1, <1>2, AppendProperties
<1>4. PICK L : Led(st, L, V)
  BY DEF Tower
<1>5. L \subseteq 1 .. n /\ (n # 0 => 1 \in L) /\ n + 1 \notin L
  BY <1>1, <1>4 DEF Led
<1>6. PICK M : M = L \cup {n + 1}
  OBVIOUS
<1>7. ASSUME NEW i \in 1 .. n + 1, i \notin M
      PROVE  \E x \in DOMAIN Child[t[i - 1].dir] : t[i].dir = Child[t[i - 1].dir][x]
  <2>1. i \in 1 .. n /\ i # 1 /\ i \notin L /\ i - 1 \in 1 .. n
    BY <1>1, <1>5, <1>6, <1>7
  <2>2. t[i] = st[i] /\ t[i - 1] = st[i - 1] /\ i \in 1 .. Len(st)
    BY <1>1, <1>3, <2>1
  <2> QED
    BY <1>4, <2>1, <2>2 DEF Led
<1>8. \A i \in M : t[i].dir \in V \cup {fr.dir}
  BY <1>3, <1>4, <1>5, <1>6 DEF Led
<1>9. \A i, j \in M : t[i].dir = t[j].dir => i = j
  BY <1>3, <1>4, <1>5, <1>6 DEF Led
<1>10. M \subseteq 1 .. n + 1 /\ 1 \in M
  BY <1>1, <1>5, <1>6
<1>11. Led(t, M, V \cup {fr.dir})
  BY <1>3, <1>7, <1>8, <1>9, <1>10 DEF Led
<1> QED
  BY <1>2, <1>3, <1>11 DEF Tower

-----------------------------------------------------------------------------
(* What links, or the caller, may have led to.                               *)
Met == IF FollowSymlinks THEN visited ELSE {Resolved}

DescentInv ==
  /\ IsFiniteSet(visited) /\ Tower(stack, Met)
  /\ pc = "start" => stack = <<>>

LEMMA AdvancedIs ==
  ASSUME Tower(stack, Met)
  PROVE  /\ Tower(Advanced, Met) /\ Len(Advanced) = Len(stack)
         /\ \A i \in 1 .. Len(stack) : Advanced[i].dir = stack[i].dir
         /\ stack # <<>> => Advanced # <<>>
<1>1. CASE stack = <<>>
  BY <1>1, EmptySeq DEF Advanced
<1>2. CASE stack # <<>>
  <2>1. PICK n \in Nat : Len(stack) = n /\ n # 0 /\ stack \in Seq(Frames)
    BY <1>2, EmptySeq DEF Tower
  <2>2. n \in 1 .. Len(stack) /\ stack[n] \in Frames
    BY <2>1
  <2>3. PICK fr : fr = [stack[n] EXCEPT !.next = @ + 1]
    OBVIOUS
  <2>4. fr \in Frames /\ fr.dir = stack[n].dir
    BY <2>2, <2>3 DEF Frames
  <2>5. Advanced = [stack EXCEPT ![n] = fr]
    BY <1>2, <2>1, <2>3 DEF Advanced
  <2>6. /\ Advanced \in Seq(Frames) /\ Len(Advanced) = Len(stack)
        /\ \A i \in 1 .. Len(stack) : Advanced[i] = IF i = n THEN fr ELSE stack[i]
    BY <2>1, <2>2, <2>4, <2>5, ExceptSeq
  <2>7. \A i \in 1 .. Len(stack) : Advanced[i].dir = stack[i].dir
    BY <2>4, <2>6
  <2>8. Advanced # <<>>
    BY <2>1, <2>6, EmptySeq
  <2> QED
    BY <2>6, <2>7, <2>8, TowerOf
<1> QED
  BY <1>1, <1>2

LEMMA DescentInit == SweepInit => DescentInv
  BY EmptyTower, FS_EmptySet DEF SweepInit, DescentInv

LEMMA StartDescends ==
  ASSUME DescentInv, Start PROVE DescentInv'
<1>1. stack = <<>> /\ Advanced = <<>> /\ IsFiniteSet(visited)
  BY DEF DescentInv, Start, Advanced
<1>2. CASE Mode[Top] = "link" /\ (~FollowSymlinks \/ Resolved \notin Paths)
  BY <1>1, <1>2, EmptyTower DEF Start, DescentInv
<1>3. CASE ~(Mode[Top] = "link" /\ (~FollowSymlinks \/ Resolved \notin Paths)) /\ Resolved \notin Dirs
  BY <1>1, <1>3, EmptyTower DEF Start, DescentInv, ScanFile
<1>4. CASE ~(Mode[Top] = "link" /\ (~FollowSymlinks \/ Resolved \notin Paths)) /\ Resolved \in Dirs
  <2>1. visited' = (IF FollowSymlinks THEN {Resolved} ELSE {}) /\ Recurse(Resolved, 0) /\ pc' = "sweep"
    BY <1>4 DEF Start
  <2>2. IsFiniteSet(visited') /\ Met' = {Resolved}
    BY <2>1, FS_EmptySet, FS_Singleton DEF Met, Resolved
  <2>3. CASE Resolved \in Shut
    BY <1>1, <2>1, <2>2, <2>3, EmptyTower DEF Recurse, DescentInv
  <2>4. CASE Resolved \notin Shut
    <3>1. PICK fr : fr = [dir |-> Resolved, next |-> 1, depth |-> 0]
      OBVIOUS
    <3>2. fr \in Frames /\ fr.dir \notin {} /\ fr.dir = Resolved /\ stack' = Append(<<>>, fr)
      BY <1>1, <1>4, <2>1, <2>4, <3>1 DEF Recurse, Frames
    <3>3. Tower(Append(<<>>, fr), {} \cup {fr.dir})
      BY <3>2, EmptyTower, TowerByLink
    <3>4. Tower(stack', Met')
      BY <2>2, <3>2, <3>3
    <3> QED
      BY <2>1, <2>2, <3>4 DEF DescentInv
  <2> QED
    BY <2>3, <2>4
<1> QED
  BY <1>2, <1>3, <1>4

LEMMA EntryDescends ==
  ASSUME DescentInv, pc # "start", visited' = visited, pc' # "start",
         stack' = Advanced \/ stack' = stack
  PROVE  DescentInv'
<1>1. Met' = Met
  BY DEF Met, Resolved
<1>2. Tower(stack', Met')
  BY <1>1, AdvancedIs DEF DescentInv
<1> QED
  BY <1>2 DEF DescentInv

LEMMA ReturnDescends ==
  ASSUME DescentInv, pc' # "start", visited' = visited, stack # <<>>,
         stack' = SubSeq(stack, 1, Len(stack) - 1)
  PROVE  DescentInv'
<1>1. Met' = Met
  BY DEF Met, Resolved
<1>2. Tower(stack', Met')
  BY <1>1, TowerPops DEF DescentInv
<1> QED
  BY <1>2 DEF DescentInv

(* The entry at hand is one of the directory on top.                         *)
LEMMA EntryIs ==
  ASSUME DescentInv, AtEntry
  PROVE  /\ stack # <<>> /\ stack[Len(stack)].dir \in Dirs /\ pc = "sweep" /\ stack[Len(stack)].depth \in Nat
         /\ stack[Len(stack)].next \in DOMAIN Child[stack[Len(stack)].dir]
         /\ child = Child[stack[Len(stack)].dir][stack[Len(stack)].next]
<1>1. stack # <<>> /\ pc = "sweep" /\ stack \in Seq(Frames)
  BY DEF AtEntry, Reading, DescentInv, Tower
<1>2. Len(stack) \in 1 .. Len(stack)
  BY <1>1, EmptySeq
<1>3. PICK fr : fr = stack[Len(stack)]
  OBVIOUS
<1>4. fr \in Frames
  BY <1>1, <1>2, <1>3
<1>5. fr.dir \in Dirs /\ fr.next \in Nat \ {0} /\ fr.depth \in Nat
  BY <1>4 DEF Frames
<1>6. fr.next <= Len(Child[fr.dir])
  BY <1>3 DEF AtEntry, frame
<1>7. Child[fr.dir] \in Seq(Paths)
  BY <1>5, DirAssumption
<1>8. fr.next \in DOMAIN Child[fr.dir]
  BY <1>5, <1>6, <1>7
<1> QED
  BY <1>1, <1>3, <1>5, <1>8 DEF child, frame

LEMMA EnterDirDescends ==
  ASSUME DescentInv, EnterDir PROVE DescentInv'
<1>1. AtEntry /\ child \in Dirs
  <2>1. AtEntry /\ Mode[child] = "dir"
    BY DEF EnterDir, Enterable
  <2>2. child \in Paths
    BY <2>1, EntryIs, DirAssumption, ElementOfSeq
  <2> QED
    BY <2>1, <2>2 DEF Dirs
<1>2. /\ stack # <<>> /\ stack[Len(stack)].dir \in Dirs /\ pc = "sweep" /\ stack[Len(stack)].depth \in Nat
      /\ stack[Len(stack)].next \in DOMAIN Child[stack[Len(stack)].dir]
      /\ child = Child[stack[Len(stack)].dir][stack[Len(stack)].next]
  BY <1>1, EntryIs
<1>3. Recurse(child, depth) /\ visited' = visited /\ pc' = pc
  BY DEF EnterDir
<1>4. CASE child \in Shut
  <2>1. stack' = Advanced
    BY <1>3, <1>4 DEF Recurse
  <2> QED
    BY <1>2, <1>3, <2>1, EntryDescends
<1>5. CASE child \notin Shut
  <2>1. PICK fr : fr = [dir |-> child, next |-> 1, depth |-> depth]
    OBVIOUS
  <2>2. fr \in Frames /\ fr.dir = child
    <3>1. depth \in Nat
      BY <1>2 DEF depth, frame
    <3> QED
      BY <1>1, <2>1, <3>1 DEF Frames
  <2>3. stack' = Append(Advanced, fr)
    BY <1>3, <1>5, <2>1 DEF Recurse
  <2>4. /\ Tower(Advanced, Met) /\ Advanced # <<>> /\ Len(Advanced) = Len(stack)
        /\ Advanced[Len(Advanced)].dir = stack[Len(stack)].dir
    <3>1. Len(stack) \in 1 .. Len(stack)
      BY <1>2, EmptySeq DEF DescentInv, Tower
    <3> QED
      BY <1>2, <3>1, AdvancedIs DEF DescentInv
  <2>5. Tower(Append(Advanced, fr), Met)
    BY <1>2, <2>2, <2>4, TowerByName
  <2>6. Met' = Met
    BY <1>3 DEF Met, Resolved
  <2> QED
    BY <1>2, <1>3, <2>3, <2>5, <2>6 DEF DescentInv
<1> QED
  BY <1>4, <1>5

LEMMA FollowLinkDescends ==
  ASSUME DescentInv, FollowLink PROVE DescentInv'
<1>1. AtEntry /\ FollowSymlinks
  BY DEF FollowLink, Enterable
<1>2. /\ stack # <<>> /\ pc = "sweep" /\ stack[Len(stack)].depth \in Nat
  BY <1>1, EntryIs
<1>3. CASE visited' = visited /\ stack' = Advanced /\ (pc' = pc \/ pc' = "scan" \/ pc' = "sweep")
  BY <1>2, <1>3, EntryDescends
<1>4. CASE /\ target \in Dirs \ (visited \cup Own) /\ visited' = Marked /\ pc' = pc
           /\ Recurse(target, depth)
  <2>1. IsFiniteSet(visited) /\ Tower(stack, Met) /\ Met = visited /\ Met' = visited \cup {target}
        /\ target \notin visited /\ target \in Dirs /\ visited' = visited \cup {target}
    BY <1>1, <1>4 DEF DescentInv, Met, Marked, target
  <2>2. IsFiniteSet(visited')
    BY <2>1, FS_AddElement
  <2>3. CASE target \in Shut
    <3>1. stack' = Advanced
      BY <1>4, <2>3 DEF Recurse
    <3>2. Tower(Advanced, visited)
      BY <2>1, AdvancedIs
    <3>3. PICK L : Led(Advanced, L, visited)
      BY <3>2 DEF Tower
    <3>4. Led(Advanced, L, visited \cup {target})
      BY <3>3 DEF Led
    <3>5. Tower(Advanced, visited \cup {target})
      BY <3>2, <3>4 DEF Tower
    <3> QED
      BY <1>2, <1>4, <2>1, <2>2, <3>1, <3>5 DEF DescentInv
  <2>4. CASE target \notin Shut
    <3>1. PICK fr : fr = [dir |-> target, next |-> 1, depth |-> depth]
      OBVIOUS
    <3>2. fr \in Frames /\ fr.dir = target
      <4>1. depth \in Nat
        BY <1>2 DEF depth, frame
      <4> QED
        BY <2>1, <3>1, <4>1 DEF Frames
    <3>3. stack' = Append(Advanced, fr)
      BY <1>4, <2>4, <3>1 DEF Recurse
    <3>4. Tower(Append(Advanced, fr), visited \cup {target})
      <4>1. Tower(Advanced, visited)
        BY <2>1, AdvancedIs
      <4>2. Tower(Append(Advanced, fr), visited \cup {fr.dir})
        BY <2>1, <3>2, <4>1, TowerByLink
      <4> QED
        BY <3>2, <4>2
    <3> QED
      BY <1>2, <1>4, <2>1, <2>2, <3>3, <3>4 DEF DescentInv
  <2> QED
    BY <2>3, <2>4
<1> QED
  BY <1>3, <1>4 DEF FollowLink, ScanFile

LEMMA DescentStep ==
  ASSUME DescentInv, [SweepNext]_sweepVars PROVE DescentInv'
<1>1. CASE Start
  BY <1>1, StartDescends
<1>2. CASE SkipEntry
  <2>1. pc = "sweep"
    BY <1>2 DEF SkipEntry, AtEntry, Reading
  <2> QED
    BY <1>2, <2>1, EntryDescends DEF SkipEntry
<1>3. CASE EnterDir
  BY <1>3, EnterDirDescends
<1>4. CASE EnterFile
  <2>1. pc = "sweep"
    BY <1>4 DEF EnterFile, Enterable, AtEntry, Reading
  <2> QED
    BY <1>4, <2>1, EntryDescends DEF EnterFile, ScanFile
<1>5. CASE FollowLink
  BY <1>5, FollowLinkDescends
<1>6. CASE Return
  BY <1>6, ReturnDescends DEF Return, Reading
<1>7. CASE Stop
  <2>1. stack # <<>> /\ pc = "sweep" /\ visited' = visited
    BY <1>7 DEF Stop
  <2>2. CASE pc' = "stopped" /\ stack' = stack
    BY <2>1, <2>2, EntryDescends
  <2>3. CASE stack' = SubSeq(stack, 1, Len(stack) - 1) /\ pc' = pc
    BY <2>1, <2>3, ReturnDescends
  <2> QED
    BY <1>7, <2>2, <2>3 DEF Stop
<1>8. CASE Finish \/ Pipeline \/ Cancel
  <2>1. pc # "start" /\ pc' # "start" /\ visited' = visited /\ stack' = stack
    BY <1>8 DEF Finish, Pipeline, Cancel, CarveBin, CarveSalvage, CarveSidecar, Tell, EndScan, AtHit
  <2> QED
    BY <2>1, EntryDescends
<1>9. CASE UNCHANGED sweepVars
  <2>1. Met' = Met
    BY <1>9 DEF sweepVars, Met, Resolved
  <2> QED
    BY <1>9, <2>1 DEF sweepVars, DescentInv
<1> QED
  BY <1>1, <1>2, <1>3, <1>4, <1>5, <1>6, <1>7, <1>8, <1>9 DEF SweepNext, Sweep

(* However links lead back, a directory is on the stack of the recursion no  *)
(* more often than links were followed to one: each of them at most once     *)
(* (recurse, followLink).                                                    *)
THEOREM DescentsEnd == SweepSpec => []DescentEnds
<1>1. DescentInv => DescentEnds
  <2>1. SUFFICES ASSUME DescentInv, NEW d
                 PROVE  Cardinality({i \in DOMAIN stack : stack[i].dir = d})
                          <= IF FollowSymlinks THEN Cardinality(visited) ELSE 1
    BY DEF DescentEnds
  <2>2. IsFiniteSet(Met) /\ Cardinality(Met) = IF FollowSymlinks THEN Cardinality(visited) ELSE 1
    BY <2>1, FS_Singleton DEF Met, DescentInv
  <2>3. Cardinality({i \in DOMAIN stack : stack[i].dir = d}) <= Cardinality(Met)
    BY <2>1, <2>2, TowerIsLow DEF DescentInv
  <2> QED
    BY <2>2, <2>3
<1> QED
  BY <1>1, DescentInit, DescentStep, PTL DEF SweepSpec

-----------------------------------------------------------------------------
(* The numbers of carves.                                                    *)

Stats == [files : Nat, detections : Nat, suppressed : Nat, skipped : Nat, failed : Nat]

IsJob(j) == j \in [file : {j.file}, hit : Nat \ {0}, seq : Nat, n : Nat,
                   step : {"bin", "salvage", "sidecar", "tell"}, no : Nat]

(* What was told, up to number u, is what the carves b and sidecars s hold.  *)
Holds(b, s, n, h) == At(b, n) = h /\ At(s, n) \in {None, h}
Standing(tl, b, s, u) ==
  \A t \in tl : t.no \in Nat /\ t.no <= u /\ (t.no # 0 => Holds(b, s, t.no, t.hit))

(* The numbers used so far, and the one of the hit at hand.                  *)
Used == IF pc = "scan" THEN seqBase + (job.hit - 1) ELSE seqBase

AtHand(u) ==
  /\ job.n = job.hit - 1
  /\ job.step # "tell" => u + 1 \notin DOMAIN sidecar
  /\ job.step \in {"salvage", "sidecar"} => At(bin, u + 1) = hit
  /\ job.step = "tell" => job.no = 0 \/ (job.no = u + 1 /\ Holds(bin, sidecar, u + 1, hit))
  /\ job.step \in {"salvage", "sidecar"} => job.no = u + 1

Unused(s, u) == \A i \in DOMAIN s : i \in Nat /\ i <= u

CarveInv ==
  /\ stats \in Stats /\ seqBase \in Nat
  /\ pc = "scan" => IsJob(job) /\ job.seq = seqBase
  /\ stats.suppressed = 0 =>
       /\ Standing(told, bin, sidecar, Used) /\ Unused(sidecar, Used + 1)
       /\ pc = "scan" => AtHand(Used)
       /\ pc # "scan" => Unused(sidecar, Used)

LEMMA BumpIs ==
  ASSUME stats \in Stats, NEW field \in {"files", "skipped", "failed", "suppressed"}, Bump(field)
  PROVE  /\ stats' \in Stats
         /\ stats'.suppressed = IF field = "suppressed" THEN stats.suppressed + 1 ELSE stats.suppressed
  BY DEF Bump, Stats

(* A job after a hit was told, or kept silent.                               *)
LEMMA JobTold ==
  ASSUME NEW j, IsJob(j), NEW k, NEW n \in Nat, n = j.n \/ n = j.n + 1,
         \/ n = j.n /\ k = [j EXCEPT !.hit = @ + 1, !.step = "bin"]
         \/ n = j.n + 1 /\ k = [j EXCEPT !.hit = @ + 1, !.step = "bin", !.n = @ + 1]
  PROVE  /\ IsJob(k) /\ k.hit = j.hit + 1 /\ k.seq = j.seq /\ k.n = n
         /\ k.step = "bin" /\ j.hit \in Nat \ {0} /\ j.no \in Nat
<1>1. PICK h \in Nat \ {0} : h = j.hit
  BY DEF IsJob
<1>2. h + 1 \in Nat \ {0}
  OBVIOUS
<1>3. \/ n = j.n /\ k = [j EXCEPT !.hit = h + 1, !.step = "bin"]
      \/ n = j.n + 1 /\ k = [j EXCEPT !.hit = h + 1, !.step = "bin", !.n = n]
  BY <1>1
<1> QED
  BY <1>1, <1>2, <1>3 DEF IsJob

LEMMA CommitIs ==
  ASSUME NEW f, NEW n, NEW h, NEW g, g = [i \in DOMAIN f \cup {n} |-> IF i = n THEN h ELSE f[i]]
  PROVE  /\ \A i : i # n => At(g, i) = At(f, i)
         /\ At(g, n) = h /\ DOMAIN g = DOMAIN f \cup {n}
  BY DEF At

LEMMA FailureIs ==
  ASSUME NEW f, NEW n, NEW g, g = f \/ g = [i \in DOMAIN f \ {n} |-> f[i]]
  PROVE  /\ \A i : i # n => At(g, i) = At(f, i)
         /\ DOMAIN g \subseteq DOMAIN f
  BY DEF At

(* A carve beyond the numbers told changes nothing of these.                 *)
LEMMA StillKept ==
  ASSUME NEW tl, NEW b, NEW s, NEW u \in Nat, Standing(tl, b, s, u), NEW c, NEW r,
         \A i : i # u + 1 => At(c, i) = At(b, i) /\ At(r, i) = At(s, i)
  PROVE  Standing(tl, c, r, u)
<1>1. SUFFICES ASSUME NEW t \in tl
               PROVE  t.no \in Nat /\ t.no <= u /\ (t.no # 0 => Holds(c, r, t.no, t.hit))
  BY DEF Standing
<1>2. t.no \in Nat /\ t.no <= u /\ (t.no # 0 => Holds(b, s, t.no, t.hit))
  BY DEF Standing
<1>3. t.no # u + 1
  BY <1>2
<1> QED
  BY <1>2, <1>3 DEF Holds

LEMMA CarveInit == SweepInit => CarveInv
<1> SUFFICES ASSUME SweepInit PROVE CarveInv
  OBVIOUS
<1>1. stats = NoStats /\ seqBase = 0 /\ pc = "start" /\ told = {} /\ sidecar = <<>>
  BY DEF SweepInit
<1>2. DOMAIN sidecar = {}
  BY <1>1
<1> QED
  BY <1>1, <1>2 DEF CarveInv, Stats, NoStats, Standing, Unused, Used

(* The sweep takes no number; the scan of a file begins with those used.     *)
LEMMA SweepCarves ==
  ASSUME CarveInv, pc # "scan", UNCHANGED <<seqBase, carves, told>>,
         stats' \in Stats, stats'.suppressed = stats.suppressed,
         pc' = "scan" =>
           \E f : job' = [file |-> f, hit |-> 1, seq |-> seqBase, n |-> 0, step |-> "bin", no |-> 0]
  PROVE  CarveInv'
<1>1. seqBase \in Nat /\ Used = seqBase
  BY DEF CarveInv, Used
<1>2. UNCHANGED <<bin, salvage, sidecar>>
  BY DEF carves
<1>3. CASE pc' # "scan"
  <2>1. Used' = Used
    BY <1>1, <1>3 DEF Used
  <2> QED
    BY <1>1, <1>2, <1>3, <2>1 DEF CarveInv
<1>4. CASE pc' = "scan"
  <2>1. PICK f : job' = [file |-> f, hit |-> 1, seq |-> seqBase, n |-> 0, step |-> "bin", no |-> 0]
    BY <1>4
  <2>2. /\ job'.hit = 1 /\ job'.seq = seqBase /\ job'.n = 0 /\ job'.step = "bin" /\ job'.file = f
        /\ IsJob(job')
    BY <1>1, <2>1 DEF IsJob
  <2>3. Used' = Used
    BY <1>1, <1>4, <2>2 DEF Used
  <2>4. ASSUME stats.suppressed = 0 PROVE AtHand(Used)'
    <3>1. Unused(sidecar, Used)
      BY <2>4 DEF CarveInv
    <3>2. Used + 1 \notin DOMAIN sidecar
      BY <1>1, <3>1 DEF Unused
    <3> QED
      BY <1>2, <2>2, <2>3, <3>2 DEF AtHand
  <2> QED
    BY <1>1, <1>2, <1>4, <2>2, <2>3, <2>4 DEF CarveInv
<1> QED
  BY <1>3, <1>4

LEMMA ScanFileCarves ==
  ASSUME CarveInv, pc # "scan", NEW f, ScanFile(f), UNCHANGED <<seqBase, carves, told>>
  PROVE  CarveInv'
<1>1. stats \in Stats
  BY DEF CarveInv
<1>2. stats' \in Stats /\ stats'.suppressed = stats.suppressed
  BY <1>1, BumpIs DEF ScanFile
<1>3. pc' = "scan" =>
        \E x : job' = [file |-> x, hit |-> 1, seq |-> seqBase, n |-> 0, step |-> "bin", no |-> 0]
  BY DEF ScanFile
<1> QED
  BY <1>2, <1>3, SweepCarves

LEMMA PassesCarves ==
  ASSUME CarveInv, pc # "scan", pc' # "scan", UNCHANGED <<seqBase, carves, told>>,
         stats' = stats \/ \E field \in {"files", "skipped", "failed"} : Bump(field)
  PROVE  CarveInv'
<1>1. stats \in Stats
  BY DEF CarveInv
<1>2. stats' \in Stats /\ stats'.suppressed = stats.suppressed
  BY <1>1, BumpIs
<1> QED
  BY <1>2, SweepCarves

-----------------------------------------------------------------------------
(* The three writes, and what the sweep hears.                               *)

LEMMA HitIs ==
  ASSUME CarveInv, AtHit
  PROVE  /\ IsJob(job) /\ seqBase \in Nat /\ stats \in Stats /\ pc = "scan"
         /\ Used \in Nat /\ no = Used + 1
         /\ stats.suppressed = 0 => /\ Standing(told, bin, sidecar, Used) /\ Unused(sidecar, Used + 1)
                                    /\ AtHand(Used)
<1>1. IsJob(job) /\ seqBase \in Nat /\ stats \in Stats /\ pc = "scan" /\ job.seq = seqBase
  BY DEF CarveInv, AtHit
<1>2. job.hit \in Nat \ {0}
  BY <1>1 DEF IsJob
<1>3. Used \in Nat /\ no = Used + 1
  BY <1>1, <1>2 DEF Used, no
<1> QED
  BY <1>1, <1>3 DEF CarveInv

(* A step of a carve: its number is the one at hand.                         *)
LEMMA StepCarves ==
  ASSUME CarveInv, AtHit, UNCHANGED <<pc, seqBase, stats, told>>,
         IsJob(job'), job'.hit = job.hit, job'.seq = job.seq,
         \A i : i # Used + 1 => At(bin', i) = At(bin, i) /\ At(sidecar', i) = At(sidecar, i),
         DOMAIN sidecar' \subseteq DOMAIN sidecar \cup {Used + 1},
         stats.suppressed = 0 => AtHand(Used)'
  PROVE  CarveInv'
<1>1. /\ seqBase \in Nat /\ stats \in Stats /\ pc = "scan" /\ Used \in Nat
      /\ stats.suppressed = 0 => Standing(told, bin, sidecar, Used) /\ Unused(sidecar, Used + 1)
  BY HitIs
<1>2. Used' = Used
  BY <1>1 DEF Used
<1>3. ASSUME stats.suppressed = 0 PROVE Standing(told, bin', sidecar', Used)
  BY <1>1, <1>3, StillKept
<1>4. ASSUME stats.suppressed = 0 PROVE Unused(sidecar', Used + 1)
  BY <1>1, <1>4 DEF Unused
<1>5. job.seq = seqBase
  BY <1>1 DEF CarveInv
<1> QED
  BY <1>1, <1>2, <1>3, <1>4, <1>5 DEF CarveInv

LEMMA CarveBinCarves ==
  ASSUME CarveInv, CarveBin PROVE CarveInv'
<1>1. AtHit /\ job.step = "bin" /\ sidecar' = sidecar /\ UNCHANGED <<pc, seqBase, stats, told>>
  BY DEF CarveBin
<1>2. PICK u : u = Used
  OBVIOUS
<1>3. /\ IsJob(job) /\ pc = "scan" /\ u \in Nat /\ no = u + 1
      /\ stats.suppressed = 0 => AtHand(u)
  BY <1>1, <1>2, HitIs
<1>4. Used' = u \/ job'.hit # job.hit
  BY <1>1, <1>2, <1>3 DEF Used
<1>5. CASE Commit(no, bin) /\ job' = [job EXCEPT !.step = "salvage", !.no = no]
  <2>1. /\ IsJob(job') /\ job'.hit = job.hit /\ job'.seq = job.seq /\ job'.n = job.n
        /\ job'.file = job.file /\ job'.step = "salvage" /\ job'.no = u + 1
    <3>1. PICK k : k = job'
      OBVIOUS
    <3>2. k = [job EXCEPT !.step = "salvage", !.no = u + 1] /\ u + 1 \in Nat
      BY <1>3, <1>5, <3>1
    <3>3. /\ IsJob(k) /\ k.hit = job.hit /\ k.seq = job.seq /\ k.n = job.n /\ k.file = job.file
          /\ k.step = "salvage" /\ k.no = u + 1
      BY <1>3, <3>2 DEF IsJob
    <3> QED
      BY <3>1, <3>3
  <2>2. (\A i : i # u + 1 => At(bin', i) = At(bin, i)) /\ At(bin', u + 1) = hit
    <3>1. PICK g : g = bin'
      OBVIOUS
    <3>2. g = [i \in DOMAIN bin \cup {u + 1} |-> IF i = u + 1 THEN hit ELSE bin[i]]
      BY <1>3, <1>5, <3>1 DEF Commit
    <3>3. (\A i : i # u + 1 => At(g, i) = At(bin, i)) /\ At(g, u + 1) = hit
      BY <3>2 DEF At
    <3> QED
      BY <3>1, <3>3
  <2>3. stats.suppressed = 0 => AtHand(Used)'
    BY <1>1, <1>3, <1>4, <2>1, <2>2 DEF AtHand, hit
  <2> QED
    BY <1>1, <1>2, <2>1, <2>2, <2>3, StepCarves
<1>6. CASE CommitFails(no, bin) /\ job' = [job EXCEPT !.step = "tell", !.no = 0]
  <2>1. /\ IsJob(job') /\ job'.hit = job.hit /\ job'.seq = job.seq /\ job'.n = job.n
        /\ job'.step = "tell" /\ job'.no = 0
    <3>1. PICK k : k = job'
      OBVIOUS
    <3>2. k = [job EXCEPT !.step = "tell", !.no = 0] /\ 0 \in Nat
      BY <1>6, <3>1
    <3>3. /\ IsJob(k) /\ k.hit = job.hit /\ k.seq = job.seq /\ k.n = job.n
          /\ k.step = "tell" /\ k.no = 0
      BY <1>3, <3>2 DEF IsJob
    <3> QED
      BY <3>1, <3>3
  <2>2. \A i : i # u + 1 => At(bin', i) = At(bin, i)
    BY <1>3, <1>6, FailureIs DEF CommitFails
  <2>3. stats.suppressed = 0 => AtHand(Used)'
    BY <1>1, <1>3, <1>4, <2>1, <2>2 DEF AtHand
  <2> QED
    BY <1>1, <1>2, <2>1, <2>2, <2>3, StepCarves
<1> QED
  BY <1>5, <1>6 DEF CarveBin

LEMMA CarveSalvageCarves ==
  ASSUME CarveInv, CarveSalvage PROVE CarveInv'
<1>1. /\ AtHit /\ job.step = "salvage" /\ sidecar' = sidecar /\ bin' = bin
      /\ UNCHANGED <<pc, seqBase, stats, told>> /\ job' = [job EXCEPT !.step = "sidecar"]
  BY DEF CarveSalvage, Step
<1>2. PICK u : u = Used
  OBVIOUS
<1>3. /\ IsJob(job) /\ pc = "scan" /\ u \in Nat
      /\ stats.suppressed = 0 => AtHand(u)
  BY <1>1, <1>2, HitIs
<1>4. /\ IsJob(job') /\ job'.hit = job.hit /\ job'.seq = job.seq /\ job'.n = job.n
      /\ job'.file = job.file /\ job'.step = "sidecar" /\ job'.no = job.no
  BY <1>1, <1>3 DEF IsJob
<1>5. Used' = u
  BY <1>1, <1>2, <1>3, <1>4 DEF Used
<1>6. stats.suppressed = 0 => AtHand(Used)'
  BY <1>1, <1>3, <1>4, <1>5 DEF AtHand, hit
<1> QED
  BY <1>1, <1>4, <1>6, StepCarves

LEMMA CarveSidecarCarves ==
  ASSUME CarveInv, CarveSidecar PROVE CarveInv'
<1>1. /\ AtHit /\ job.step = "sidecar" /\ bin' = bin
      /\ UNCHANGED <<pc, seqBase, stats, told>> /\ job' = [job EXCEPT !.step = "tell"]
      /\ Commit(no, sidecar) \/ CommitFails(no, sidecar)
  BY DEF CarveSidecar, Step
<1>2. PICK u : u = Used
  OBVIOUS
<1>3. /\ IsJob(job) /\ pc = "scan" /\ u \in Nat /\ no = u + 1
      /\ stats.suppressed = 0 => AtHand(u)
  BY <1>1, <1>2, HitIs
<1>4. /\ IsJob(job') /\ job'.hit = job.hit /\ job'.seq = job.seq /\ job'.n = job.n
      /\ job'.file = job.file /\ job'.step = "tell" /\ job'.no = job.no
  BY <1>1, <1>3 DEF IsJob
<1>5. Used' = u
  BY <1>1, <1>2, <1>3, <1>4 DEF Used
<1>6. /\ \A i : i # u + 1 => At(sidecar', i) = At(sidecar, i)
      /\ DOMAIN sidecar' \subseteq DOMAIN sidecar \cup {u + 1}
      /\ u + 1 \notin DOMAIN sidecar => At(sidecar', u + 1) \in {None, hit}
  <2>1. CASE Commit(no, sidecar)
    <3>1. PICK g : g = sidecar'
      OBVIOUS
    <3>2. g = [i \in DOMAIN sidecar \cup {u + 1} |-> IF i = u + 1 THEN hit ELSE sidecar[i]]
      BY <1>3, <2>1, <3>1 DEF Commit
    <3> QED
      BY <3>1, <3>2, CommitIs
  <2>2. CASE CommitFails(no, sidecar)
    <3>1. (\A i : i # u + 1 => At(sidecar', i) = At(sidecar, i)) /\ DOMAIN sidecar' \subseteq DOMAIN sidecar
      BY <1>3, <2>2, FailureIs DEF CommitFails
    <3>2. u + 1 \notin DOMAIN sidecar => At(sidecar', u + 1) = None
      BY <3>1 DEF At
    <3> QED
      BY <3>1, <3>2
  <2> QED
    BY <1>1, <2>1, <2>2
<1>7. ASSUME stats.suppressed = 0 PROVE AtHand(Used)'
  <2>1. u + 1 \notin DOMAIN sidecar /\ At(bin, u + 1) = hit /\ job.no = u + 1 /\ job.n = job.hit - 1
    BY <1>1, <1>3, <1>7 DEF AtHand
  <2>2. hit' = hit
    BY <1>4 DEF hit
  <2> QED
    BY <1>1, <1>4, <1>5, <1>6, <2>1, <2>2 DEF AtHand, Holds
<1> QED
  BY <1>1, <1>2, <1>4, <1>6, <1>7, StepCarves

LEMMA TellCarves ==
  ASSUME CarveInv, Tell PROVE CarveInv'
<1>1. AtHit /\ job.step = "tell" /\ UNCHANGED <<pc, seqBase, bin, sidecar>>
  BY DEF Tell, carves
<1>2. PICK u : u = Used
  OBVIOUS
<1>3. /\ IsJob(job) /\ seqBase \in Nat /\ stats \in Stats /\ pc = "scan" /\ u \in Nat /\ no = u + 1
      /\ stats.suppressed = 0 => /\ Standing(told, bin, sidecar, u) /\ Unused(sidecar, u + 1)
                                 /\ AtHand(u)
  BY <1>1, <1>2, HitIs
<1>4. job.seq = seqBase
  BY <1>3 DEF CarveInv
<1>5. CASE Suppressed /\ Bump("suppressed") /\ job' = [job EXCEPT !.hit = @ + 1, !.step = "bin"]
  <2>1. stats' \in Stats /\ stats'.suppressed # 0
    <3>1. stats' \in Stats /\ stats'.suppressed = stats.suppressed + 1
      BY <1>3, <1>5, BumpIs
    <3>2. stats.suppressed \in Nat
      BY <1>3 DEF Stats
    <3> QED
      BY <3>1, <3>2
  <2>2. IsJob(job') /\ job'.seq = job.seq
    <3>1. PICK k : k = job'
      OBVIOUS
    <3>2. PICK n \in Nat : n = job.n
      BY <1>3 DEF IsJob
    <3> QED
      BY <1>3, <1>5, <3>1, <3>2, JobTold
  <2> QED
    BY <1>1, <1>3, <1>4, <2>1, <2>2 DEF CarveInv
<1>6. CASE /\ told' = told \cup {[hit |-> hit, no |-> job.no]} /\ stats' = stats
           /\ job' = [job EXCEPT !.hit = @ + 1, !.step = "bin", !.n = @ + 1]
  <2>1. /\ IsJob(job') /\ job'.seq = job.seq /\ job'.hit = job.hit + 1 /\ job'.n = job.n + 1
        /\ job'.step = "bin" /\ job.hit \in Nat \ {0} /\ job.no \in Nat
    <3>1. PICK k : k = job'
      OBVIOUS
    <3>2. PICK n \in Nat : n = job.n + 1
      BY <1>3 DEF IsJob
    <3> QED
      BY ZenonT(30), <1>3, <1>6, <3>1, <3>2, JobTold
  <2>2. Used' = u + 1
    BY <1>1, <1>2, <1>3, <2>1 DEF Used
  <2>3. ASSUME stats.suppressed = 0 PROVE Standing(told', bin, sidecar, u + 1)
    <3>1. SUFFICES ASSUME NEW t \in told'
                   PROVE  t.no \in Nat /\ t.no <= u + 1 /\ (t.no # 0 => Holds(bin, sidecar, t.no, t.hit))
      BY DEF Standing
    <3>2. CASE t \in told
      BY <1>3, <2>3, <3>2 DEF Standing
    <3>3. CASE t = [hit |-> hit, no |-> job.no]
      <4>1. job.no = 0 \/ (job.no = u + 1 /\ Holds(bin, sidecar, u + 1, hit))
        BY <1>1, <1>3, <2>3 DEF AtHand
      <4>2. t.no = job.no /\ t.hit = hit
        BY <3>3
      <4> QED
        BY <1>3, <4>1, <4>2
    <3> QED
      BY <1>6, <3>2, <3>3
  <2>4. ASSUME stats.suppressed = 0 PROVE Unused(sidecar, (u + 1) + 1) /\ (u + 1) + 1 \notin DOMAIN sidecar
    BY <1>3, <2>4 DEF Unused
  <2>5. ASSUME stats.suppressed = 0 PROVE AtHand(Used)'
    <3>1. job.n = job.hit - 1
      BY <1>3, <2>5 DEF AtHand
    <3> QED
      BY <1>1, <2>1, <2>2, <2>4, <2>5, <3>1 DEF AtHand
  <2> QED
    BY <1>1, <1>3, <1>4, <1>6, <2>1, <2>2, <2>3, <2>4, <2>5 DEF CarveInv
<1> QED
  BY <1>5, <1>6 DEF Tell

LEMMA EndScanCarves ==
  ASSUME CarveInv, EndScan PROVE CarveInv'
<1>1. /\ pc = "scan" /\ job.step = "bin" /\ seqBase' = seqBase + job.n /\ pc' # "scan"
      /\ UNCHANGED <<bin, sidecar, told>>
  BY DEF EndScan, carves, NextBase
<1>2. IsJob(job) /\ seqBase \in Nat /\ stats \in Stats
  BY <1>1 DEF CarveInv
<1>3. job.n \in Nat /\ job.hit \in Nat \ {0}
  BY <1>2 DEF IsJob
<1>4. stats' \in Stats /\ stats'.suppressed = stats.suppressed
  <2>1. PICK s : s = [stats EXCEPT !.detections = @ + job.n]
    OBVIOUS
  <2>2. s \in Stats /\ s.suppressed = stats.suppressed
    BY <1>2, <1>3, <2>1 DEF Stats
  <2>3. stats' = s \/ stats' = [s EXCEPT !.failed = @ + 1]
    BY <2>1 DEF EndScan
  <2> QED
    BY <2>2, <2>3 DEF Stats
<1>5. Used = seqBase + (job.hit - 1) /\ Used' = seqBase + job.n /\ seqBase' \in Nat
  BY <1>1, <1>2, <1>3 DEF Used
<1>6. ASSUME stats.suppressed = 0
      PROVE  /\ Standing(told, bin, sidecar, Used) /\ Unused(sidecar, Used) /\ Used' = Used
             /\ Unused(sidecar, Used + 1)
  <2>1. Standing(told, bin, sidecar, Used) /\ Unused(sidecar, Used + 1) /\ AtHand(Used)
    BY <1>1, <1>6 DEF CarveInv
  <2>2. job.n = job.hit - 1 /\ Used + 1 \notin DOMAIN sidecar /\ Used \in Nat
    BY <1>1, <1>2, <1>3, <1>5, <2>1 DEF AtHand
  <2>3. Unused(sidecar, Used)
    BY <2>1, <2>2 DEF Unused
  <2> QED
    BY <1>5, <2>1, <2>2, <2>3
<1> QED
  BY <1>1, <1>4, <1>5, <1>6 DEF CarveInv

(* A reported carve and its sidecar hold the hit they were reported with, as *)
(* long as no finding was suppressed: each hit takes the next number, and    *)
(* the next file starts where this one ended (scanFile, carveDetection).     *)
THEOREM CarvesStayApart == SweepSpec => []CarvesDiffer
<1>1. ASSUME CarveInv, [SweepNext]_sweepVars PROVE CarveInv'
  <2>1. CASE Start
    <3>1. pc # "scan" /\ UNCHANGED <<seqBase, carves, told>>
      BY <2>1 DEF Start
    <3>2. \/ pc' # "scan" /\ (stats' = stats \/ Bump("failed"))
          \/ ScanFile(Resolved)
      BY <2>1 DEF Start, Recurse
    <3> QED
      BY <1>1, <3>1, <3>2, ScanFileCarves, PassesCarves
  <2>2. CASE SkipEntry
    <3>1. pc # "scan" /\ pc' # "scan" /\ UNCHANGED <<seqBase, carves, told>> /\ Bump("skipped")
      BY <2>2 DEF SkipEntry, AtEntry, Reading, count
    <3> QED
      BY <1>1, <3>1, PassesCarves
  <2>3. CASE EnterDir
    <3>1. pc # "scan" /\ pc' # "scan" /\ UNCHANGED <<seqBase, carves, told>> /\ (stats' = stats \/ Bump("failed"))
      BY <2>3 DEF EnterDir, Enterable, AtEntry, Reading, count, Recurse
    <3> QED
      BY <1>1, <3>1, PassesCarves
  <2>4. CASE EnterFile
    <3>1. pc # "scan" /\ UNCHANGED <<seqBase, carves, told>> /\ ScanFile(child)
      BY <2>4 DEF EnterFile, Enterable, AtEntry, Reading
    <3> QED
      BY <1>1, <3>1, ScanFileCarves
  <2>5. CASE FollowLink
    <3>1. pc # "scan" /\ UNCHANGED <<seqBase, carves, told>>
      BY <2>5 DEF FollowLink, Enterable, AtEntry, Reading
    <3>2. \/ pc' # "scan" /\ (stats' = stats \/ Bump("failed") \/ Bump("skipped"))
          \/ ScanFile(target)
      BY <2>5, <3>1 DEF FollowLink, Recurse
    <3> QED
      BY <1>1, <3>1, <3>2, ScanFileCarves, PassesCarves
  <2>6. CASE Return \/ Finish \/ Stop
    <3>1. pc # "scan" /\ pc' # "scan" /\ UNCHANGED <<seqBase, carves, told>> /\ stats' = stats
      BY <2>6 DEF Return, Finish, Stop, Reading, count
    <3> QED
      BY <1>1, <3>1, PassesCarves
  <2>7. CASE CarveBin
    BY <1>1, <2>7, CarveBinCarves
  <2>8. CASE CarveSalvage
    BY <1>1, <2>8, CarveSalvageCarves
  <2>9. CASE CarveSidecar
    BY <1>1, <2>9, CarveSidecarCarves
  <2>10. CASE Tell
    BY <1>1, <2>10, TellCarves
  <2>11. CASE EndScan
    BY <1>1, <2>11, EndScanCarves
  <2>12. CASE Cancel \/ UNCHANGED sweepVars
    <3>1. UNCHANGED <<pc, job, seqBase, stats, bin, sidecar, told>>
      BY <2>12 DEF Cancel, sweepVars, carves, count
    <3>2. Used' = Used /\ AtHand(Used)' = AtHand(Used)
      BY <3>1 DEF Used, AtHand, hit
    <3> QED
      BY <1>1, <3>1, <3>2 DEF CarveInv
  <2> QED
    BY <1>1, <2>1, <2>2, <2>3, <2>4, <2>5, <2>6, <2>7, <2>8, <2>9, <2>10, <2>11, <2>12
       DEF SweepNext, Sweep, Pipeline
<1>2. CarveInv => CarvesDiffer
  <2>1. SUFFICES ASSUME CarveInv, NEW t \in told, t.no # 0, ~(stats.suppressed > 0)
                 PROVE  At(bin, t.no) = t.hit /\ At(sidecar, t.no) \in {None, t.hit}
    BY DEF CarvesDiffer
  <2>2. stats.suppressed = 0
    BY <2>1 DEF CarveInv, Stats
  <2> QED
    BY <2>1, <2>2 DEF CarveInv, Standing, Holds
<1> QED
  BY <1>1, <1>2, CarveInit, PTL DEF SweepSpec

-----------------------------------------------------------------------------
(* What a sweep has met: each directory with the depth it was read at.       *)

OnStack == {<<stack[i].dir, stack[i].depth>> : i \in 1 .. Len(stack)}
Goal(p) == IF Mode[p] = "link" THEN LinkTo[p] ELSE p

(* d is among the directories in K, as the one read at depth e is to be: at  *)
(* that depth, or at any when there is no limit.                             *)
ReadAs(K, d, e) ==
  IF maxDepth > 0 THEN <<d, e>> \in K \/ d \in cycles ELSE \E x : <<d, x>> \in K

(* What the policy leads to by an entry p at depth e has been scanned, or is *)
(* among the directories in K.                                               *)
Followed(K, p, e) ==
  /\ p \notin Own /\ Goal(p) \notin Own /\ (Mode[p] = "link" => FollowSymlinks)
  /\ ~(maxDepth > 0 /\ e > maxDepth)
  => /\ Goal(p) \in Plain => Goal(p) \in scanned \cup Shut
     /\ Goal(p) \in Dirs \ Shut => ReadAs(K, Goal(p), e)

(* C: the directories read to their end.                                     *)
Closed(C, K) ==
  /\ C \subseteq Dirs \X Nat
  /\ \A p \in C : \A k \in DOMAIN Child[p[1]] : Followed(K, Child[p[1]][k], p[2] + 1)
Behind(K) ==
  \A i \in 1 .. Len(stack) : \A k \in DOMAIN Child[stack[i].dir] : \A p, e :
    k < stack[i].next /\ p = Child[stack[i].dir][k] /\ e = stack[i].depth + 1 => Followed(K, p, e)
Anchored(K) ==
  /\ maxDepth = 0 => \A v \in visited \ Shut : \E x : <<v, x>> \in K
  /\ pc \notin {"start", "refused"} /\ Resolved \in Dirs \ Shut => <<Resolved, 0>> \in K
CoverInv ==
  /\ stack \in Seq(Frames) /\ maxDepth \in Nat
  /\ pc \in {"start", "done"} => stack = <<>>
  /\ visited \subseteq Dirs /\ (pc = "start" => visited = {})
  /\ \E C : Closed(C, C \cup OnStack) /\ Behind(C \cup OnStack) /\ Anchored(C \cup OnStack)

LEMMA FollowedGrows ==
  ASSUME NEW K, NEW K2, K \subseteq K2, NEW p, NEW e, Followed(K, p, e),
         maxDepth' = maxDepth, scanned \subseteq scanned', cycles \subseteq cycles'
  PROVE  Followed(K2, p, e)'
<1>1. \A d : ReadAs(K, d, e) => ReadAs(K2, d, e)'
  BY DEF ReadAs
<1> QED
  BY <1>1 DEF Followed, Goal

(* The stack after an entry, or one frame more, holds what it held.          *)
LEMMA AdvancedFrames ==
  ASSUME stack \in Seq(Frames), stack # <<>>
  PROVE  /\ Advanced \in Seq(Frames) /\ Len(Advanced) = Len(stack) /\ Len(stack) \in Nat
         /\ \A i \in 1 .. Len(stack) :
              /\ Advanced[i].dir = stack[i].dir /\ Advanced[i].depth = stack[i].depth
              /\ Advanced[i].next = IF i = Len(stack) THEN stack[i].next + 1 ELSE stack[i].next
<1>1. PICK n \in Nat : Len(stack) = n /\ n # 0
  BY EmptySeq
<1>2. n \in 1 .. Len(stack) /\ stack[n] \in Frames
  BY <1>1
<1>3. PICK fr : fr = [stack[n] EXCEPT !.next = @ + 1]
  OBVIOUS
<1>4. fr \in Frames /\ fr.dir = stack[n].dir /\ fr.depth = stack[n].depth /\ fr.next = stack[n].next + 1
  <2>1. PICK f \in Frames : f = stack[n]
    BY <1>2
  <2>2. PICK x \in Nat \ {0} : x = f.next
    BY DEF Frames
  <2>3. fr = [f EXCEPT !.next = x + 1] /\ x + 1 \in Nat \ {0}
    BY <1>3, <2>1, <2>2
  <2> QED
    BY <2>1, <2>2, <2>3 DEF Frames
<1>5. Advanced = [stack EXCEPT ![n] = fr]
  BY <1>1, <1>3 DEF Advanced
<1>6. /\ Advanced \in Seq(Frames) /\ Len(Advanced) = Len(stack)
      /\ \A i \in 1 .. Len(stack) : Advanced[i] = IF i = n THEN fr ELSE stack[i]
  BY <1>1, <1>2, <1>4, <1>5, ExceptSeq
<1> QED
  BY <1>1, <1>4, <1>6

(* A step that takes the entry at hand and puts the pairs P on the stack: a  *)
(* directory, or nothing.                                                    *)
Pushes(P) ==
  \/ stack' = Advanced /\ P = {}
  \/ \E fr \in Frames : fr.next = 1 /\ stack' = Append(Advanced, fr) /\ P = {<<fr.dir, fr.depth>>}
Settles(P) ==
  \A K, p, e : /\ P \subseteq K /\ p = child /\ e = depth
               /\ maxDepth = 0 => \A v \in visited \ Shut : \E x : <<v, x>> \in K
               => Followed(K, p, e)'
Marks(P) == visited' \subseteq Dirs /\ \A v \in visited' \ Shut : v \in visited \/ \E x : <<v, x>> \in P

LEMMA EntryCovers ==
  ASSUME CoverInv, DescentInv, AtEntry, NEW P, Pushes(P), Settles(P), Marks(P),
         pc' \notin {"start", "done"},
         maxDepth' = maxDepth, scanned \subseteq scanned', cycles \subseteq cycles'
  PROVE  CoverInv'
<1>1. PICK C : Closed(C, C \cup OnStack) /\ Behind(C \cup OnStack) /\ Anchored(C \cup OnStack)
  BY DEF CoverInv
<1>2. PICK K : K = C \cup OnStack
  OBVIOUS
<1>3. PICK K2 : K2 = K \cup P
  OBVIOUS
<1>4. /\ stack \in Seq(Frames) /\ stack # <<>> /\ pc = "sweep"
      /\ stack[Len(stack)].next \in DOMAIN Child[stack[Len(stack)].dir]
      /\ child = Child[stack[Len(stack)].dir][stack[Len(stack)].next]
      /\ depth = stack[Len(stack)].depth + 1
  BY EntryIs DEF CoverInv, depth, frame
<1>5. PICK n \in Nat \ {0} : Len(stack) = n
  BY <1>4, EmptySeq
<1>6. /\ Advanced \in Seq(Frames) /\ Len(Advanced) = n
      /\ \A i \in 1 .. n :
           /\ Advanced[i].dir = stack[i].dir /\ Advanced[i].depth = stack[i].depth
           /\ Advanced[i].next = IF i = n THEN stack[i].next + 1 ELSE stack[i].next
  BY <1>4, <1>5, AdvancedFrames
<1>7. \A i \in 1 .. n : stack[i].next \in Nat
  <2>1. \A i \in 1 .. n : stack[i] \in Frames
    BY <1>4, <1>5
  <2> QED
    BY <2>1 DEF Frames
<1>8. /\ stack' \in Seq(Frames) /\ \A i \in 1 .. n : stack'[i] = Advanced[i]
      /\ \/ Len(stack') = n /\ P = {}
         \/ /\ Len(stack') = n + 1 /\ P = {<<stack'[n + 1].dir, stack'[n + 1].depth>>}
            /\ stack'[n + 1].next = 1
  <2>1. CASE stack' = Advanced /\ P = {}
    BY <1>6, <2>1
  <2>2. CASE \E fr \in Frames : /\ fr.next = 1 /\ stack' = Append(Advanced, fr)
                                /\ P = {<<fr.dir, fr.depth>>}
    <3>1. PICK fr \in Frames : /\ fr.next = 1 /\ stack' = Append(Advanced, fr)
                               /\ P = {<<fr.dir, fr.depth>>}
      BY <2>2
    <3>2. /\ stack' \in Seq(Frames) /\ Len(stack') = n + 1 /\ stack'[n + 1] = fr
          /\ \A i \in 1 .. n : stack'[i] = Advanced[i]
      BY <1>6, <3>1, AppendProperties
    <3> QED
      BY <3>1, <3>2
  <2> QED
    BY <2>1, <2>2 DEF Pushes
<1>9. OnStack' = OnStack \cup P
  <2>1. OnStack = {<<stack[i].dir, stack[i].depth>> : i \in 1 .. n}
    BY <1>5 DEF OnStack
  <2>2. CASE Len(stack') = n /\ P = {}
    <3>1. \A i \in 1 .. n : stack'[i].dir = stack[i].dir /\ stack'[i].depth = stack[i].depth
      BY <1>6, <1>8
    <3>2. OnStack' = {<<stack'[i].dir, stack'[i].depth>> : i \in 1 .. n}
      BY <2>2 DEF OnStack
    <3> QED
      BY <2>1, <2>2, <3>1, <3>2
  <2>3. CASE Len(stack') = n + 1 /\ P = {<<stack'[n + 1].dir, stack'[n + 1].depth>>}
    <3>1. 1 .. n + 1 = (1 .. n) \cup {n + 1}
      OBVIOUS
    <3>2. OnStack' = {<<stack'[i].dir, stack'[i].depth>> : i \in 1 .. n} \cup P
      BY <2>3, <3>1 DEF OnStack
    <3>3. \A i \in 1 .. n : stack'[i].dir = stack[i].dir /\ stack'[i].depth = stack[i].depth
      BY <1>6, <1>8
    <3>4. {<<stack'[i].dir, stack'[i].depth>> : i \in 1 .. n} = OnStack
      BY <2>1, <3>3
    <3> QED
      BY <3>2, <3>4
  <2> QED
    BY <1>8, <2>2, <2>3
<1>10. C \cup OnStack' = K2
  BY <1>2, <1>3, <1>9
<1>11. \A p, e : Followed(K, p, e) => Followed(K2, p, e)'
  BY <1>3, FollowedGrows
<1>12. ASSUME NEW p, NEW e, p = child, e = depth PROVE Followed(K2, p, e)'
  BY <1>1, <1>2, <1>3, <1>12 DEF Anchored, Settles
<1>13. Closed(C, K2)'
  BY <1>1, <1>2, <1>11 DEF Closed
<1>14. Behind(K2)'
  <2>1. SUFFICES ASSUME NEW i \in 1 .. Len(stack'), NEW k \in DOMAIN Child[stack'[i].dir], NEW p, NEW e,
                        k < stack'[i].next, p = Child[stack'[i].dir][k], e = stack'[i].depth + 1
                 PROVE  Followed(K2, p, e)'
    BY DEF Behind
  <2>2. CASE i \notin 1 .. n
    <3>1. stack'[i].next = 1 /\ stack'[i] \in Frames
      BY <1>8, <2>2
    <3>2. Child[stack'[i].dir] \in Seq(Paths)
      BY <3>1, DirAssumption DEF Frames
    <3> QED
      BY <2>1, <3>1, <3>2
  <2>3. CASE i \in 1 .. n
    <3>1. /\ stack'[i].dir = stack[i].dir /\ stack'[i].depth = stack[i].depth
          /\ stack'[i].next = IF i = n THEN stack[i].next + 1 ELSE stack[i].next
      BY <1>6, <1>8, <2>3
    <3>2. stack[i] \in Frames /\ k \in Nat /\ stack[i].next \in Nat
      <4>1. stack[i] \in Frames
        BY <1>4, <1>5, <2>3
      <4>2. Child[stack[i].dir] \in Seq(Paths)
        BY <4>1, DirAssumption DEF Frames
      <4> QED
        BY <1>7, <2>3, <3>1, <4>1, <4>2
    <3>3. CASE k < stack[i].next
      <4>1. Followed(K, p, e)
        BY <1>1, <1>2, <1>5, <2>1, <2>3, <3>1, <3>3 DEF Behind
      <4> QED
        BY <1>11, <4>1
    <3>4. CASE ~(k < stack[i].next)
      <4>1. i = n /\ k = stack[n].next
        BY <2>1, <3>1, <3>2, <3>4
      <4> QED
        BY <1>4, <1>5, <1>12, <2>1, <3>1, <4>1
    <3> QED
      BY <3>3, <3>4
  <2> QED
    BY <2>2, <2>3
<1>15. Anchored(K2)'
  <2>1. ASSUME maxDepth' = 0, NEW v \in visited' \ Shut PROVE \E x : <<v, x>> \in K2
    BY <1>1, <1>2, <1>3, <2>1 DEF Anchored, Marks
  <2>2. Resolved' = Resolved
    BY DEF Resolved
  <2>3. Resolved \in Dirs \ Shut => <<Resolved, 0>> \in K2
    BY <1>1, <1>2, <1>3, <1>4 DEF Anchored
  <2> QED
    BY <2>1, <2>2, <2>3 DEF Anchored
<1>16. Closed(C, C \cup OnStack)' /\ Behind(C \cup OnStack)' /\ Anchored(C \cup OnStack)'
  BY <1>10, <1>13, <1>14, <1>15 DEF Closed, Behind, Anchored
<1> QED
  BY <1>8, <1>16 DEF CoverInv, Marks

(* A step that leaves the stack alone.                                       *)
LEMMA RestCovers ==
  ASSUME CoverInv, stack' = stack, visited' = visited, maxDepth' = maxDepth,
         scanned \subseteq scanned', cycles \subseteq cycles',
         pc' = "start" => pc = "start", pc' = "done" => stack = <<>>,
         pc = "start" => pc' = "start" \/ pc' = "refused" \/ Resolved \notin Dirs \ Shut,
         pc = "refused" => pc' = "refused"
  PROVE  CoverInv'
<1>1. PICK C : Closed(C, C \cup OnStack) /\ Behind(C \cup OnStack) /\ Anchored(C \cup OnStack)
  BY DEF CoverInv
<1>2. PICK K : K = C \cup OnStack
  OBVIOUS
<1>3. C \cup OnStack' = K
  BY <1>2 DEF OnStack
<1>4. \A p, e : Followed(K, p, e) => Followed(K, p, e)'
  BY FollowedGrows
<1>5. Closed(C, K)' /\ Behind(K)'
  BY <1>1, <1>2, <1>4 DEF Closed, Behind
<1>6. Anchored(K)'
  BY <1>1, <1>2 DEF Anchored, Resolved
<1>7. Closed(C, C \cup OnStack)' /\ Behind(C \cup OnStack)' /\ Anchored(C \cup OnStack)'
  BY <1>3, <1>5, <1>6 DEF Closed, Behind, Anchored
<1> QED
  BY <1>7 DEF CoverInv

(* The directory on top has been read to its end.                            *)
LEMMA ReturnCovers ==
  ASSUME CoverInv, stack # <<>>, stack' = SubSeq(stack, 1, Len(stack) - 1),
         frame.next > Len(Child[frame.dir]), pc' = pc, pc = "sweep",
         UNCHANGED <<visited, maxDepth, scanned, cycles>>
  PROVE  CoverInv'
<1>1. PICK C : Closed(C, C \cup OnStack) /\ Behind(C \cup OnStack) /\ Anchored(C \cup OnStack)
  BY DEF CoverInv
<1>2. PICK K : K = C \cup OnStack
  OBVIOUS
<1>3. stack \in Seq(Frames)
  BY DEF CoverInv
<1>4. PICK n \in Nat \ {0} : Len(stack) = n
  BY <1>3, EmptySeq
<1>5. PICK f \in Frames : f = stack[n]
  BY <1>3, <1>4
<1>6. f.dir \in Dirs /\ f.next \in Nat /\ f.depth \in Nat /\ f.next > Len(Child[f.dir])
  BY <1>4, <1>5 DEF frame, Frames
<1>7. PICK D : D = C \cup {<<f.dir, f.depth>>}
  OBVIOUS
<1>8. /\ stack' \in Seq(Frames) /\ Len(stack') = n - 1
      /\ \A i \in 1 .. n - 1 : stack'[i] = stack[i]
  BY <1>3, <1>4
<1>9. D \cup OnStack' = K
  <2>1. 1 .. n = (1 .. n - 1) \cup {n}
    OBVIOUS
  <2>2. OnStack = {<<stack[i].dir, stack[i].depth>> : i \in 1 .. n - 1} \cup {<<f.dir, f.depth>>}
    BY <1>4, <1>5, <2>1 DEF OnStack
  <2>3. OnStack' = {<<stack[i].dir, stack[i].depth>> : i \in 1 .. n - 1}
    BY <1>8 DEF OnStack
  <2> QED
    BY <1>2, <1>7, <2>2, <2>3
<1>10. \A p, e : Followed(K, p, e) => Followed(K, p, e)'
  BY FollowedGrows
<1>11. Closed(D, K)
  <2>1. ASSUME NEW k \in DOMAIN Child[f.dir] PROVE Followed(K, Child[f.dir][k], f.depth + 1)
    <3>1. k \in Nat /\ k < f.next
      <4>1. Child[f.dir] \in Seq(Paths)
        BY <1>6, DirAssumption
      <4> QED
        BY <1>6, <2>1, <4>1
    <3>2. n \in 1 .. Len(stack)
      BY <1>4
    <3> QED
      BY <1>1, <1>2, <1>5, <3>1, <3>2 DEF Behind
  <2>2. PICK q : q = <<f.dir, f.depth>>
    OBVIOUS
  <2>3. \A k \in DOMAIN Child[q[1]] : Followed(K, Child[q[1]][k], q[2] + 1)
    BY <2>1, <2>2
  <2>4. q \in Dirs \X Nat /\ D = C \cup {q}
    BY <1>6, <1>7, <2>2
  <2> QED
    BY <1>1, <1>2, <2>3, <2>4 DEF Closed
<1>12. Closed(D, K)'
  BY <1>10, <1>11 DEF Closed
<1>13. Behind(K)'
  <2>1. SUFFICES ASSUME NEW i \in 1 .. Len(stack'), NEW k \in DOMAIN Child[stack'[i].dir], NEW p, NEW e,
                        k < stack'[i].next, p = Child[stack'[i].dir][k], e = stack'[i].depth + 1
                 PROVE  Followed(K, p, e)'
    BY DEF Behind
  <2>2. i \in 1 .. n - 1 /\ i \in 1 .. Len(stack) /\ stack'[i] = stack[i]
    BY <1>4, <1>8
  <2>3. Followed(K, p, e)
    BY <1>1, <1>2, <2>1, <2>2 DEF Behind
  <2> QED
    BY <1>10, <2>3
<1>14. Anchored(K)'
  BY <1>1, <1>2 DEF Anchored, Resolved
<1>15. Closed(D, D \cup OnStack)' /\ Behind(D \cup OnStack)' /\ Anchored(D \cup OnStack)'
  BY <1>9, <1>12, <1>13, <1>14 DEF Closed, Behind, Anchored
<1> QED
  BY <1>8, <1>15 DEF CoverInv

LEMMA CoverInit == SweepInit => CoverInv
<1> SUFFICES ASSUME SweepInit PROVE CoverInv
  OBVIOUS
<1>1. stack = <<>> /\ maxDepth \in Nat /\ visited = {} /\ pc = "start"
  BY SizesAssumption DEF SweepInit
<1>2. stack \in Seq(Frames) /\ Len(stack) = 0
  BY <1>1
<1>3. Closed({}, {} \cup OnStack) /\ Behind({} \cup OnStack) /\ Anchored({} \cup OnStack)
  BY <1>1, <1>2 DEF Closed, Behind, Anchored
<1> QED
  BY <1>1, <1>2, <1>3 DEF CoverInv

LEMMA StartCovers ==
  ASSUME CoverInv, Start PROVE CoverInv'
<1>1. stack = <<>> /\ Advanced = <<>> /\ visited = {} /\ pc = "start" /\ maxDepth' = maxDepth /\ cycles' = cycles
      /\ stack \in Seq(Frames) /\ maxDepth \in Nat
  BY DEF CoverInv, Start, Advanced, fixed
<1>2. CASE Mode[Top] = "link" /\ (~FollowSymlinks \/ Resolved \notin Paths)
  <2>1. pc' = "refused" /\ stack' = stack /\ visited' = visited /\ scanned' = scanned
    BY <1>2 DEF Start
  <2> QED
    BY <1>1, <2>1, RestCovers
<1>3. CASE ~(Mode[Top] = "link" /\ (~FollowSymlinks \/ Resolved \notin Paths)) /\ Resolved \notin Dirs
  <2>1. ScanFile(Resolved) /\ stack' = stack /\ visited' = visited
    BY <1>3 DEF Start
  <2>2. pc' \in {"sweep", "scan"} /\ scanned \subseteq scanned'
    BY <2>1 DEF ScanFile
  <2> QED
    BY <1>1, <1>3, <2>1, <2>2, RestCovers
<1>4. CASE ~(Mode[Top] = "link" /\ (~FollowSymlinks \/ Resolved \notin Paths)) /\ Resolved \in Dirs
  <2>1. /\ visited' = (IF FollowSymlinks THEN {Resolved} ELSE {}) /\ Recurse(Resolved, 0) /\ pc' = "sweep"
        /\ scanned' = scanned /\ Resolved' = Resolved
    BY <1>4 DEF Start, Resolved
  <2>4. pc' \notin {"start", "done"} /\ maxDepth' \in Nat /\ visited' \subseteq Dirs
    BY <1>1, <1>4, <2>1
  <2>2. CASE Resolved \in Shut
    <3>1. stack' = <<>>
      BY <1>1, <2>1, <2>2 DEF Recurse
    <3>2. stack' \in Seq(Frames) /\ Len(stack') = 0
      BY <3>1
    <3>3. Closed({}, {} \cup OnStack)' /\ Behind({} \cup OnStack)' /\ Anchored({} \cup OnStack)'
      BY <1>1, <2>1, <2>2, <3>2 DEF Closed, Behind, Anchored
    <3>4. \E C : Closed(C, C \cup OnStack)' /\ Behind(C \cup OnStack)' /\ Anchored(C \cup OnStack)'
      BY <3>3
    <3> QED
      BY <2>4, <3>2, <3>4 DEF CoverInv
  <2>3. CASE Resolved \notin Shut
    <3>1. PICK fr : fr = [dir |-> Resolved, next |-> 1, depth |-> 0]
      OBVIOUS
    <3>2. fr \in Frames /\ fr.dir = Resolved /\ fr.depth = 0 /\ fr.next = 1 /\ stack' = <<fr>>
      BY <1>1, <1>4, <2>1, <2>3, <3>1 DEF Recurse, Frames
    <3>3. stack' \in Seq(Frames) /\ Len(stack') = 1 /\ stack'[1] = fr
      BY <3>2
    <3>4. OnStack' = {<<Resolved, 0>>}
      BY <3>2, <3>3 DEF OnStack
    <3>5. Behind({} \cup OnStack)'
      <4>1. SUFFICES ASSUME NEW i \in 1 .. Len(stack'), NEW k \in DOMAIN Child[stack'[i].dir], k < stack'[i].next
                     PROVE  FALSE
        BY DEF Behind
      <4>2. stack'[i].next = 1 /\ stack'[i].dir \in Dirs
        BY <1>4, <3>2, <3>3
      <4>3. Child[stack'[i].dir] \in Seq(Paths)
        BY <4>2, DirAssumption
      <4> QED
        BY <4>1, <4>2, <4>3
    <3>6. Closed({}, {} \cup OnStack)'
      BY DEF Closed
    <3>7. Anchored({} \cup OnStack)'
      BY <2>1, <3>4 DEF Anchored
    <3>8. \E C : Closed(C, C \cup OnStack)' /\ Behind(C \cup OnStack)' /\ Anchored(C \cup OnStack)'
      BY <3>5, <3>6, <3>7
    <3> QED
      BY <2>4, <3>3, <3>8 DEF CoverInv
  <2> QED
    BY <2>2, <2>3
<1> QED
  BY <1>2, <1>3, <1>4

LEMMA SkipCovers ==
  ASSUME CoverInv, DescentInv, SkipEntry PROVE CoverInv'
<1>1. /\ AtEntry /\ stack' = Advanced /\ UNCHANGED <<pc, visited, scanned, cycles, maxDepth>> /\ pc = "sweep"
      /\ \/ TooDeep \/ IsOwnOutput(child) \/ Mode[child] = "special"
         \/ Mode[child] = "link" /\ ~FollowSymlinks
  BY DEF SkipEntry, AtEntry, Reading, count, fixed
<1>2. ASSUME NEW K, NEW p, NEW e, p = child, e = depth PROVE Followed(K, p, e)'
  BY <1>1, <1>2 DEF Followed, Goal, TooDeep, IsOwnOutput, Plain, Dirs
<1>3. Pushes({}) /\ Settles({}) /\ Marks({})
  BY <1>1, <1>2 DEF Pushes, Settles, Marks, CoverInv
<1> QED
  BY <1>1, <1>3, EntryCovers

LEMMA EnterDirCovers ==
  ASSUME CoverInv, DescentInv, EnterDir PROVE CoverInv'
<1>1. /\ AtEntry /\ Mode[child] = "dir" /\ Recurse(child, depth) /\ pc = "sweep"
      /\ UNCHANGED <<pc, visited, scanned, cycles, maxDepth>>
  BY DEF EnterDir, Enterable, AtEntry, Reading, count, fixed
<1>2. child \in Dirs /\ depth \in Nat
  BY <1>1, EntryIs, DirAssumption, ElementOfSeq DEF Dirs, depth, frame
<1>3. CASE child \in Shut
  <2>1. stack' = Advanced
    BY <1>1, <1>3 DEF Recurse
  <2>2. ASSUME NEW K, NEW p, NEW e, p = child, e = depth PROVE Followed(K, p, e)'
    BY <1>1, <1>3, <2>2 DEF Followed, Goal, Plain
  <2>3. Pushes({}) /\ Settles({}) /\ Marks({})
    BY <1>1, <2>1, <2>2 DEF Pushes, Settles, Marks, CoverInv
  <2> QED
    BY <1>1, <2>3, EntryCovers
<1>4. CASE child \notin Shut
  <2>1. PICK fr : fr = [dir |-> child, next |-> 1, depth |-> depth]
    OBVIOUS
  <2>2. fr \in Frames /\ fr.next = 1 /\ fr.dir = child /\ fr.depth = depth /\ stack' = Append(Advanced, fr)
    BY <1>1, <1>2, <1>4, <2>1 DEF Recurse, Frames
  <2>3. PICK P : P = {<<fr.dir, fr.depth>>}
    OBVIOUS
  <2>4. ASSUME NEW K, NEW p, NEW e, p = child, e = depth, P \subseteq K PROVE Followed(K, p, e)'
    BY <1>1, <2>2, <2>3, <2>4 DEF Followed, Goal, Plain, ReadAs
  <2>5. Pushes(P) /\ Settles(P) /\ Marks(P)
    BY <1>1, <2>2, <2>3, <2>4 DEF Pushes, Settles, Marks, CoverInv
  <2> QED
    BY <1>1, <2>5, EntryCovers
<1> QED
  BY <1>3, <1>4

LEMMA EnterFileCovers ==
  ASSUME CoverInv, DescentInv, EnterFile PROVE CoverInv'
<1>1. /\ AtEntry /\ Mode[child] = "file" /\ ScanFile(child) /\ stack' = Advanced
      /\ UNCHANGED <<visited, cycles, maxDepth>>
  BY DEF EnterFile, Enterable, fixed
<1>2. /\ pc' \in {"sweep", "scan"} /\ scanned \subseteq scanned' /\ child \in scanned' \cup Shut
  BY <1>1 DEF ScanFile
<1>3. ASSUME NEW K, NEW p, NEW e, p = child, e = depth PROVE Followed(K, p, e)'
  BY <1>1, <1>2, <1>3 DEF Followed, Goal, Dirs
<1>4. Pushes({}) /\ Settles({}) /\ Marks({})
  BY <1>1, <1>3 DEF Pushes, Settles, Marks, CoverInv
<1> QED
  BY <1>1, <1>2, <1>4, EntryCovers

LEMMA FollowLinkCovers ==
  ASSUME CoverInv, DescentInv, FollowLink PROVE CoverInv'
<1>1. AtEntry /\ Mode[child] = "link" /\ pc = "sweep" /\ maxDepth' = maxDepth /\ pc' \in {"sweep", "scan"}
      /\ scanned \subseteq scanned' /\ cycles \subseteq cycles'
  BY DEF FollowLink, Enterable, AtEntry, Reading, fixed, ScanFile
<1>2. Goal(child) = target /\ depth \in Nat
  BY <1>1, EntryIs DEF Goal, target, depth, frame
<1>3. CASE /\ stack' = Advanced /\ visited' = visited
           /\ \/ target \notin Paths
              \/ IsOwnOutput(target) \/ Mode[target] = "special"
  <2>1. ASSUME NEW K, NEW p, NEW e, p = child, e = depth PROVE Followed(K, p, e)'
    BY <1>2, <1>3, <2>1 DEF Followed, Goal, IsOwnOutput, Plain, Dirs
  <2>2. Pushes({}) /\ Settles({}) /\ Marks({})
    BY <1>3, <2>1 DEF Pushes, Settles, Marks, CoverInv
  <2> QED
    BY <1>1, <2>2, EntryCovers
<1>4. CASE /\ stack' = Advanced /\ visited' = visited
           /\ target \in visited /\ cycles' = cycles \cup {target}
  <2>1. ASSUME NEW K, NEW p, NEW e, p = child, e = depth, target \notin Plain,
               maxDepth = 0 => \A v \in visited \ Shut : \E x : <<v, x>> \in K
        PROVE  Followed(K, p, e)'
    <3>1. maxDepth \in Nat
      BY DEF CoverInv
    <3>2. PICK t : t = target
      OBVIOUS
    <3>3. Goal(p) = t /\ t \notin Plain
      BY <1>2, <2>1, <3>2
    <3>4. t \in visited /\ t \in cycles' /\ maxDepth' = maxDepth
      BY <1>1, <1>4, <3>2
    <3>5. t \in Dirs \ Shut => ReadAs(K, t, e)'
      BY <2>1, <3>1, <3>4 DEF ReadAs
    <3> QED
      BY <3>3, <3>5 DEF Followed, Goal
  <2>2. target \notin Plain
    BY <1>4 DEF CoverInv, Plain, Dirs
  <2>3. Pushes({}) /\ Settles({}) /\ Marks({})
    BY <1>4, <2>1, <2>2 DEF Pushes, Settles, Marks, CoverInv
  <2> QED
    BY <1>1, <2>3, EntryCovers
<1>5. CASE /\ target \in Dirs \ visited /\ visited' = Marked /\ Recurse(target, depth)
  <2>1. visited' = visited \cup {target}
    BY <1>5 DEF Marked
  <2>2. CASE target \in Shut
    <3>1. stack' = Advanced
      BY <1>5, <2>2 DEF Recurse
    <3>2. ASSUME NEW K, NEW p, NEW e, p = child, e = depth PROVE Followed(K, p, e)'
      BY <1>2, <1>5, <2>2, <3>2 DEF Followed, Goal, Plain, Dirs
    <3>3. Pushes({}) /\ Settles({}) /\ Marks({})
      BY <1>5, <2>1, <2>2, <3>1, <3>2 DEF Pushes, Settles, Marks, CoverInv
    <3> QED
      BY <1>1, <3>3, EntryCovers
  <2>3. CASE target \notin Shut
    <3>1. PICK fr : fr = [dir |-> target, next |-> 1, depth |-> depth]
      OBVIOUS
    <3>2. fr \in Frames /\ fr.next = 1 /\ fr.dir = target /\ fr.depth = depth /\ stack' = Append(Advanced, fr)
      BY <1>2, <1>5, <2>3, <3>1 DEF Recurse, Frames
    <3>3. PICK P : P = {<<fr.dir, fr.depth>>}
      OBVIOUS
    <3>4. ASSUME NEW K, NEW p, NEW e, p = child, e = depth, P \subseteq K PROVE Followed(K, p, e)'
      BY <1>1, <1>2, <1>5, <3>2, <3>3, <3>4 DEF Followed, Goal, Plain, Dirs, ReadAs
    <3>5. Pushes(P) /\ Settles(P) /\ Marks(P)
      BY <1>5, <2>1, <3>2, <3>3, <3>4 DEF Pushes, Settles, Marks, CoverInv
    <3> QED
      BY <1>1, <3>5, EntryCovers
  <2> QED
    BY <2>2, <2>3
<1>6. CASE target \in Plain /\ ScanFile(target) /\ stack' = Advanced /\ visited' = visited
  <2>1. target \in scanned' \cup Shut
    BY <1>6 DEF ScanFile
  <2>2. ASSUME NEW K, NEW p, NEW e, p = child, e = depth PROVE Followed(K, p, e)'
    BY <1>2, <1>6, <2>1, <2>2 DEF Followed, Goal, Plain, Dirs
  <2>3. Pushes({}) /\ Settles({}) /\ Marks({})
    BY <1>6, <2>2 DEF Pushes, Settles, Marks, CoverInv
  <2> QED
    BY <1>1, <2>3, EntryCovers
<1> QED
  BY <1>3, <1>4, <1>5, <1>6 DEF FollowLink

(* The steps that take no entry.                                             *)
LEMMA PipelineCovers ==
  ASSUME CoverInv, Finish \/ Pipeline \/ Cancel \/ UNCHANGED sweepVars PROVE CoverInv'
<1>1. /\ stack' = stack /\ visited' = visited /\ maxDepth' = maxDepth /\ scanned' = scanned
      /\ cycles' = cycles
  BY DEF Finish, Pipeline, Cancel, CarveBin, CarveSalvage, CarveSidecar, Tell, EndScan, sweepVars, count, fixed
<1>2. /\ pc' = "start" => pc = "start"
      /\ pc = "start" => pc' = "start"
      /\ pc = "refused" => pc' = "refused"
      /\ pc' = "done" => stack = <<>>
  BY DEF Finish, Pipeline, Cancel, CarveBin, CarveSalvage, CarveSidecar, Tell, EndScan, AtHit, sweepVars, CoverInv
<1> QED
  BY <1>1, <1>2, RestCovers

LEMMA CoverStep ==
  ASSUME CoverInv, DescentInv, [SweepNext]_sweepVars PROVE CoverInv'
<1>1. CASE Start
  BY <1>1, StartCovers
<1>2. CASE SkipEntry
  BY <1>2, SkipCovers
<1>3. CASE EnterDir
  BY <1>3, EnterDirCovers
<1>4. CASE EnterFile
  BY <1>4, EnterFileCovers
<1>5. CASE FollowLink
  BY <1>5, FollowLinkCovers
<1>6. CASE Return
  BY <1>6, ReturnCovers DEF Return, Reading, count, fixed
<1>7. CASE Stop
  <2>1. stack # <<>> /\ pc = "sweep" /\ UNCHANGED <<visited, maxDepth, scanned, cycles>>
    BY <1>7 DEF Stop, count, fixed
  <2>2. CASE pc' = "stopped" /\ stack' = stack
    BY <2>1, <2>2, RestCovers
  <2>3. CASE frame.next > Len(Child[frame.dir]) /\ stack' = SubSeq(stack, 1, Len(stack) - 1) /\ pc' = pc
    BY <2>1, <2>3, ReturnCovers
  <2> QED
    BY <1>7, <2>2, <2>3 DEF Stop
<1>8. CASE Finish \/ Pipeline \/ Cancel \/ UNCHANGED sweepVars
  BY <1>8, PipelineCovers
<1> QED
  BY <1>1, <1>2, <1>3, <1>4, <1>5, <1>6, <1>7, <1>8 DEF SweepNext, Sweep

(* The levels of the tree, as the policy descends them.                      *)
LEMMA LevelUnfold ==
  ASSUME Levels \in Nat \ {0}
  PROVE  /\ Level[0] = {Resolved}
         /\ \A d \in 1 .. Levels - 1 :
              Level[d] = (Meant(Level[d - 1]) \cap Dirs) \ (Shut \cup IF maxDepth > 0 THEN cycles ELSE {})
<1> DEFINE n == Levels - 1
           Out == Shut \cup IF maxDepth > 0 THEN cycles ELSE {}
           M(S) == (Meant(S) \cap Dirs) \ Out
           P(f) == f = [d \in 0 .. n |-> IF d = 0 THEN {Resolved} ELSE M(f[d - 1])]
           V == SUBSET (Dirs \cup {Resolved})
           a == {Resolved}
           G == [d \in 1 .. n |-> [S \in V |-> M(S)]]
<1>1. n \in Nat /\ a \in V
  OBVIOUS
<1>2. \A S : M(S) \in V
  OBVIOUS
<1>3. Level = CHOOSE f : P(f)
  BY DEF Level
<1> HIDE DEF M, n, V
<1>4. Steps(n, V, a, G)
  BY <1>1, <1>2 DEF Steps
<1>5. PICK f \in [0 .. n -> V] : f[0] = a /\ \A i \in 1 .. n : f[i] = G[i][f[i - 1]]
  <2> HIDE DEF G, a
  <2> QED
    BY <1>1, <1>4, NatRecursion DEF Solution
<1>6. \A i \in 1 .. n : f[i] = M(f[i - 1])
  <2>1. \A i \in 1 .. n : i - 1 \in 0 .. n
    BY <1>1
  <2> QED
    BY <1>5, <2>1
<1>7. P(f)
  <2>1. \A d \in 0 .. n : f[d] = IF d = 0 THEN {Resolved} ELSE M(f[d - 1])
    BY <1>1, <1>5, <1>6
  <2> QED
    BY <1>5, <2>1
<1>8. P(Level)
  <2> HIDE DEF P
  <2> QED
    BY <1>3, <1>7
<1>9. 0 \in 0 .. n /\ \A d \in 1 .. n : d \in 0 .. n /\ d # 0
  BY <1>1
<1>10. Level[0] = {Resolved} /\ \A d \in 1 .. n : Level[d] = M(Level[d - 1])
  BY <1>8, <1>9
<1> QED
  BY <1>10 DEF M, n

(* A sweep that ends has scanned every file its policy leads to, by entries  *)
(* and links and within the depth, or could not open it (Walk, recurse,      *)
(* followLink, scanFile).                                                    *)
LEMMA DoneCovers ==
  ASSUME CoverInv PROVE SweepCovers
<1> SUFFICES ASSUME pc = "done", Resolved \in Dirs \ Shut PROVE LedTo \subseteq scanned \cup Shut
  BY DEF SweepCovers
<1>1. PICK C : Closed(C, C \cup OnStack) /\ Anchored(C \cup OnStack)
  BY DEF CoverInv
<1>2. stack = <<>> /\ maxDepth \in Nat
  BY DEF CoverInv
<1>3. C \cup OnStack = C
  <2>1. Len(stack) = 0
    BY <1>2
  <2> QED
    BY <2>1 DEF OnStack
<1>4. Closed(C, C) /\ <<Resolved, 0>> \in C
  BY <1>1, <1>3 DEF Anchored
<1>5. Levels \in Nat \ {0}
  <2>1. IsFiniteSet(Paths) /\ Paths # {}
    BY SizesAssumption, DirAssumption
  <2>2. Cardinality(Paths) \in Nat /\ Cardinality(Paths) # 0
    BY <2>1, FS_CardinalityType, FS_EmptySet
  <2> QED
    BY <1>2, <2>2 DEF Levels
<1> DEFINE Reached(d) == \A x \in Level[d] : IF maxDepth > 0 THEN <<x, d>> \in C ELSE \E e : <<x, e>> \in C
           E == {d \in 0 .. Levels - 1 : Reached(d)}
(* What an entry of a level leads to.                                        *)
<1>6. ASSUME NEW d \in 0 .. Levels - 1, Reached(d), NEW p \in Meant(Level[d])
      PROVE  \E e \in Nat : /\ maxDepth > 0 => e = d + 1
                            /\ p \in Plain => p \in scanned \cup Shut
                            /\ p \in Dirs \ Shut => ReadAs(C, p, e)
  <2>1. PICK q \in Below(Level[d]) : /\ Mode[q] # "link" \/ FollowSymlinks
                                     /\ p = Goal(q) /\ p \notin Own
    BY <1>6 DEF Meant, Goal
  <2>2. PICK x \in Level[d] : \E i \in DOMAIN Child[x] : q = Child[x][i] /\ q \notin Own
    BY <2>1 DEF Below
  <2>8. PICK i \in DOMAIN Child[x] : q = Child[x][i] /\ q \notin Own
    BY <2>2
  <2>3. PICK e : <<x, e>> \in C /\ (maxDepth > 0 => e = d)
    BY <1>6, <2>2
  <2>4. e \in Nat /\ Followed(C, q, e + 1)
    <3>1. PICK r : r = <<x, e>>
      OBVIOUS
    <3>2. r \in Dirs \X Nat /\ r[1] = x /\ r[2] = e
      BY <1>4, <2>3, <3>1 DEF Closed
    <3> QED
      BY <1>4, <2>8, <2>3, <3>1, <3>2 DEF Closed
  <2>5. ~(maxDepth > 0 /\ e + 1 > maxDepth)
    BY <1>2, <1>5, <2>3, <2>4 DEF Levels
  <2>6. /\ p \in Plain => p \in scanned \cup Shut
        /\ p \in Dirs \ Shut => ReadAs(C, p, e + 1)
    BY <2>1, <2>2, <2>4, <2>5 DEF Followed
  <2> QED
    BY <2>3, <2>4, <2>6
<1>7. 0 .. Levels - 1 \subseteq E
  <2>1. Levels - 1 \in Nat
    BY <1>5
  <2>2. 0 \in E
    <3>1. Level[0] = {Resolved}
      BY <1>5, LevelUnfold
    <3>2. Reached(0)
      BY <1>4, <3>1
    <3>3. 0 \in 0 .. Levels - 1
      BY <2>1
    <3> HIDE DEF Reached
    <3> QED
      BY <3>2, <3>3
  <2>3. ASSUME NEW d \in 1 .. Levels - 1, d - 1 \in E PROVE d \in E
    <3>1. /\ d \in 0 .. Levels - 1 /\ d - 1 \in 0 .. Levels - 1
          /\ Level[d] = (Meant(Level[d - 1]) \cap Dirs) \ (Shut \cup IF maxDepth > 0 THEN cycles ELSE {})
      BY <1>5, <2>1, LevelUnfold
    <3>2. Reached(d - 1)
      BY <2>3
    <3>3. ASSUME NEW p \in Level[d]
          PROVE  IF maxDepth > 0 THEN <<p, d>> \in C ELSE \E e : <<p, e>> \in C
      <4>1. p \in Meant(Level[d - 1]) /\ p \in Dirs \ Shut /\ (maxDepth > 0 => p \notin cycles)
        BY <3>1, <3>3
      <4> HIDE DEF Reached
      <4>2. PICK e \in Nat : (maxDepth > 0 => e = (d - 1) + 1) /\ ReadAs(C, p, e)
        BY <1>6, <3>1, <3>2, <4>1
      <4>3. maxDepth > 0 => e = d
        BY <4>2
      <4> QED
        BY <4>1, <4>2, <4>3 DEF ReadAs
    <3> QED
      BY <3>1, <3>3
  <2> HIDE DEF E
  <2> QED
    BY <2>1, <2>2, <2>3, UpTo
<1>8. ASSUME NEW p \in LedTo PROVE p \in scanned \cup Shut
  <2>1. p \in Meant(Descended) /\ p \in Plain
    BY <1>8 DEF LedTo
  <2>2. PICK q : /\ q \in Below(Descended)
                 /\ Mode[q] # "link" \/ FollowSymlinks
                 /\ p = Goal(q) /\ p \notin Own
    BY <2>1 DEF Meant, Goal
  <2>3. PICK x \in Descended : \E i \in DOMAIN Child[x] : q = Child[x][i] /\ q \notin Own
    BY <2>2 DEF Below
  <2>4. PICK d \in 0 .. Levels - 1 : x \in Level[d]
    BY <2>3 DEF Descended
  <2>5. p \in Meant(Level[d])
    BY <2>2, <2>3, <2>4 DEF Meant, Below, Goal
  <2>6. Reached(d)
    BY <1>7
  <2> HIDE DEF Reached
  <2> QED
    BY <1>6, <2>1, <2>5, <2>6
<1> QED
  BY <1>8

(* A sweep that ends has scanned every file its policy leads to, by entries  *)
(* and links and within the depth, or could not open it (Walk, recurse,      *)
(* followLink, scanFile).                                                    *)
THEOREM SweepsCover == SweepSpec => []SweepCovers
  BY CoverInit, CoverStep, DoneCovers, DescentInit, DescentStep, PTL DEF SweepSpec
=============================================================================
