----------------------------- MODULE CoverBank -----------------------------
(* Banked members across runs (proof.go, and the cover half of pubGate in   *)
(* detector.go): a nested target that was read to its end is filed in the   *)
(* journal with the span of root bytes it derives from, and a later run may *)
(* defer it, unread, once that span has been verified again. Members are    *)
(* read ahead of the root, so a span may reach past what the proof pins.    *)
EXTENDS Naturals, Sequences

CONSTANTS
  Blocks,      \* root blocks
  Versions, Short,   \* what a block may hold; a stream that starts Short is one block
  Members,     \* the keys of what the root may hold (coverKeyOf)
  Kind,        \* key -> "zip", "gzip" or "entry"
  StartOf, LenOf, \* key -> its extent in the root; a zip's size is in its key
  ParentOf,    \* key -> the member it is inside of, or "root"
  Inherited,   \* the journals an earlier run, or another binary, may have left
  MaxRuns, MaxEdits  \* bounds

ASSUME TreeAssumption ==
  /\ "root" \notin Members
  /\ \A m \in Members : \/ ParentOf[m] = "root"
                        \/ ParentOf[m] \in Members /\ ParentOf[ParentOf[m]] = "root"
ASSUME ExtentAssumption ==
  /\ Blocks \in Nat
  /\ \A m \in Members : StartOf[m] \in Nat /\ LenOf[m] \in Nat \ {0} /\ StartOf[m] + LenOf[m] <= Blocks
ASSUME InheritedAssumption ==
  \A filed \in Inherited : \A e \in filed : e \in Members \X (Nat \X Nat)

VARIABLES
  bytes,     \* the root's blocks
  journal,   \* [proof, filed, by]: a hashed prefix, pairs of key and span, who wrote it
  running, pos, hashed,
  covered,   \* keys that may be deferred
  live,      \* keys read in this run
  seedSpan,  \* key -> the verified span it was seeded under
  poisoned,  \* members with a refused child
  met,       \* members this run has come across
  deferred,  \* history: <<key, content>> deferred
  seen,      \* history: <<key, content>> read to the end
  runs, edits

vars == <<bytes, journal, running, pos, hashed, covered, live, seedSpan,
          poisoned, met, deferred, seen, runs, edits>>

NoSpan == <<0, 0>>       \* a key filed without |rootext=, by an older binary

depth1(m) == IF ParentOf[m] = "root" THEN m ELSE ParentOf[m]

(* ownExtent: half-open; a gzip member's end is where its stream ends.      *)
Extent(b, m) ==
  <<StartOf[m], StartOf[m] + IF Kind[m] = "gzip" /\ b[StartOf[m] + 1] = Short
                             THEN 1 ELSE LenOf[m]>>
ownExtent(m) == Extent(bytes, m)

(* A member is as the root bytes it lies in: its own, or its parent's.      *)
Within(b, span) == SubSeq(b, span[1] + 1, span[2])
Content(m) == Within(bytes, ownExtent(depth1(m)))

-----------------------------------------------------------------------------
(* Seeding a run.                                                           *)

\* Faulty: a span past the verified bytes will do.
spanCoversAny(proof, span) == TRUE

spanCovers(proof, span) == span[2] <= Len(proof)

FiledSpans(filed, k) == {span \in {e[2] : e \in {x \in filed : x[1] = k}} : span # NoSpan}

(* filterCoveredBySpans: a key filed under one span only, inside the bytes  *)
(* that were verified.                                                      *)
Kept(filed, proof) ==
  {k \in Members : \E span \in FiledSpans(filed, k) :
                     FiledSpans(filed, k) = {span} /\ spanCovers(proof, span)}

UniqueSpan(filed, k) == CHOOSE span \in FiledSpans(filed, k) : TRUE

Verifies == SubSeq(bytes, 1, Len(journal.proof)) = journal.proof

(* seedCovered, once the proof has verified; otherwise nothing is seeded.   *)
StartRun ==
  /\ ~running /\ runs < MaxRuns
  /\ runs' = runs + 1 /\ running' = TRUE
  /\ LET kept == IF Verifies THEN Kept(journal.filed, journal.proof) ELSE {}
     IN  /\ covered' = kept
         /\ seedSpan' = [k \in kept |-> UniqueSpan(journal.filed, k)]
  /\ hashed' = IF Verifies THEN journal.proof ELSE <<>>
  /\ pos' = 0 /\ live' = {} /\ poisoned' = {} /\ met' = {}
  /\ UNCHANGED <<bytes, journal, deferred, seen, edits>>

-----------------------------------------------------------------------------
(* Reading.                                                                 *)

RootRead ==
  /\ running /\ pos < Blocks
  /\ pos' = pos + 1
  /\ hashed' = IF pos < Len(hashed) THEN hashed ELSE Append(hashed, bytes[pos + 1])
  /\ UNCHANGED <<bytes, journal, running, covered, live, seedSpan, poisoned, met,
                 deferred, seen, runs, edits>>

(* A zip is found by the end of its directory, a stream or an entry by its  *)
(* start; a member inside another once that one is read.                    *)
Found(m) ==
  /\ m \notin met
  /\ IF ParentOf[m] # "root" THEN ParentOf[m] \in live
     ELSE IF Kind[m] = "zip" THEN pos >= ownExtent(m)[2] ELSE pos > StartOf[m]

(* deferProvenance: a span against where the member is; a gzip's end is not *)
(* known yet.                                                               *)
Matches(b, m, span) ==
  IF Kind[depth1(m)] = "gzip" THEN span[1] = StartOf[depth1(m)] ELSE span = Extent(b, depth1(m))
SpanMatches(m) == Matches(bytes, m, seedSpan[m])

Seeded(m) == m \in DOMAIN seedSpan
deferCovered(m) == m \in covered /\ (Seeded(m) => SpanMatches(m))

(* A candidate under a seeded key that is not where the journal says loses  *)
(* the seed, and is then published like any other.                          *)
Lied(m) == {k \in {m} : Seeded(k) /\ ~SpanMatches(k)}
Unseeded(m) == covered \ Lied(m)
DropSeed(m) == seedSpan' = [k \in DOMAIN seedSpan \ Lied(m) |-> seedSpan[k]]

Meet(m) ==
  /\ running /\ Found(m) /\ met' = met \cup {m}
  /\ UNCHANGED <<bytes, journal, running, pos, hashed, runs, edits>>

Defer(m) ==
  /\ Meet(m) /\ deferCovered(m)
  /\ deferred' = deferred \cup {<<m, Content(m)>>}
  /\ UNCHANGED <<covered, live, seedSpan, poisoned, seen>>

(* Admitted: read to its end ahead of the root, and banked (bankCovered).   *)
Read(m) ==
  /\ Meet(m) /\ ~deferCovered(m)
  /\ covered' = covered \cup {m} /\ live' = live \cup {m}
  /\ DropSeed(m)
  /\ seen' = seen \cup {<<m, Content(m)>>}
  /\ UNCHANGED <<poisoned, deferred>>

(* Refused by the cap or by policy: what it is inside of is incomplete      *)
(* (notePublish, notePolicySkip).                                           *)
Refuse(m) ==
  /\ Meet(m) /\ ~deferCovered(m)
  /\ covered' = Unseeded(m) /\ DropSeed(m)
  /\ poisoned' = poisoned \cup ({ParentOf[m]} \ {"root"})
  /\ UNCHANGED <<live, deferred, seen>>

-----------------------------------------------------------------------------
(* Filing: snapshotCovered, provenanceLocked.                               *)

Provenance(m) ==
  IF m \in live THEN {ownExtent(depth1(m)) : d \in {depth1(m)} \cap covered}
                ELSE {seedSpan[k] : k \in {m} \cap DOMAIN seedSpan}

\* Faulty: a member with a refused child is filed.
snapshotUnpoisoned == UNION {{<<m, span>> : span \in Provenance(m)} : m \in covered}

snapshotCovered ==
  UNION {{<<m, span>> : span \in Provenance(m)} : m \in covered \ poisoned}

(* A frontier or the error return files the bank, once everything found so  *)
(* far is settled; a completion files none.                                 *)
Quiet == \A m \in Members : ~Found(m)

File ==
  /\ running /\ Quiet
  /\ journal' = [proof |-> hashed, filed |-> snapshotCovered, by |-> "this"]
  /\ UNCHANGED <<bytes, running, pos, hashed, covered, live, seedSpan, poisoned,
                 met, deferred, seen, runs, edits>>

Complete ==
  /\ running /\ pos = Blocks /\ Quiet
  /\ journal' = [proof |-> hashed, filed |-> {}, by |-> "this"]
  /\ running' = FALSE
  /\ UNCHANGED <<bytes, pos, hashed, covered, live, seedSpan, poisoned, met,
                 deferred, seen, runs, edits>>

Kill ==
  /\ running /\ running' = FALSE
  /\ UNCHANGED <<bytes, journal, pos, hashed, covered, live, seedSpan, poisoned,
                 met, deferred, seen, runs, edits>>

Edit ==
  /\ ~running /\ edits < MaxEdits
  /\ edits' = edits + 1
  /\ \E b \in 1..Blocks, v \in Versions : bytes' = [bytes EXCEPT ![b] = v]
  /\ UNCHANGED <<journal, running, pos, hashed, covered, live, seedSpan, poisoned,
                 met, deferred, seen, runs>>

(* What whoever left a journal had read: the members filed under one span,  *)
(* where they are, with what is inside of them.                             *)
Inside(k) == {m \in Members : m = k \/ ParentOf[m] = k}
ReadBefore(filed) ==
  UNION {{<<m, Content(m)>> : m \in Inside(k)} :
           k \in {x \in Members : \E span \in FiledSpans(filed, x) :
                    FiledSpans(filed, x) = {span} /\ Matches(bytes, x, span)}}

Init ==
  /\ bytes \in [1..Blocks -> Versions]
  /\ \E filed \in Inherited :
       /\ journal = [proof |-> IF filed = {} THEN <<>> ELSE bytes, filed |-> filed, by |-> "other"]
       /\ seen = ReadBefore(filed)
  /\ running = FALSE /\ pos = 0 /\ hashed = <<>>
  /\ covered = {} /\ live = {} /\ seedSpan = <<>> /\ poisoned = {} /\ met = {}
  /\ deferred = {} /\ runs = 0 /\ edits = 0

Next ==
  \/ StartRun \/ RootRead \/ File \/ Complete \/ Kill \/ Edit
  \/ \E m \in Members : Defer(m) \/ Read(m) \/ Refuse(m)

Spec == Init /\ [][Next]_vars

-----------------------------------------------------------------------------

(* A member is deferred only when some run read it to its end with the very *)
(* content it has now (deferCovered, filterCoveredBySpans): an edit after   *)
(* the point, a journal that was merged or is older, a member read ahead of *)
(* the proof are no excuse.                                                 *)
DeferredWasRead == deferred \subseteq seen

(* A member this program filed under its own extent is whole: everything inside *)
(* it was read too, in some run, with the bytes the proof pins. Deferring it*)
(* therefore strands no child, though a deferred member's children are never*)
(* found again (notePublish's poisoning, snapshotCovered).                  *)
FiledIsWhole ==
  journal.by = "this" =>
    \A e \in journal.filed :
      /\ spanCovers(journal.proof, e[2]) /\ StartOf[e[1]] < e[2][2]
      /\ e[2] = Extent(journal.proof, e[1])
      => \A c \in Members : ParentOf[c] = e[1] => <<c, Within(journal.proof, e[2])>> \in seen

=============================================================================
