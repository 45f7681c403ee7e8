---------------------------- MODULE BatchProofs ----------------------------
(* What a resumed multi-target run may leave out, proved for every list of  *)
(* targets, every number of blocks, and any number of runs and kills.       *)
EXTENDS Batch, FiniteSetTheorems, SequenceTheorems, TLAPS

Running == {"adopt", "scan", "outcome"}
States == {"pending", "active", "failed", "complete"}
Spans == {s \in Seq(Versions) : Len(s) <= N}
Held == {None} \cup Spans
EntryTypes == [stat: Nat, ident: Nat, state: States, offset: 0..N, digest: Held, proof: Held]
Journals == [run: Profiles, entries: [Entries -> EntryTypes]]
Contents == [bytes: [1..N -> Versions], stat: Nat, ident: Nat]
Deliveries == Files \X (1..N) \X Versions \X Profiles
Scans == [start: 0..N, pos: 0..N, hashed: Spans, seed: 0..N, filed: 0..N,
          ident: Nat, flight: SUBSET Deliveries, err: BOOLEAN]

TypeOK ==
  /\ disk \in [Files -> Contents]
  /\ Readable(journal) => journal \in Journals
  /\ pc \in {"off", "entry"} \cup Running
  /\ pc # "off" => man \in Journals
  /\ at \in Entries
  /\ scan \in Scans
  /\ lost \in Nat /\ edits \in Nat /\ kills \in Nat

(* What is delivered and what the disk holds, as an argument, so that the   *)
(* lemmas below speak of two states.                                        *)
World == [disk |-> disk, seen |-> seen, edits |-> edits]
Fits(bytes, proof) == SubSeq(bytes, 1, Len(proof)) = proof

(* The first n blocks of f, as it is now, were delivered under p.           *)
PrefixSeen(w, f, n, p) == \A b \in 1..n : <<f, b, w.disk[f].bytes[b], p>> \in w.seen

(* What an entry vouches for. Until a file is replaced, its offset and its  *)
(* proof both speak of the bytes the file holds; afterwards they may speak  *)
(* of different contents, and a proof the bytes satisfy must still reach no *)
(* further than what was delivered.                                         *)
Vouched(w, e, f, p) ==
  /\ w.edits = 0 => /\ PrefixSeen(w, f, e.offset, p)
                    /\ e.proof # None => Fits(w.disk[f].bytes, e.proof)
  /\ /\ w.disk[f].stat # Missing
     /\ e.proof # None /\ Len(e.proof) >= e.offset /\ Fits(w.disk[f].bytes, e.proof)
     => PrefixSeen(w, f, e.offset, p)

DigestSeen(w, e, f, p) ==
  e.digest # None => \A b \in DOMAIN e.digest : <<f, b, e.digest[b], p>> \in w.seen

Sound(w, j) == \A i \in Entries :
  /\ Vouched(w, j.entries[i], List[i], j.run)
  /\ DigestSeen(w, j.entries[i], List[i], j.run)

(* What RecordOutcome may adopt from the journal: a point delivered in the  *)
(* attempt that ends, unless the target is gone.                            *)
Adoptable(w, j, m, k) ==
  \/ w.disk[List[k]].stat = Missing
  \/ Readable(j) => \A i \in Active(j) :
       List[i] = List[k] =>
         \/ j.entries[i].offset <= m.entries[k].offset
         \/ PrefixSeen(w, List[k], j.entries[i].offset, m.run)

(* The journal follows the manifest until a write is refused.               *)
InSync ==
  /\ pc \in {"entry", "adopt"} /\ lost = 0 => journal = man
  /\ pc \in Running => journal.run = man.run
  /\ pc = "scan" /\ lost = 0 => Adoptable(World, journal, man, at)
  /\ pc = "outcome" => Adoptable(World, journal, man, at)

(* A scan s of f: what it hashed is what the file holds, and what it passed *)
(* was delivered or is in flight.                                           *)
ScanSound(w, s, f, p) ==
  /\ s.start <= s.pos /\ s.filed <= s.pos
  /\ Fits(w.disk[f].bytes, s.hashed)
  /\ PrefixSeen(w, f, s.start, p) /\ PrefixSeen(w, f, s.filed, p)
  /\ \A b \in 1..s.pos : <<f, b, w.disk[f].bytes[b], p>> \in w.seen \cup s.flight

Trust ==
  /\ Readable(journal) => Sound(World, journal)
  /\ pc # "off" => Sound(World, man)
  /\ InSync
  /\ pc = "scan" => ScanSound(World, scan, file, man.run)
  /\ pc = "outcome" /\ ~scan.err => PrefixSeen(World, file, N, man.run)

(* The hash covers the adopted proof and what was read past it.             *)
Hashes(s) == Len(s.hashed) = IF s.pos >= s.seed THEN s.pos ELSE s.seed

(* A target in work is active, and only a replacement removes a file.       *)
Placed ==
  /\ pc \in Running => entry.state = "active"
  /\ edits = 0 => \A f \in Files : disk[f].stat # Missing
  /\ pc = "adopt" => scan = [NoScan EXCEPT !.start = scan.start]
  /\ pc = "scan" => Hashes(scan)

BatchInv == TypeOK /\ Placed /\ (Trusted => Trust)

-----------------------------------------------------------------------------
(* Journals, spans and what they vouch for.                                 *)

LEMMA SizeNat == N \in Nat /\ N > 0
BY SizeAssumption

LEMMA EntriesFinite ==
  /\ IsFiniteSet(Entries) /\ Entries \subseteq Nat
  /\ Entries = 1..Len(List) /\ Len(List) \in Nat /\ Len(List) > 0
  /\ \A i \in Entries : List[i] \in Files
<1>1. Entries = 1..Len(List) /\ Len(List) \in Nat /\ Len(List) > 0
  BY ListAssumption DEF Entries
<1>2. IsFiniteSet(1..Len(List))
  BY <1>1, FS_Interval
<1>. QED BY <1>1, <1>2 DEF Files, Entries

(* A journal that can be read has at most one active entry.                 *)
LEMMA OneActive ==
  ASSUME NEW j \in Journals, Cardinality(Active(j)) <= 1,
         NEW a \in Active(j), NEW b \in Active(j)
  PROVE  a = b
<1>1. Active(j) \in SUBSET Entries
  BY DEF Active, Journals
<1>2. IsFiniteSet(Active(j))
  BY <1>1, EntriesFinite, FS_Subset
<1>. SUFFICES ASSUME a # b PROVE FALSE
  OBVIOUS
<1>3. IsFiniteSet(Active(j) \ {a}) /\ Cardinality(Active(j) \ {a}) = Cardinality(Active(j)) - 1
  BY <1>2, FS_RemoveElement
<1>4. Cardinality(Active(j)) \in Nat /\ Cardinality(Active(j) \ {a}) \in Nat
  BY <1>2, <1>3, FS_CardinalityType
<1>5. Cardinality(Active(j) \ {a}) = 0
  BY <1>3, <1>4
<1>6. Active(j) \ {a} = {}
  BY <1>3, <1>5, FS_EmptySet
<1>. QED BY <1>6

(* verifySpan, block by block.                                              *)
LEMMA FitsBytes ==
  ASSUME NEW bytes \in [1..N -> Versions], NEW s \in Spans
  PROVE  /\ Len(s) \in 0..N
         /\ Fits(bytes, s) <=> \A b \in 1..Len(s) : bytes[b] = s[b]
<1>1. N \in Nat /\ s \in Seq(Versions) /\ Len(s) \in Nat /\ Len(s) <= N
  BY SizeNat, LenProperties DEF Spans
<1>2. \A b \in 1..Len(s) : b \in 1..N /\ bytes[b] \in Versions
  BY <1>1
<1>3. /\ SubSeq(bytes, 1, Len(s)) \in Seq(Versions)
      /\ Len(SubSeq(bytes, 1, Len(s))) = Len(s)
      /\ \A b \in 1..Len(s) : SubSeq(bytes, 1, Len(s))[b] = bytes[b]
  <2>. DEFINE n == Len(s)
  <2>1. n \in Nat /\ \A b \in 1..n : bytes[b] \in Versions
    BY <1>1, <1>2
  <2>2. /\ SubSeq(bytes, 1, n) \in Seq(Versions)
        /\ Len(SubSeq(bytes, 1, n)) = IF 1 <= n THEN n - 1 + 1 ELSE 0
        /\ \A b \in 1 .. n - 1 + 1 : SubSeq(bytes, 1, n)[b] = bytes[1 + b - 1]
    <3>. HIDE DEF n
    <3>. QED BY <2>1, SubSeqProperties
  <2>3. \A b \in 1..n : b \in 1 .. n - 1 + 1 /\ 1 + b - 1 = b
    <3>. HIDE DEF n
    <3>. QED BY <2>1
  <2>. QED BY <2>1, <2>2, <2>3
<1>4. Fits(bytes, s) => \A b \in 1..Len(s) : bytes[b] = s[b]
  BY <1>3 DEF Fits
<1>5. ASSUME \A b \in 1..Len(s) : bytes[b] = s[b]
      PROVE  Fits(bytes, s)
  <2>1. SubSeq(bytes, 1, Len(s)) = s
    BY <1>1, <1>3, <1>5, SeqEqual
  <2>. QED BY <2>1 DEF Fits
<1>. QED BY <1>1, <1>4, <1>5

(* What was vouched for stays so while the disk stays and deliveries grow.  *)
LEMMA Carried ==
  ASSUME NEW w, NEW v, v.disk = w.disk, v.edits = w.edits, w.seen \subseteq v.seen
  PROVE  /\ \A f, n, p : PrefixSeen(w, f, n, p) => PrefixSeen(v, f, n, p)
         /\ \A j : Sound(w, j) => Sound(v, j)
         /\ \A j, m, k : Adoptable(w, j, m, k) => Adoptable(v, j, m, k)
<1>1. \A f, n, p : PrefixSeen(w, f, n, p) => PrefixSeen(v, f, n, p)
  BY DEF PrefixSeen
<1>2. \A e, f, p : Vouched(w, e, f, p) => Vouched(v, e, f, p)
  BY <1>1 DEF Vouched
<1>3. \A e, f, p : DigestSeen(w, e, f, p) => DigestSeen(v, e, f, p)
  BY DEF DigestSeen
<1>4. \A j : Sound(w, j) => Sound(v, j)
  BY <1>2, <1>3 DEF Sound
<1>5. \A j, m, k : Adoptable(w, j, m, k) => Adoptable(v, j, m, k)
  BY <1>1 DEF Adoptable
<1>. QED BY <1>1, <1>4, <1>5

(* The first replacement of a file: whatever the new bytes are, a proof     *)
(* they satisfy pins the bytes that were delivered.                         *)
LEMMA Replaced ==
  ASSUME NEW w, NEW v, w.disk \in [Files -> Contents], v.disk \in [Files -> Contents],
         w.edits = 0, v.edits # 0, v.seen = w.seen,
         NEW j \in Journals, Sound(w, j)
  PROVE  Sound(v, j)
<1>. SUFFICES ASSUME NEW i \in Entries
     PROVE /\ Vouched(v, j.entries[i], List[i], j.run)
           /\ DigestSeen(v, j.entries[i], List[i], j.run)
  BY DEF Sound
<1>. DEFINE e == j.entries[i]
<1>. DEFINE f == List[i]
<1>1. e \in EntryTypes /\ f \in Files
  BY EntriesFinite DEF Journals
<1>2. Vouched(w, e, f, j.run) /\ DigestSeen(w, e, f, j.run)
  BY DEF Sound
<1>. HIDE DEF e, f
<1>3. DigestSeen(v, e, f, j.run)
  BY <1>2 DEF DigestSeen
<1>4. ASSUME e.proof # None, Len(e.proof) >= e.offset, Fits(v.disk[f].bytes, e.proof)
      PROVE  PrefixSeen(v, f, e.offset, j.run)
  <2>. SUFFICES ASSUME NEW b \in 1..e.offset
       PROVE <<f, b, v.disk[f].bytes[b], j.run>> \in v.seen
    BY DEF PrefixSeen
  <2>1. e.proof \in Spans /\ e.offset \in 0..N /\ Len(e.proof) \in 0..N
    BY <1>1, <1>4, FitsBytes DEF EntryTypes, Held, Spans
  <2>2. v.disk[f].bytes \in [1..N -> Versions] /\ w.disk[f].bytes \in [1..N -> Versions]
    BY <1>1 DEF Contents
  <2>3. PrefixSeen(w, f, e.offset, j.run) /\ Fits(w.disk[f].bytes, e.proof)
    BY <1>2, <1>4 DEF Vouched
  <2>4. b \in 1..Len(e.proof)
    BY <1>4, <2>1, SizeNat
  <2>5. v.disk[f].bytes[b] = e.proof[b] /\ w.disk[f].bytes[b] = e.proof[b]
    BY <1>4, <2>1, <2>2, <2>3, <2>4, FitsBytes
  <2>6. <<f, b, w.disk[f].bytes[b], j.run>> \in w.seen
    BY <2>3 DEF PrefixSeen
  <2>. QED BY <2>5, <2>6
<1>5. Vouched(v, e, f, j.run)
  BY <1>4 DEF Vouched
<1>. QED BY <1>3, <1>5 DEF e, f

(* A journal differing from a sound one in one entry that vouches truly.    *)
LEMMA OneEntry ==
  ASSUME NEW w, NEW j, NEW k, NEW i \in Entries, Sound(w, j), k.run = j.run,
         \A h \in Entries \ {i} : k.entries[h] = j.entries[h],
         Vouched(w, k.entries[i], List[i], j.run), DigestSeen(w, k.entries[i], List[i], j.run)
  PROVE  Sound(w, k)
BY DEF Sound

(* An offset that was delivered is vouched for, with any proof that fits    *)
(* the bytes.                                                               *)
LEMMA PointVouched ==
  ASSUME NEW w, NEW e, NEW f, NEW p, PrefixSeen(w, f, e.offset, p),
         w.edits = 0 => (e.proof = None \/ Fits(w.disk[f].bytes, e.proof))
  PROVE  Vouched(w, e, f, p)
BY DEF Vouched

-----------------------------------------------------------------------------
(* Types, and where the process is.                                         *)

LEMMA NoneHeld ==
  /\ None \in Held /\ Spans \subseteq Held /\ <<>> \in Spans /\ Len(<<>>) = 0
  /\ 0 \in 0..N /\ N \in 0..N /\ \A o \in 0..N : rewindOffset(o) \in 0..N /\ rewindOffset(o) <= o
BY SizeNat DEF Held, Spans, rewindOffset

LEMMA ManifestType ==
  ASSUME TypeOK, NEW p \in Profiles
  PROVE  NewBatchManifest(p) \in Journals
<1>1. \A i \in Entries : disk[List[i]].stat \in Nat /\ disk[List[i]].ident \in Nat
  BY EntriesFinite DEF TypeOK, Contents
<1>2. \A i \in Entries :
        [stat |-> disk[List[i]].stat, ident |-> disk[List[i]].ident,
         state |-> "pending", offset |-> 0, digest |-> None, proof |-> None] \in EntryTypes
  BY <1>1, NoneHeld DEF EntryTypes, States
<1>. QED BY <1>2 DEF NewBatchManifest, Journals

(* One entry replaced.                                                      *)
LEMMA PutType ==
  ASSUME NEW m \in Journals, NEW i \in Entries, NEW e \in EntryTypes
  PROVE  /\ [m EXCEPT !.entries[i] = e] \in Journals
         /\ [m EXCEPT !.entries[i] = e].run = m.run
         /\ [m EXCEPT !.entries[i] = e].entries[i] = e
         /\ \A h \in Entries \ {i} : [m EXCEPT !.entries[i] = e].entries[h] = m.entries[h]
BY DEF Journals

LEMMA FileTypes ==
  ASSUME TypeOK
  PROVE  file \in Files /\ disk[file] \in Contents
BY EntriesFinite DEF TypeOK, file

LEMMA ActivatedType ==
  ASSUME TypeOK, pc = "entry"
  PROVE  /\ entry \in EntryTypes
         /\ Activated \in EntryTypes /\ Activated.state = "active" /\ Activated.digest = None
         /\ Activated.offset \in {0, entry.offset}
         /\ \/ Activated.offset = entry.offset /\ Activated.proof = entry.proof
            \/ Activated.offset = 0 /\ Activated.proof = None
         /\ EntryOffset \in 0..N
<1>1. entry \in EntryTypes
  BY DEF TypeOK, Journals, entry
<1>2. disk[file].stat \in Nat /\ disk[file].ident \in Nat
  BY FileTypes DEF Contents
<1>. DEFINE cleared == IF resume /\ entry.state = "complete"
                       THEN [entry EXCEPT !.offset = 0, !.proof = None] ELSE entry
<1>3. /\ cleared \in EntryTypes
      /\ \/ cleared.offset = entry.offset /\ cleared.proof = entry.proof
         \/ cleared.offset = 0 /\ cleared.proof = None
  BY <1>1, NoneHeld DEF EntryTypes
<1>4. Activated = [cleared EXCEPT !.state = "active", !.digest = None,
                      !.stat = disk[file].stat, !.ident = disk[file].ident]
  BY DEF Activated
<1>. HIDE DEF cleared
<1>5. /\ Activated \in EntryTypes /\ Activated.state = "active" /\ Activated.digest = None
      /\ Activated.offset = cleared.offset /\ Activated.proof = cleared.proof
  BY <1>2, <1>3, <1>4, NoneHeld DEF EntryTypes, States
<1>6. EntryOffset \in 0..N
  BY <1>1, NoneHeld DEF EntryOffset, EntryTypes
<1>. QED BY <1>1, <1>3, <1>5, <1>6

(* What a write of the pipeline files: the entry it is at takes the point.  *)
LEMMA FrontierType ==
  ASSUME TypeOK, Placed, pc = "scan", NEW o \in 0..N, NEW d \in Held
  PROVE  /\ Frontier(o, d) \in Journals /\ Frontier(o, d).run = man.run
         /\ Active(Frontier(o, d)) = Active(man)
         /\ at \in Active(man)
         /\ \A i \in Entries \ Active(man) : Frontier(o, d).entries[i] = man.entries[i]
         /\ \A i \in Active(man) :
              /\ Frontier(o, d).entries[i].offset = o
              /\ Frontier(o, d).entries[i].proof = scan.hashed
              /\ Frontier(o, d).entries[i].digest = IF d = None THEN man.entries[i].digest ELSE d
<1>1. man \in Journals /\ scan \in Scans /\ at \in Entries
  BY DEF TypeOK
<1>2. scan.ident \in Nat /\ scan.hashed \in Held
  BY <1>1, NoneHeld DEF Scans
<1>. DEFINE put(e) == IF e.state # "active" THEN e
    ELSE [e EXCEPT !.offset = o, !.ident = scan.ident, !.proof = scan.hashed,
                   !.digest = IF d = None THEN @ ELSE d]
<1>3. \A e \in EntryTypes :
        /\ put(e) \in EntryTypes /\ put(e).state = e.state
        /\ e.state # "active" => put(e) = e
        /\ e.state = "active" => /\ put(e).offset = o /\ put(e).proof = scan.hashed
                                 /\ put(e).digest = IF d = None THEN e.digest ELSE d
  BY <1>2 DEF EntryTypes
<1>4. /\ Frontier(o, d).run = man.run
      /\ Frontier(o, d) = [man EXCEPT !.entries = [i \in Entries |-> put(man.entries[i])]]
  BY <1>1 DEF Frontier, Journals
<1>. HIDE DEF put
<1>5. /\ Frontier(o, d) \in Journals
      /\ \A i \in Entries : Frontier(o, d).entries[i] = put(man.entries[i])
      /\ \A i \in Entries : man.entries[i] \in EntryTypes
  BY <1>1, <1>3, <1>4 DEF Journals
<1>6. Active(Frontier(o, d)) = Active(man) /\ Active(man) \subseteq Entries
  BY <1>1, <1>3, <1>5 DEF Active, Journals
<1>7. at \in Active(man)
  BY <1>1 DEF Placed, Running, Active, Journals, entry
<1>8. \A i \in Entries : i \in Active(man) <=> man.entries[i].state = "active"
  BY <1>1 DEF Active, Journals
<1>9. \A i \in Entries \ Active(man) : Frontier(o, d).entries[i] = man.entries[i]
  BY <1>3, <1>5, <1>8
<1>10. \A i \in Active(man) :
         /\ Frontier(o, d).entries[i].offset = o
         /\ Frontier(o, d).entries[i].proof = scan.hashed
         /\ Frontier(o, d).entries[i].digest = IF d = None THEN man.entries[i].digest ELSE d
  BY <1>3, <1>5, <1>6, <1>8
<1>. QED BY <1>4, <1>5, <1>6, <1>7, <1>9, <1>10

LEMMA PersistType ==
  ASSUME TypeOK, NEW j \in Journals, Persist(j)
  PROVE  /\ (Readable(journal) => journal \in Journals)'
         /\ lost' \in Nat /\ lost' >= lost
<1>1. CASE journal' = j /\ UNCHANGED lost
  BY <1>1 DEF TypeOK
<1>2. CASE lost' = lost + 1 /\ UNCHANGED journal
  BY <1>2 DEF TypeOK, Readable
<1>. QED BY <1>1, <1>2 DEF Persist

(* The claim a pipeline finds is the journal's one active entry, and its    *)
(* proof reaches the point the pipeline would start at.                     *)
LEMMA ClaimType ==
  ASSUME TypeOK, HasClaim
  PROVE  \E i \in Entries :
           /\ Readable(journal) /\ journal \in Journals
           /\ claimed = journal.entries[i] /\ List[i] = file
           /\ claimed.proof # None /\ claimed.proof \in Spans
           /\ Len(claimed.proof) \in 0..N /\ Len(claimed.proof) >= claimed.offset
           /\ claimed.offset \in 0..N
           /\ scan.start <= claimed.offset /\ scan.start <= Len(claimed.proof)
<1>1. Readable(journal) /\ journal \in Journals /\ Cardinality(Active(journal)) <= 1
  BY DEF HasClaim, TypeOK, Readable
<1>2. PICK i \in Active(journal) : List[i] = file /\ Claim(journal.entries[i])
  BY DEF HasClaim
<1>3. (CHOOSE h \in Active(journal) : TRUE) \in Active(journal)
  BY <1>2
<1>4. (CHOOSE h \in Active(journal) : TRUE) = i
  BY <1>1, <1>2, <1>3, OneActive
<1>5. claimed = journal.entries[i] /\ Claim(claimed)
  BY <1>2, <1>4 DEF claimed
<1>6. i \in Entries /\ claimed \in EntryTypes
  BY <1>1, <1>2, <1>5 DEF Active, Journals
<1>7. claimed.proof # None /\ claimed.proof \in Spans /\ claimed.offset \in 0..N
      /\ Len(claimed.proof) >= claimed.offset
      /\ scan.start \in {claimed.offset, rewindOffset(claimed.offset)}
  BY <1>5, <1>6 DEF EntryTypes, Held, Claim
<1>8. Len(claimed.proof) \in Nat /\ Len(claimed.proof) <= N
  BY <1>7, LenProperties DEF Spans
<1>9. scan.start <= claimed.offset /\ scan.start \in 0..N
  BY <1>7, NoneHeld, SizeNat
<1>. QED BY <1>1, <1>2, <1>5, <1>6, <1>7, <1>8, <1>9, SizeNat

(* The hash of a block read past the adopted proof.                         *)
LEMMA HashNext ==
  ASSUME NEW s, s.hashed \in Spans, s.pos \in Nat, s.seed \in 0..N, Hashes(s),
         s.pos + 1 \in 1..N, NEW x \in Versions
  PROVE  LET b == s.pos + 1
             h == IF b > s.seed THEN Append(s.hashed, x) ELSE s.hashed
         IN  /\ h \in Spans /\ Len(h) = IF b >= s.seed THEN b ELSE s.seed
             /\ \A c \in 1..Len(h) :
                   \/ c \in 1..Len(s.hashed) /\ h[c] = s.hashed[c]
                   \/ c = b /\ h[c] = x
<1>. DEFINE b == s.pos + 1
<1>1. s.hashed \in Seq(Versions) /\ Len(s.hashed) \in Nat
  BY LenProperties DEF Spans
<1>2. /\ Append(s.hashed, x) \in Seq(Versions) /\ Len(Append(s.hashed, x)) = Len(s.hashed) + 1
      /\ \A c \in 1..Len(s.hashed) : Append(s.hashed, x)[c] = s.hashed[c]
      /\ Append(s.hashed, x)[Len(s.hashed) + 1] = x
  BY <1>1, AppendProperties
<1>3. CASE b > s.seed
  <2>1. Len(s.hashed) = s.pos
    BY <1>3, SizeNat DEF Hashes
  <2>2. Append(s.hashed, x) \in Spans /\ Len(Append(s.hashed, x)) = b
    BY <1>2, <2>1, SizeNat DEF Spans
  <2>3. \A c \in 1..b :
          \/ c \in 1..Len(s.hashed) /\ Append(s.hashed, x)[c] = s.hashed[c]
          \/ c = b /\ Append(s.hashed, x)[c] = x
    BY <1>1, <1>2, <2>1, SizeNat
  <2>4. b >= s.seed
    BY <1>3, SizeNat
  <2>. QED BY <1>3, <2>2, <2>3, <2>4
<1>4. CASE ~(b > s.seed)
  <2>1. s.hashed \in Spans /\ Len(s.hashed) = s.seed
    BY <1>4, SizeNat DEF Hashes
  <2>2. s.seed >= b /\ (b >= s.seed => b = s.seed)
    BY <1>4, SizeNat
  <2>3. \A c \in 1..Len(s.hashed) : c \in 1..Len(s.hashed) /\ s.hashed[c] = s.hashed[c]
    OBVIOUS
  <2>. QED BY <1>4, <2>1, <2>2, <2>3
<1>. QED BY <1>3, <1>4

(* What RecordOutcome writes for the target.                                *)
LEMMA OutcomeType ==
  ASSUME TypeOK, pc = "outcome"
  PROVE  /\ entry \in EntryTypes /\ Adopted \in EntryTypes /\ Settled(Adopted) \in EntryTypes
         /\ Adopted.proof = entry.proof
         /\ \/ Adopted.offset = entry.offset /\ Adopted.digest = entry.digest
            \/ /\ Readable(journal) /\ journal \in Journals
               /\ \E i \in Active(journal) :
                   /\ List[i] = file
                   /\ Adopted = AdoptFiled(entry, journal.entries[i])
<1>1. entry \in EntryTypes
  BY DEF TypeOK, Journals, entry
<1>. DEFINE mine == {i \in Active(journal) : List[i] = file}
<1>2. ASSUME Readable(journal), mine # {}
      PROVE  /\ Adopted \in EntryTypes /\ Adopted.proof = entry.proof /\ journal \in Journals
             /\ \E i \in Active(journal) :
                   /\ List[i] = file
                   /\ Adopted = AdoptFiled(entry, journal.entries[i])
  <2>1. journal \in Journals
    BY <1>2 DEF TypeOK
  <2>2. PICK i \in mine : i = (CHOOSE h \in mine : TRUE)
    BY <1>2
  <2>3. Adopted = AdoptFiled(entry, journal.entries[i])
    BY <1>2, <2>2 DEF Adopted
  <2>4. i \in Active(journal) /\ List[i] = file /\ journal.entries[i] \in EntryTypes
    BY <2>1, <2>2 DEF Active, Journals
  <2>5. Adopted \in EntryTypes /\ Adopted.proof = entry.proof
    BY <1>1, <2>3, <2>4 DEF AdoptFiled, EntryTypes
  <2>. QED BY <2>1, <2>3, <2>4, <2>5
<1>3. ASSUME ~(Readable(journal) /\ mine # {})
      PROVE  Adopted = entry
  BY <1>3 DEF Adopted
<1>4. Adopted \in EntryTypes
  BY <1>1, <1>2, <1>3
<1>5. Settled(Adopted) \in EntryTypes
  BY <1>4, NoneHeld DEF Settled, EntryTypes, States
<1>. QED BY <1>1, <1>2, <1>3, <1>4, <1>5

LEMMA InitHolds == Init => BatchInv
<1>. SUFFICES ASSUME Init PROVE BatchInv
  OBVIOUS
<1>1. PICK v \in Versions : disk = [f \in Files |->
        [bytes |-> [b \in 1..N |-> v], stat |-> 1, ident |-> 1]]
  BY DEF Init
<1>2. disk \in [Files -> Contents] /\ \A f \in Files : disk[f].stat # Missing
  BY <1>1 DEF Contents, Missing
<1>3. ~Readable(journal)
  BY DEF Init, Readable
<1>4. scan \in Scans
  BY NoneHeld DEF Init, NoScan, Scans, Missing
<1>5. at \in Entries /\ pc = "off" /\ lost = 0 /\ edits = 0 /\ kills = 0
  BY EntriesFinite DEF Init
<1>6. TypeOK /\ Placed
  BY <1>2, <1>3, <1>4, <1>5 DEF TypeOK, Placed, Running
<1>7. Trust
  BY <1>3, <1>5 DEF Trust, InSync, Running
<1>. QED BY <1>6, <1>7 DEF BatchInv

LEMMA AdvanceType ==
  ASSUME TypeOK, NEW m \in Journals, Advance, Forget(m)
  PROVE  /\ at' \in Entries /\ pc' \in {"off", "entry"}
         /\ pc' # "off" => man' = m
BY EntriesFinite DEF TypeOK, Advance, Forget

LEMMA TypeStep ==
  ASSUME TypeOK, Placed, [Next]_vars
  PROVE  TypeOK' /\ Placed' /\ lost' >= lost /\ edits' >= edits
<1>. USE DEF Running
<1>1. CASE StartRun
  <2>1. PICK p \in Profiles :
          \/ StartFresh(p, FALSE)
          \/ journal = NoJournal /\ StartFresh(p, TRUE)
          \/ StartMatched(p)
    BY <1>1 DEF StartRun
  <2>2. UNCHANGED <<disk, scan, seen, kills, edits>>
    BY <1>1 DEF StartRun
  <2>3. CASE StartFresh(p, FALSE) \/ StartFresh(p, TRUE)
    <3>1. man' = NewBatchManifest(p) /\ man' \in Journals /\ Persist(man')
      BY <2>3, ManifestType DEF StartFresh
    <3>2. (Readable(journal) => journal \in Journals)' /\ lost' \in Nat /\ lost' >= lost
      BY <3>1, PersistType
    <3>3. pc' = "entry" /\ at' \in Entries
      BY <2>3, EntriesFinite DEF StartFresh
    <3>. QED BY <2>2, <3>1, <3>2, <3>3 DEF TypeOK, Placed
  <2>4. CASE StartMatched(p)
    <3>1. man' = journal /\ journal \in Journals /\ pc' = "entry" /\ at' \in Entries
          /\ journal' = journal /\ lost' = lost
      BY <2>4, EntriesFinite DEF StartMatched, TypeOK
    <3>. QED BY <2>2, <3>1 DEF TypeOK, Placed, Readable
  <2>. QED BY <2>1, <2>3, <2>4
<1>2. CASE SkipEntry
  <2>1. man \in Journals /\ pc = "entry"
    BY <1>2 DEF SkipEntry, TypeOK
  <2>2. at' \in Entries /\ pc' \in {"off", "entry"} /\ (pc' # "off" => man' = man)
    BY <1>2, <2>1, AdvanceType DEF SkipEntry
  <2>. QED BY <1>2, <2>1, <2>2 DEF SkipEntry, TypeOK, Placed, Readable, budget
<1>3. CASE ActivateEntry
  <2>1. pc = "entry" /\ pc' = "adopt" /\ man \in Journals /\ at \in Entries
    BY <1>3 DEF ActivateEntry, TypeOK
  <2>2. Activated \in EntryTypes /\ Activated.state = "active" /\ EntryOffset \in 0..N
    BY <2>1, ActivatedType
  <2>3. man' = [man EXCEPT !.entries[at] = Activated] /\ Persist(man')
    BY <1>3 DEF ActivateEntry
  <2>4. man' \in Journals /\ man'.entries[at] = Activated
    BY <2>1, <2>2, <2>3, PutType
  <2>5. (Readable(journal) => journal \in Journals)' /\ lost' \in Nat /\ lost' >= lost
    BY <2>3, <2>4, PersistType
  <2>6. scan' \in Scans /\ scan' = [NoScan EXCEPT !.start = scan'.start]
    BY <1>3, <2>2, NoneHeld DEF ActivateEntry, NoScan, Scans, Missing
  <2>7. UNCHANGED <<disk, at, kills, edits>>
    BY <1>3 DEF ActivateEntry
  <2>. QED BY <2>1, <2>2, <2>4, <2>5, <2>6, <2>7 DEF TypeOK, Placed, entry
<1>4. CASE ScanMissing
  <2>1. scan' \in Scans
    BY <1>4 DEF ScanMissing, TypeOK, Scans
  <2>. QED BY <1>4, <2>1 DEF ScanMissing, TypeOK, Placed, Readable, budget, entry
<1>5. CASE Adopt
  <2>1. disk[file].ident \in Nat /\ scan \in Scans
    BY FileTypes DEF TypeOK, Contents
  <2>0. pc = "adopt" /\ scan = [NoScan EXCEPT !.start = scan.start]
    BY <1>5 DEF Adopt, Placed
  <2>2. ASSUME HasClaim
        PROVE  /\ claimed.proof \in Spans /\ Len(claimed.proof) \in 0..N
               /\ scan.start <= Len(claimed.proof)
    BY <2>2, ClaimType
  <2>3. scan' \in Scans /\ Hashes(scan')
    <3>1. CASE HasClaim /\ ~CheapTierReject(claimed.ident, file) /\ verifySpan(file, claimed.proof)
      <4>1. scan' = [scan EXCEPT !.pos = scan.start, !.hashed = claimed.proof,
                         !.seed = Len(claimed.proof), !.ident = disk[file].ident]
        BY <1>5, <3>1 DEF Adopt
      <4>2. scan' \in Scans /\ scan'.pos = scan.start /\ scan'.hashed = claimed.proof
            /\ scan'.seed = Len(claimed.proof) /\ scan.start \in Nat
        <5>1. claimed.proof \in Spans /\ Len(claimed.proof) \in 0..N /\ disk[file].ident \in Nat
              /\ scan.start \in 0..N
          BY <2>1, <2>2, <3>1 DEF Scans
        <5>2. scan.start \in Nat
          BY <5>1, SizeNat
        <5>3. /\ scan'.pos = scan.start /\ scan'.hashed = claimed.proof
              /\ scan'.seed = Len(claimed.proof)
          BY <4>1, <2>1 DEF Scans
        <5>4. scan' \in Scans
          BY <4>1, <2>1, <5>1 DEF Scans
        <5>. QED BY <5>2, <5>3, <5>4
      <4>. QED BY <4>2, <2>2, <3>1, SizeNat DEF Hashes
    <3>2. CASE ~(HasClaim /\ ~CheapTierReject(claimed.ident, file) /\ verifySpan(file, claimed.proof))
      <4>1. scan' = [scan EXCEPT !.start = 0, !.pos = 0, !.ident = disk[file].ident]
        BY <1>5, <3>2 DEF Adopt
      <4>2. scan.hashed = <<>> /\ scan.seed = 0
        BY <2>0, <2>1 DEF NoScan, Scans
      <4>. QED BY <4>1, <4>2, <2>1, NoneHeld DEF Scans, Hashes
    <3>. QED BY <3>1, <3>2
  <2>. QED BY <1>5, <2>3 DEF Adopt, TypeOK, Placed, Readable, budget, entry
<1>6. CASE ReadBlock
  <2>. DEFINE b == scan.pos + 1
  <2>. DEFINE h == IF b > scan.seed THEN Append(scan.hashed, disk[file].bytes[b]) ELSE scan.hashed
  <2>. DEFINE fl == scan.flight \cup {<<file, b, disk[file].bytes[b], man.run>>}
  <2>1. /\ scan \in Scans /\ scan.pos \in Nat /\ scan.seed \in 0..N /\ b \in 1..N
        /\ man.run \in Profiles /\ pc = "scan" /\ scan.hashed \in Spans /\ Hashes(scan)
    BY <1>6, SizeNat DEF ReadBlock, TypeOK, Scans, Journals, Placed
  <2>2. disk[file].bytes[b] \in Versions /\ file \in Files
    BY <2>1, FileTypes DEF Contents
  <2>3. h \in Spans /\ Len(h) = IF b >= scan.seed THEN b ELSE scan.seed
    BY <2>1, <2>2, HashNext
  <2>4. fl \in SUBSET Deliveries
    BY <2>1, <2>2 DEF Scans, Deliveries
  <2>5. scan' = [scan EXCEPT !.pos = b, !.hashed = h, !.flight = fl]
    BY <1>6 DEF ReadBlock
  <2>. HIDE DEF h, fl
  <2>6. scan' \in Scans /\ Hashes(scan')
    <3>1. /\ scan'.start = scan.start /\ scan'.pos = b /\ scan'.hashed = h /\ scan'.seed = scan.seed
          /\ b \in 0..N
      BY <2>1, <2>5, SizeNat DEF Scans
    <3>2. Hashes(scan')
      BY <2>3, <3>1 DEF Hashes
    <3>. HIDE DEF b
    <3>. QED BY <2>1, <2>3, <2>4, <2>5, <3>1, <3>2 DEF Scans
  <2>. QED BY <1>6, <2>1, <2>6 DEF ReadBlock, TypeOK, Placed, Readable, budget, entry
<1>7. CASE FileFrontier
  <2>1. pc = "scan" /\ pc' = pc /\ scan \in Scans /\ scan.pos \in 0..N
    BY <1>7 DEF FileFrontier, TypeOK, Scans
  <2>2. Frontier(scan.pos, None) \in Journals /\ Persist(Frontier(scan.pos, None))
    BY <1>7, <2>1, FrontierType, NoneHeld DEF FileFrontier
  <2>3. (Readable(journal) => journal \in Journals)' /\ lost' \in Nat /\ lost' >= lost
    BY <2>2, PersistType
  <2>4. scan' \in Scans /\ (Hashes(scan) => Hashes(scan'))
    BY <1>7, <2>1 DEF FileFrontier, Scans, Hashes
  <2>. QED BY <1>7, <2>1, <2>3, <2>4 DEF FileFrontier, TypeOK, Placed, entry
<1>8. CASE ScanFails
  <2>1. pc = "scan" /\ pc' = "outcome" /\ scan \in Scans
    BY <1>8 DEF ScanFails, TypeOK
  <2>2. PICK o \in {frozenOffset, scan.start} : Persist(Frontier(o, None))
    BY <1>8 DEF ScanFails
  <2>3. o \in 0..N
    BY <2>1, <2>2 DEF frozenOffset, Scans
  <2>4. Frontier(o, None) \in Journals
    BY <2>1, <2>3, FrontierType, NoneHeld
  <2>5. (Readable(journal) => journal \in Journals)' /\ lost' \in Nat /\ lost' >= lost
    BY <2>2, <2>4, PersistType
  <2>6. scan' \in Scans
    BY <1>8, <2>1 DEF ScanFails, Scans
  <2>. QED BY <1>8, <2>1, <2>5, <2>6 DEF ScanFails, TypeOK, Placed, entry
<1>9. CASE ScanEnds
  <2>1. pc = "scan" /\ pc' = "outcome" /\ scan \in Scans
    BY <1>9 DEF ScanEnds, TypeOK
  <2>2. RunDigest \in Held /\ Persist(Frontier(N, RunDigest))
    BY <1>9, <2>1, NoneHeld DEF ScanEnds, RunDigest, Scans
  <2>3. Frontier(N, RunDigest) \in Journals
    BY <2>1, <2>2, FrontierType, NoneHeld
  <2>4. (Readable(journal) => journal \in Journals)' /\ lost' \in Nat /\ lost' >= lost
    BY <2>2, <2>3, PersistType
  <2>5. scan' \in Scans
    BY <1>9, <2>1 DEF ScanEnds, Scans
  <2>. QED BY <1>9, <2>1, <2>4, <2>5 DEF ScanEnds, TypeOK, Placed, entry
<1>10. CASE RecordOutcome
  <2>. DEFINE m == [man EXCEPT !.entries[at] = Settled(Adopted)]
  <2>1. man \in Journals /\ at \in Entries /\ pc = "outcome"
    BY <1>10 DEF RecordOutcome, TypeOK
  <2>2. Settled(Adopted) \in EntryTypes
    BY <2>1, OutcomeType
  <2>3. m \in Journals
    BY <2>1, <2>2, PutType
  <2>4. Persist(m) /\ Advance /\ Forget(m) /\ scan' = NoScan /\ UNCHANGED <<disk, kills, edits>>
    BY <1>10 DEF RecordOutcome
  <2>. HIDE DEF m
  <2>5. (Readable(journal) => journal \in Journals)' /\ lost' \in Nat /\ lost' >= lost
    BY <2>3, <2>4, PersistType
  <2>6. at' \in Entries /\ pc' \in {"off", "entry"} /\ (pc' # "off" => man' = m)
    BY <2>3, <2>4, AdvanceType
  <2>7. scan' \in Scans
    BY <2>4, NoneHeld DEF NoScan, Scans, Missing
  <2>. QED BY <2>3, <2>4, <2>5, <2>6, <2>7 DEF TypeOK, Placed
<1>11. CASE Kill
  <2>1. scan' \in Scans /\ at' \in Entries /\ pc' = "off"
    BY <1>11, NoneHeld, EntriesFinite DEF Kill, NoScan, Scans, Missing
  <2>. QED BY <1>11, <2>1 DEF Kill, TypeOK, Placed, Readable
<1>12. CASE Edit
  <2>1. pc = "off" /\ pc' = "off" /\ edits' = edits + 1
        /\ UNCHANGED <<journal, man, at, scan, kills, lost>>
    BY <1>12 DEF Edit
  <2>2. PICK f \in Files :
         \/ disk' = [disk EXCEPT ![f].stat = Missing, ![f].ident = Missing]
         \/ \E b \in 1..N, v \in Versions, t \in Stamps :
              disk' = [disk EXCEPT ![f] =
              [bytes |-> [@.bytes EXCEPT ![b] = v], stat |-> t, ident |-> edits + 2]]
    BY <1>12 DEF Edit
  <2>3. disk \in [Files -> Contents] /\ edits \in Nat
    BY DEF TypeOK
  <2>0. f \in Files /\ disk[f] \in Contents
    BY <2>2, <2>3
  <2>4. ASSUME disk' = [disk EXCEPT ![f].stat = Missing, ![f].ident = Missing]
        PROVE  disk' \in [Files -> Contents]
    <3>1. [disk[f] EXCEPT !.stat = Missing, !.ident = Missing] \in Contents
      BY <2>0, NoneHeld DEF Contents, Missing
    <3>2. disk' = [disk EXCEPT ![f] = [disk[f] EXCEPT !.stat = Missing, !.ident = Missing]]
      BY <2>3, <2>4 DEF Contents
    <3>. QED BY <2>3, <2>0, <3>1, <3>2
  <2>5. ASSUME NEW b \in 1..N, NEW v \in Versions, NEW t \in Stamps,
               disk' = [disk EXCEPT ![f] =
              [bytes |-> [@.bytes EXCEPT ![b] = v], stat |-> t, ident |-> edits + 2]]
        PROVE  disk' \in [Files -> Contents]
    <3>1. t \in Nat /\ edits + 2 \in Nat
      BY <2>3 DEF Stamps
    <3>. DEFINE c == [bytes |-> [disk[f].bytes EXCEPT ![b] = v], stat |-> t, ident |-> edits + 2]
    <3>2. [disk[f].bytes EXCEPT ![b] = v] \in [1..N -> Versions]
      BY <2>0 DEF Contents
    <3>3. c \in Contents
      BY <3>1, <3>2 DEF Contents
    <3>4. disk' = [disk EXCEPT ![f] = c]
      BY <2>3, <2>5
    <3>. HIDE DEF c
    <3>. QED BY <2>3, <2>0, <3>3, <3>4
  <2>6. disk' \in [Files -> Contents]
    BY <2>2, <2>4, <2>5
  <2>. QED BY <2>1, <2>3, <2>6 DEF TypeOK, Placed, Readable
<1>13. CASE UNCHANGED vars
  BY <1>13 DEF vars, TypeOK, Placed, Readable, entry
<1>. QED BY <1>1, <1>2, <1>3, <1>4, <1>5, <1>6, <1>7, <1>8, <1>9, <1>10, <1>11, <1>12, <1>13
         DEF Next

-----------------------------------------------------------------------------
(* What a trusted journal and its manifest vouch for, step by step.         *)

LEMMA SameWorld ==
  ASSUME disk' = disk, edits' = edits, seen \subseteq seen'
  PROVE  /\ \A f, n, p : PrefixSeen(World, f, n, p) => PrefixSeen(World', f, n, p)
         /\ \A j : Sound(World, j) => Sound(World', j)
         /\ \A j, m, k : Adoptable(World, j, m, k) => Adoptable(World', j, m, k)
<1>1. World'.disk = World.disk /\ World'.edits = World.edits /\ World.seen \subseteq World'.seen
  BY DEF World
<1>. QED BY <1>1, Carried

LEMMA PersistSound ==
  ASSUME TypeOK, Trusted', NEW j, Persist(j), Sound(World', j),
         Readable(journal) => Sound(World', journal)
  PROVE  /\ (Readable(journal) => Sound(World, journal))'
         /\ \/ journal' = j /\ lost' = lost
            \/ journal' = journal /\ lost = 0 /\ lost' = 1
<1>1. CASE journal' = j /\ UNCHANGED lost
  BY <1>1
<1>2. CASE lost' = lost + 1 /\ UNCHANGED journal
  BY <1>2 DEF TypeOK, Trusted
<1>. QED BY <1>1, <1>2 DEF Persist

LEMMA ManifestSound ==
  ASSUME NEW w, NEW p
  PROVE  Sound(w, NewBatchManifest(p))
<1>. SUFFICES ASSUME NEW i \in Entries
     PROVE  /\ Vouched(w, NewBatchManifest(p).entries[i], List[i], NewBatchManifest(p).run)
            /\ DigestSeen(w, NewBatchManifest(p).entries[i], List[i], NewBatchManifest(p).run)
  BY DEF Sound
<1>1. LET e == NewBatchManifest(p).entries[i]
      IN  e.offset = 0 /\ e.proof = None /\ e.digest = None
  BY DEF NewBatchManifest
<1>2. PrefixSeen(w, List[i], 0, NewBatchManifest(p).run)
  BY DEF PrefixSeen
<1>. QED BY <1>1, <1>2, PointVouched DEF DigestSeen

LEMMA StartTrust ==
  ASSUME BatchInv, Trusted, Trusted', Trust, StartRun
  PROVE  Trust'
<1>1. TypeOK /\ disk' = disk /\ edits' = edits /\ seen' = seen /\ pc' = "entry"
  BY DEF BatchInv, StartRun, StartFresh, StartMatched
<1>2. Readable(journal) => Sound(World', journal)
  BY <1>1, SameWorld DEF Trust
<1>3. PICK p \in Profiles :
        \/ StartFresh(p, FALSE)
        \/ journal = NoJournal /\ StartFresh(p, TRUE)
        \/ StartMatched(p)
  BY DEF StartRun
<1>4. ASSUME StartFresh(p, FALSE) \/ StartFresh(p, TRUE)
      PROVE  /\ Sound(World', man') /\ (Readable(journal) => Sound(World, journal))'
             /\ lost' = 0 => journal' = man'
  <2>1. man' = NewBatchManifest(p) /\ Persist(man')
    BY <1>4 DEF StartFresh
  <2>2. Sound(World', man')
    BY <2>1, ManifestSound
  <2>. QED BY <1>1, <1>2, <2>1, <2>2, PersistSound
<1>5. ASSUME StartMatched(p)
      PROVE  /\ Sound(World', man') /\ (Readable(journal) => Sound(World, journal))'
             /\ lost' = 0 => journal' = man'
  BY <1>2, <1>5 DEF StartMatched
<1>6. /\ Sound(World', man') /\ (Readable(journal) => Sound(World, journal))'
      /\ lost' = 0 => journal' = man'
  BY <1>3, <1>4, <1>5
<1>. QED BY <1>1, <1>6 DEF Trust, InSync, Running

LEMMA ActivateTrust ==
  ASSUME BatchInv, Trusted, Trusted', Trust, ActivateEntry
  PROVE  Trust'
<1>1. TypeOK /\ disk' = disk /\ edits' = edits /\ seen' = seen /\ pc = "entry" /\ pc' = "adopt"
  BY DEF BatchInv, ActivateEntry
<1>2. man \in Journals /\ at \in Entries
  BY <1>1 DEF TypeOK
<1>3. man' = [man EXCEPT !.entries[at] = Activated] /\ Persist(man')
  BY DEF ActivateEntry
<1>4. /\ Activated \in EntryTypes /\ Activated.digest = None
      /\ \/ Activated.offset = entry.offset /\ Activated.proof = entry.proof
         \/ Activated.offset = 0 /\ Activated.proof = None
  BY <1>1, ActivatedType
<1>5. /\ man'.run = man.run /\ man'.entries[at] = Activated
      /\ \A h \in Entries \ {at} : man'.entries[h] = man.entries[h]
  BY <1>2, <1>3, <1>4, PutType
<1>6. Sound(World', man) /\ (Readable(journal) => Sound(World', journal))
  BY <1>1, SameWorld DEF Trust
<1>7. Vouched(World', Activated, List[at], man.run)
  <2>1. Vouched(World', entry, List[at], man.run)
    BY <1>2, <1>6 DEF Sound, entry
  <2>2. CASE Activated.offset = entry.offset /\ Activated.proof = entry.proof
    BY <2>1, <2>2 DEF Vouched
  <2>3. CASE Activated.offset = 0 /\ Activated.proof = None
    BY <2>3, PointVouched DEF PrefixSeen
  <2>. QED BY <1>4, <2>2, <2>3
<1>8. DigestSeen(World', Activated, List[at], man.run)
  BY <1>4 DEF DigestSeen
<1>9. Sound(World', man')
  BY <1>2, <1>5, <1>6, <1>7, <1>8, OneEntry
<1>10. /\ (Readable(journal) => Sound(World, journal))'
       /\ \/ journal' = man' /\ lost' = lost
          \/ journal' = journal /\ lost = 0 /\ lost' = 1
  BY <1>1, <1>3, <1>6, <1>9, PersistSound
<1>11. lost' = 0 => journal' = man'
  BY <1>10
<1>12. journal'.run = man'.run
  <2>1. lost = 0 => journal.run = man.run
    BY <1>1 DEF Trust, InSync
  <2>. QED BY <1>5, <1>10, <2>1
<1>. QED BY <1>1, <1>9, <1>10, <1>11, <1>12 DEF Trust, InSync, Running

LEMMA MissingTrust ==
  ASSUME BatchInv, Trust, ScanMissing
  PROVE  Trust'
<1>1. /\ pc = "adopt" /\ pc' = "outcome" /\ scan'.err = TRUE /\ disk[file].stat = Missing
      /\ UNCHANGED <<disk, journal, man, at, resume, seen, edits, lost>>
  BY DEF ScanMissing, budget, BatchInv, TypeOK, Scans
<1>2. World' = World
  BY <1>1 DEF World
<1>3. Adoptable(World, journal, man, at)
  BY <1>1 DEF Adoptable, World, file
<1>4. /\ Readable(journal) => Sound(World, journal)
      /\ Sound(World, man) /\ journal.run = man.run
  BY <1>1 DEF Trust, InSync, Running
<1>. QED BY <1>1, <1>2, <1>3, <1>4 DEF Trust, InSync, Running

LEMMA AdoptTrust ==
  ASSUME BatchInv, Trust, Adopt
  PROVE  /\ Trust'
         /\ PrefixSeen(World, file, scan'.start, man.run)
         /\ scan'.start \in 0..N
<1>1. /\ pc = "adopt" /\ pc' = "scan" /\ disk[file].stat # Missing /\ scan \in Scans
      /\ scan = [NoScan EXCEPT !.start = scan.start] /\ TypeOK
      /\ UNCHANGED <<disk, journal, man, at, resume, seen, edits, lost>>
  BY DEF Adopt, budget, BatchInv, TypeOK, Placed
<1>2. World' = World /\ file' = file
  BY <1>1 DEF World, file
<1>3. /\ Readable(journal) => Sound(World, journal)
      /\ Sound(World, man) /\ journal.run = man.run
      /\ lost = 0 => journal = man
  BY <1>1 DEF Trust, InSync, Running
<1>4. lost = 0 => Adoptable(World, journal, man, at)
  <2>. SUFFICES ASSUME lost = 0, Readable(journal), NEW i \in Active(journal)
       PROVE  journal.entries[i].offset <= man.entries[at].offset
    BY DEF Adoptable
  <2>1. journal = man /\ journal \in Journals /\ Cardinality(Active(journal)) <= 1
    BY <1>1, <1>3 DEF TypeOK, Readable
  <2>2. at \in Active(journal)
    BY <1>1, <2>1 DEF BatchInv, Placed, Running, TypeOK, Active, Journals, entry
  <2>3. i = at
    BY <2>1, <2>2, OneActive
  <2>4. man.entries[at].offset \in 0..N
    BY <2>1, <2>2 DEF Active, Journals, EntryTypes
  <2>. QED BY <2>1, <2>3, <2>4, SizeNat
<1>5. /\ ScanSound(World, scan', file, man.run)
      /\ PrefixSeen(World, file, scan'.start, man.run)
      /\ scan'.start \in 0..N
  <2>1. CASE HasClaim /\ ~CheapTierReject(claimed.ident, file) /\ verifySpan(file, claimed.proof)
    <3>1. scan' = [scan EXCEPT !.pos = scan.start, !.hashed = claimed.proof,
                       !.seed = Len(claimed.proof), !.ident = disk[file].ident]
      BY <2>1 DEF Adopt
    <3>2. /\ scan'.pos = scan.start /\ scan'.hashed = claimed.proof /\ scan'.start = scan.start
          /\ scan'.filed = 0 /\ scan.start \in 0..N
      BY <1>1, <3>1 DEF Scans, NoScan
    <3>3. PICK i \in Entries :
           /\ Readable(journal) /\ journal \in Journals
           /\ claimed = journal.entries[i] /\ List[i] = file
           /\ claimed.proof # None /\ claimed.proof \in Spans
           /\ Len(claimed.proof) \in 0..N /\ Len(claimed.proof) >= claimed.offset
           /\ claimed.offset \in 0..N
           /\ scan.start <= claimed.offset /\ scan.start <= Len(claimed.proof)
      BY <1>1, <2>1, ClaimType
    <3>4. Vouched(World, claimed, file, man.run)
      BY <1>3, <3>3 DEF Sound
    <3>5. Fits(World.disk[file].bytes, claimed.proof) /\ World.disk[file].stat # Missing
      BY <1>1, <2>1 DEF verifySpan, Fits, World
    <3>6. PrefixSeen(World, file, claimed.offset, man.run)
      BY <3>3, <3>4, <3>5 DEF Vouched
    <3>7. scan.start \in Nat /\ claimed.offset \in Nat /\ scan.start <= claimed.offset
      BY <3>2, <3>3, SizeNat
    <3>8. PrefixSeen(World, file, scan.start, man.run)
      BY <3>6, <3>7 DEF PrefixSeen
    <3>9. PrefixSeen(World, file, 0, man.run)
      BY DEF PrefixSeen
    <3>10. \A b \in 1..scan.start :
             <<file, b, World.disk[file].bytes[b], man.run>> \in World.seen \cup scan'.flight
      BY <3>8 DEF PrefixSeen
    <3>. QED BY <3>2, <3>5, <3>7, <3>8, <3>9, <3>10 DEF ScanSound
  <2>2. CASE ~(HasClaim /\ ~CheapTierReject(claimed.ident, file) /\ verifySpan(file, claimed.proof))
    <3>1. scan' = [scan EXCEPT !.start = 0, !.pos = 0, !.ident = disk[file].ident]
      BY <2>2 DEF Adopt
    <3>2. scan'.start = 0 /\ scan'.pos = 0 /\ scan'.filed = 0 /\ scan'.hashed = <<>>
      BY <1>1, <3>1 DEF Scans, NoScan
    <3>3. PrefixSeen(World, file, 0, man.run)
      BY DEF PrefixSeen
    <3>4. Fits(World.disk[file].bytes, <<>>)
      BY NoneHeld, FitsBytes, FileTypes, <1>1 DEF World, Contents
    <3>. QED BY <3>2, <3>3, <3>4, NoneHeld DEF ScanSound
  <2>. QED BY <2>1, <2>2
<1>. QED BY <1>1, <1>2, <1>3, <1>4, <1>5 DEF Trust, InSync, Running

LEMMA ReadTrust ==
  ASSUME BatchInv, Trust, ReadBlock
  PROVE  Trust'
<1>. DEFINE b == scan.pos + 1
<1>. DEFINE x == disk[file].bytes[b]
<1>. DEFINE h == IF b > scan.seed THEN Append(scan.hashed, x) ELSE scan.hashed
<1>1. /\ pc = "scan" /\ pc' = "scan" /\ scan \in Scans /\ Hashes(scan) /\ TypeOK
      /\ UNCHANGED <<disk, journal, man, at, resume, seen, edits, lost>>
      /\ scan.pos \in Nat /\ b \in 1..N /\ scan.seed \in 0..N /\ scan.hashed \in Spans
      /\ scan.start \in Nat /\ scan.filed \in Nat
  BY SizeNat DEF ReadBlock, budget, BatchInv, TypeOK, Placed, Scans
<1>2. World' = World /\ file' = file
  BY <1>1 DEF World, file
<1>3. /\ Readable(journal) => Sound(World, journal)
      /\ Sound(World, man) /\ journal.run = man.run
      /\ lost = 0 => Adoptable(World, journal, man, at)
      /\ ScanSound(World, scan, file, man.run)
  BY <1>1 DEF Trust, InSync, Running
<1>4. /\ scan'.pos = b /\ scan'.hashed = h /\ scan'.start = scan.start /\ scan'.filed = scan.filed
      /\ scan'.flight = scan.flight \cup {<<file, b, x, man.run>>}
  BY <1>1 DEF ReadBlock, Scans
<1>5. disk[file].bytes \in [1..N -> Versions] /\ x \in Versions
  BY <1>1, FileTypes DEF Contents
<1>6. /\ h \in Spans
      /\ \A c \in 1..Len(h) :
           \/ c \in 1..Len(scan.hashed) /\ h[c] = scan.hashed[c]
           \/ c = b /\ h[c] = x
  BY <1>1, <1>5, HashNext
<1>7. Fits(disk[file].bytes, h)
  <2>1. \A c \in 1..Len(scan.hashed) : disk[file].bytes[c] = scan.hashed[c]
    BY <1>1, <1>3, <1>5, FitsBytes DEF ScanSound, World
  <2>2. \A c \in 1..Len(h) : disk[file].bytes[c] = h[c]
    <3>. HIDE DEF h
    <3>. QED BY <1>6, <2>1
  <2>. HIDE DEF h
  <2>. QED BY <1>5, <1>6, <2>2, FitsBytes
<1>8. \A c \in 1..b :
        <<file, c, World.disk[file].bytes[c], man.run>> \in World.seen \cup scan'.flight
  <2>1. \A c \in 1..b : c \in 1..scan.pos \/ c = b
    BY <1>1
  <2>2. \A c \in 1..scan.pos :
          <<file, c, World.disk[file].bytes[c], man.run>> \in World.seen \cup scan.flight
    BY <1>3 DEF ScanSound
  <2>3. <<file, b, World.disk[file].bytes[b], man.run>> \in scan'.flight
    BY <1>4 DEF World
  <2>. QED BY <1>4, <2>1, <2>2, <2>3
<1>9. scan.start <= b /\ scan.filed <= b
  BY <1>1, <1>3 DEF ScanSound
<1>. HIDE DEF b, x, h
<1>10. Fits(World.disk[file].bytes, h)
  BY <1>7 DEF World
<1>11. ScanSound(World, scan', file, man.run)
  BY <1>3, <1>4, <1>8, <1>9, <1>10 DEF ScanSound
<1>. QED BY <1>1, <1>2, <1>3, <1>11 DEF Trust, InSync, Running

(* Filing a point that was delivered keeps what the journal vouches for.    *)
LEMMA FrontierSound ==
  ASSUME TypeOK, Placed, pc = "scan", NEW o \in 0..N, NEW d \in Held, NEW w,
         Sound(w, man), PrefixSeen(w, file, o, man.run),
         Fits(w.disk[file].bytes, scan.hashed),
         d # None => \A b \in DOMAIN d : <<file, b, d[b], man.run>> \in w.seen,
         Readable(Frontier(o, d))
  PROVE  Sound(w, Frontier(o, d)) /\ Adoptable(w, Frontier(o, d), man, at)
<1>. DEFINE fr == Frontier(o, d)
<1>1. /\ fr \in Journals /\ fr.run = man.run /\ Active(fr) = Active(man) /\ at \in Active(fr)
      /\ \A i \in Entries \ Active(fr) : fr.entries[i] = man.entries[i]
      /\ fr.entries[at].offset = o /\ fr.entries[at].proof = scan.hashed
      /\ fr.entries[at].digest = IF d = None THEN man.entries[at].digest ELSE d
  BY FrontierType
<1>. HIDE DEF fr
<1>2. \A i \in Active(fr) : i = at
  BY <1>1, OneActive DEF Readable, fr
<1>3. at \in Entries
  BY DEF TypeOK
<1>4. Vouched(w, fr.entries[at], List[at], man.run)
  BY <1>1, PointVouched DEF file
<1>5. DigestSeen(w, man.entries[at], List[at], man.run)
  BY <1>3 DEF Sound
<1>6. DigestSeen(w, fr.entries[at], List[at], man.run)
  BY <1>1, <1>5 DEF DigestSeen, file
<1>7. \A i \in Entries \ {at} : fr.entries[i] = man.entries[i]
  BY <1>1, <1>2
<1>8. Sound(w, fr)
  BY <1>1, <1>3, <1>4, <1>6, <1>7, OneEntry
<1>9. Adoptable(w, fr, man, at)
  BY <1>1, <1>2 DEF Adoptable, file
<1>. QED BY <1>8, <1>9 DEF fr

(* The three writes of a pipeline.                                          *)
LEMMA FilingTrust ==
  ASSUME BatchInv, Trusted', Trust, pc = "scan", pc' \in {"scan", "outcome"},
         NEW o \in 0..N, NEW d \in Held, Persist(Frontier(o, d)),
         UNCHANGED <<disk, man, at, edits>>, seen \subseteq seen',
         PrefixSeen(World', file, o, man.run),
         d # None => \A b \in DOMAIN d : <<file, b, d[b], man.run>> \in seen',
         pc' = "scan" => ScanSound(World', scan', file, man.run),
         pc' = "outcome" /\ ~scan'.err => PrefixSeen(World', file, N, man.run)
  PROVE  Trust'
<1>1. TypeOK /\ Placed /\ file' = file
  BY DEF BatchInv, file
<1>2. /\ Sound(World', man) /\ (Readable(journal) => Sound(World', journal))
      /\ lost = 0 => Adoptable(World', journal, man, at)
      /\ journal.run = man.run
  BY <1>1, SameWorld DEF Trust, InSync, Running
<1>3. Fits(World'.disk[file].bytes, scan.hashed)
  BY DEF Trust, ScanSound, World
<1>4. d # None => \A b \in DOMAIN d : <<file, b, d[b], man.run>> \in World'.seen
  BY DEF World
<1>5. ASSUME Readable(Frontier(o, d))
      PROVE  Sound(World', Frontier(o, d)) /\ Adoptable(World', Frontier(o, d), man, at)
  BY <1>1, <1>2, <1>3, <1>4, <1>5, FrontierSound
<1>6. ~Readable(Frontier(o, d)) => Adoptable(World', Frontier(o, d), man, at)
  BY DEF Adoptable
<1>7. Adoptable(World', Frontier(o, d), man, at)
  BY <1>5, <1>6
<1>8. Frontier(o, d).run = man.run
  BY <1>1, FrontierType
<1>9. \/ journal' = Frontier(o, d) /\ lost' = lost
      \/ journal' = journal /\ lost' = lost + 1
  BY DEF Persist
<1>10. CASE journal' = Frontier(o, d) /\ lost' = lost
  <2>1. (Readable(journal) => Sound(World, journal))'
    BY <1>5, <1>10
  <2>2. Adoptable(World', journal', man', at') /\ journal'.run = man'.run
    BY <1>7, <1>8, <1>10
  <2>. QED BY <1>1, <1>2, <2>1, <2>2 DEF Trust, InSync, Running
<1>11. CASE journal' = journal /\ lost' = lost + 1
  <2>1. (Readable(journal) => Sound(World, journal))'
    BY <1>2, <1>11
  <2>2. lost = 0 /\ lost' = 1
    BY <1>1, <1>11 DEF TypeOK, Trusted
  <2>3. Adoptable(World', journal', man', at') /\ journal'.run = man'.run
    BY <1>2, <1>11, <2>2
  <2>. QED BY <1>1, <1>2, <2>1, <2>2, <2>3 DEF Trust, InSync, Running
<1>. QED BY <1>9, <1>10, <1>11

LEMMA FileFrontierTrust ==
  ASSUME BatchInv, Trusted', Trust, FileFrontier
  PROVE  Trust'
<1>1. /\ pc = "scan" /\ pc' = "scan" /\ scan \in Scans /\ file' = file
      /\ UNCHANGED <<disk, man, at, edits>> /\ seen' = seen \cup scan.flight
      /\ Persist(Frontier(scan.pos, None)) /\ scan.pos \in 0..N
      /\ ScanSound(World, scan, file, man.run)
  BY DEF FileFrontier, BatchInv, TypeOK, Scans, file, Trust
<1>2. scan'.filed = scan.pos /\ scan'.flight = {} /\ scan'.pos = scan.pos
      /\ scan'.start = scan.start /\ scan'.hashed = scan.hashed
  BY <1>1 DEF FileFrontier, Scans
<1>3. PrefixSeen(World', file, scan.pos, man.run)
  BY <1>1 DEF ScanSound, PrefixSeen, World
<1>4. PrefixSeen(World', file, scan.start, man.run)
  BY <1>1, SameWorld DEF ScanSound
<1>5. World'.disk = World.disk
  BY <1>1 DEF World
<1>6. scan.pos <= scan.pos
  BY <1>1, SizeNat
<1>7. ScanSound(World', scan', file, man.run)
  BY <1>1, <1>2, <1>3, <1>4, <1>5, <1>6 DEF ScanSound, PrefixSeen
<1>. QED BY <1>1, <1>3, <1>7, NoneHeld, FilingTrust

LEMMA ScanFailsTrust ==
  ASSUME BatchInv, Trusted', Trust, ScanFails
  PROVE  Trust'
<1>1. /\ pc = "scan" /\ pc' = "outcome" /\ scan \in Scans
      /\ UNCHANGED <<disk, man, at, edits, seen>>
      /\ ScanSound(World, scan, file, man.run)
  BY DEF ScanFails, BatchInv, TypeOK, Trust
<1>2. PICK o \in {frozenOffset, scan.start} : Persist(Frontier(o, None))
  BY DEF ScanFails
<1>3. o \in {scan.filed, scan.start} /\ o \in 0..N
  BY <1>1, <1>2 DEF frozenOffset, Scans
<1>4. scan'.err = TRUE
  BY <1>1 DEF ScanFails, Scans
<1>5. PrefixSeen(World', file, o, man.run)
  BY <1>1, <1>3, SameWorld DEF ScanSound
<1>. QED BY <1>1, <1>2, <1>3, <1>4, <1>5, NoneHeld, FilingTrust

LEMMA ScanEndsTrust ==
  ASSUME BatchInv, Trusted', Trust, ScanEnds
  PROVE  Trust'
<1>1. /\ pc = "scan" /\ pc' = "outcome" /\ scan \in Scans /\ scan.pos = N /\ Hashes(scan)
      /\ UNCHANGED <<disk, man, at, edits>> /\ seen' = seen \cup scan.flight
      /\ Persist(Frontier(N, RunDigest)) /\ TypeOK
      /\ ScanSound(World, scan, file, man.run)
  BY DEF ScanEnds, BatchInv, TypeOK, Trust, Placed
<1>2. PrefixSeen(World', file, N, man.run)
  BY <1>1 DEF ScanSound, PrefixSeen, World
<1>3. RunDigest \in Held /\ (RunDigest # None => RunDigest = scan.hashed)
  BY <1>1, NoneHeld DEF RunDigest, Scans
<1>4. \A b \in DOMAIN scan.hashed : <<file, b, scan.hashed[b], man.run>> \in seen'
  <2>1. scan.hashed \in Spans /\ scan.seed \in 0..N
    BY <1>1 DEF Scans
  <2>2. Len(scan.hashed) = N /\ DOMAIN scan.hashed = 1..N
    <3>1. Len(scan.hashed) = N
      BY <1>1, <2>1, SizeNat DEF Hashes
    <3>. QED BY <2>1, <3>1, LenProperties DEF Spans
  <2>3. disk[file].bytes \in [1..N -> Versions] /\ Fits(disk[file].bytes, scan.hashed)
    BY <1>1, FileTypes DEF Contents, ScanSound, World
  <2>4. \A b \in 1..N : disk[file].bytes[b] = scan.hashed[b]
    BY <2>1, <2>2, <2>3, FitsBytes
  <2>5. \A b \in 1..N : <<file, b, disk[file].bytes[b], man.run>> \in seen'
    BY <1>1, <1>2 DEF PrefixSeen, World
  <2>. QED BY <2>2, <2>4, <2>5
<1>5. RunDigest # None => \A b \in DOMAIN RunDigest : <<file, b, RunDigest[b], man.run>> \in seen'
  BY <1>3, <1>4
<1>6. N \in 0..N
  BY NoneHeld
<1>. QED BY <1>1, <1>2, <1>3, <1>5, <1>6, FilingTrust

LEMMA OutcomeTrust ==
  ASSUME BatchInv, Trusted, Trusted', Trust, RecordOutcome
  PROVE  Trust'
<1>. DEFINE e == Settled(Adopted)
<1>. DEFINE m == [man EXCEPT !.entries[at] = e]
<1>1. /\ pc = "outcome" /\ pc' \in {"off", "entry"} /\ man \in Journals /\ at \in Entries
      /\ UNCHANGED <<disk, seen, edits>> /\ TypeOK
      /\ Persist(m) /\ (pc' # "off" => man' = m)
  <2>1. pc = "outcome" /\ man \in Journals /\ at \in Entries /\ TypeOK
    BY DEF RecordOutcome, BatchInv, TypeOK
  <2>2. Persist(m) /\ Advance /\ Forget(m) /\ UNCHANGED <<disk, seen, edits>>
    BY DEF RecordOutcome
  <2>3. m \in Journals
    BY <2>1, OutcomeType, PutType
  <2>. HIDE DEF m
  <2>4. pc' \in {"off", "entry"} /\ (pc' # "off" => man' = m)
    BY <2>1, <2>2, <2>3, AdvanceType
  <2>. QED BY <2>1, <2>2, <2>4
<1>2. World' = World
  BY <1>1 DEF World
<1>3. /\ Readable(journal) => Sound(World, journal)
      /\ Sound(World, man) /\ journal.run = man.run
      /\ Adoptable(World, journal, man, at)
      /\ ~scan.err => PrefixSeen(World, file, N, man.run)
  BY <1>1 DEF Trust, InSync, Running
<1>4. /\ entry \in EntryTypes /\ Adopted \in EntryTypes /\ e \in EntryTypes
      /\ Adopted.proof = entry.proof
      /\ \/ Adopted.offset = entry.offset /\ Adopted.digest = entry.digest
         \/ /\ Readable(journal) /\ journal \in Journals
            /\ \E i \in Active(journal) :
                /\ List[i] = file
                /\ Adopted = AdoptFiled(entry, journal.entries[i])
  BY <1>1, OutcomeType
<1>5. Vouched(World, entry, file, man.run) /\ DigestSeen(World, entry, file, man.run)
  BY <1>1, <1>3 DEF Sound, entry, file
<1>6. Vouched(World, Adopted, file, man.run) /\ DigestSeen(World, Adopted, file, man.run)
  <2>1. CASE Adopted.offset = entry.offset /\ Adopted.digest = entry.digest
    BY <1>4, <1>5, <2>1 DEF Vouched, DigestSeen
  <2>2. ASSUME Readable(journal), journal \in Journals, NEW i \in Active(journal),
               List[i] = file, Adopted = AdoptFiled(entry, journal.entries[i])
        PROVE  Vouched(World, Adopted, file, man.run) /\ DigestSeen(World, Adopted, file, man.run)
    <3>. DEFINE t == journal.entries[i]
    <3>1. i \in Entries /\ t \in EntryTypes
      BY <2>2 DEF Active, Journals
    <3>2. DigestSeen(World, t, file, man.run)
      BY <1>3, <2>2, <3>1 DEF Sound
    <3>3. /\ Adopted.offset = IF scan.err /\ t.offset > entry.offset THEN t.offset ELSE entry.offset
          /\ Adopted.digest = IF ~scan.err /\ t.digest # None THEN t.digest ELSE entry.digest
      BY <1>4, <2>2 DEF AdoptFiled, EntryTypes
    <3>4. \/ disk[file].stat = Missing
          \/ t.offset <= entry.offset
          \/ PrefixSeen(World, file, t.offset, man.run)
      BY <1>3, <2>2 DEF Adoptable, World, entry, file
    <3>5. t.offset \in Nat /\ entry.offset \in Nat
      BY <1>4, <3>1, SizeNat DEF EntryTypes
    <3>. HIDE DEF t
    <3>6. DigestSeen(World, Adopted, file, man.run)
      BY <1>5, <3>2, <3>3 DEF DigestSeen
    <3>7. CASE Adopted.offset = entry.offset
      BY <1>4, <1>5, <3>6, <3>7 DEF Vouched
    <3>8. CASE Adopted.offset # entry.offset
      <4>1. Adopted.offset = t.offset /\ ~(t.offset <= entry.offset)
        BY <3>3, <3>5, <3>8
      <4>2. CASE PrefixSeen(World, file, t.offset, man.run)
        <5>1. World.edits = 0 => (Adopted.proof = None \/ Fits(World.disk[file].bytes, Adopted.proof))
          BY <1>4, <1>5 DEF Vouched
        <5>2. PrefixSeen(World, file, Adopted.offset, man.run)
          BY <4>1, <4>2
        <5>3. Vouched(World, Adopted, file, man.run)
          BY <5>1, <5>2, PointVouched
        <5>. QED BY <3>6, <5>3
      <4>3. CASE disk[file].stat = Missing
        <5>1. edits # 0
          BY <1>1, <4>3, FileTypes DEF BatchInv, Placed
        <5>2. Vouched(World, Adopted, file, man.run)
          BY <4>3, <5>1 DEF Vouched, World
        <5>. QED BY <3>6, <5>2
      <4>. QED BY <3>4, <4>1, <4>2, <4>3
    <3>. QED BY <3>7, <3>8
  <2>. QED BY <1>4, <2>1, <2>2
<1>7. Vouched(World, e, file, man.run) /\ DigestSeen(World, e, file, man.run)
  <2>1. /\ e.digest = Adopted.digest /\ e.proof = Adopted.proof
        /\ e.offset = IF scan.err THEN Adopted.offset ELSE IF Adopted.stat = Missing THEN 0 ELSE N
    BY <1>4 DEF Settled, EntryTypes
  <2>. HIDE DEF e
  <2>2. DigestSeen(World, e, file, man.run)
    BY <1>6, <2>1 DEF DigestSeen
  <2>3. CASE scan.err
    BY <1>6, <2>1, <2>2, <2>3 DEF Vouched
  <2>4. CASE ~scan.err
    <3>1. PrefixSeen(World, file, e.offset, man.run)
      BY <1>3, <2>1, <2>4 DEF PrefixSeen
    <3>2. World.edits = 0 => (e.proof = None \/ Fits(World.disk[file].bytes, e.proof))
      BY <1>6, <2>1 DEF Vouched
    <3>3. Vouched(World, e, file, man.run)
      BY <3>1, <3>2, PointVouched
    <3>. QED BY <2>2, <3>3
  <2>. QED BY <2>3, <2>4
<1>8. Sound(World', m)
  <2>. HIDE DEF e
  <2>1. /\ m.run = man.run /\ m.entries[at] = e
        /\ \A h \in Entries \ {at} : m.entries[h] = man.entries[h]
    BY <1>1, <1>4, PutType
  <2>. HIDE DEF m
  <2>. QED BY <1>1, <1>2, <1>3, <1>7, <2>1, OneEntry DEF file
<1>. HIDE DEF m
<1>9. /\ (Readable(journal) => Sound(World, journal))'
      /\ \/ journal' = m /\ lost' = lost
         \/ journal' = journal /\ lost = 0 /\ lost' = 1
  BY <1>1, <1>2, <1>3, <1>8, PersistSound
<1>10. pc' = "entry" /\ lost' = 0 => journal' = man'
  BY <1>1, <1>9
<1>. QED BY <1>1, <1>8, <1>9, <1>10 DEF Trust, InSync, Running

LEMMA EditTrust ==
  ASSUME BatchInv, TypeOK', Trusted', Trust, Edit
  PROVE  Trust'
<1>1. /\ pc' = "off" /\ journal' = journal /\ seen' = seen /\ edits' = edits + 1
      /\ edits \in Nat
  BY DEF Edit, BatchInv, TypeOK
<1>2. edits = 0 /\ edits' = 1
  BY <1>1 DEF Trusted
<1>3. /\ World.disk \in [Files -> Contents] /\ World'.disk \in [Files -> Contents]
      /\ World.edits = 0 /\ World'.edits # 0 /\ World'.seen = World.seen
  BY <1>1, <1>2 DEF World, BatchInv, TypeOK
<1>4. ASSUME Readable(journal)
      PROVE  Sound(World', journal)
  <2>1. journal \in Journals /\ Sound(World, journal)
    BY <1>4 DEF Trust, BatchInv, TypeOK
  <2>. QED BY <1>3, <2>1, Replaced
<1>. QED BY <1>1, <1>4 DEF Trust, InSync, Running

LEMMA TrustStep ==
  ASSUME BatchInv, [Next]_vars, Trusted'
  PROVE  Trust'
<1>1. /\ TypeOK /\ Placed /\ TypeOK' /\ Placed' /\ lost' >= lost /\ edits' >= edits
  BY TypeStep DEF BatchInv
<1>2. Trusted
  BY <1>1 DEF Trusted, TypeOK
<1>3. Trust
  BY <1>2 DEF BatchInv
<1>4. ASSUME SkipEntry \/ Kill \/ UNCHANGED vars
      PROVE  Trust'
  <2>1. UNCHANGED <<disk, journal, seen, edits, lost>>
    BY <1>4 DEF SkipEntry, Kill, vars, budget
  <2>2. World' = World
    BY <2>1 DEF World
  <2>3. CASE SkipEntry
    <3>1. pc = "entry" /\ man \in Journals
      BY <2>3, <1>1 DEF SkipEntry, TypeOK
    <3>2. pc' \in {"off", "entry"} /\ (pc' # "off" => man' = man)
      BY <2>3, <1>1, <3>1, AdvanceType DEF SkipEntry
    <3>. QED BY <1>3, <2>1, <2>2, <3>1, <3>2 DEF Trust, InSync, Running
  <2>4. CASE Kill
    BY <1>3, <2>1, <2>2, <2>4 DEF Kill, Trust, InSync, Running
  <2>5. CASE UNCHANGED vars
    BY <1>3, <2>1, <2>2, <2>5 DEF vars, Trust, InSync, Running, file
  <2>. QED BY <1>4, <2>3, <2>4, <2>5
<1>5. CASE Edit
  <2>1. /\ pc' = "off" /\ journal' = journal /\ seen' = seen
    BY <1>5 DEF Edit
  <2>. QED BY <1>1, <1>3, <1>5, EditTrust
<1>6. CASE StartRun \/ ActivateEntry
  BY <1>2, <1>3, <1>6, StartTrust, ActivateTrust
<1>7. CASE ScanMissing \/ Adopt \/ ReadBlock
  BY <1>3, <1>7, MissingTrust, AdoptTrust, ReadTrust
<1>8. CASE FileFrontier \/ ScanFails \/ ScanEnds
  BY <1>3, <1>8, FileFrontierTrust, ScanFailsTrust, ScanEndsTrust
<1>9. CASE RecordOutcome
  BY <1>2, <1>3, <1>9, OutcomeTrust
<1>. QED BY <1>4, <1>5, <1>6, <1>7, <1>8, <1>9 DEF Next

LEMMA BatchInvStep == BatchInv /\ [Next]_vars => BatchInv'
BY TypeStep, TrustStep DEF BatchInv

-----------------------------------------------------------------------------
(* The theorems.                                                            *)

LEMMA BatchInvariant == Spec => []BatchInv
<1>1. BatchInv /\ [Next]_vars => BatchInv'
  BY BatchInvStep
<1>. QED BY <1>1, InitHolds, PTL DEF Spec

(* Every digest in a journal that can be read pins bytes delivered under    *)
(* that journal's options, whatever was killed, failed and resumed          *)
(* (writeFrontier, runMultiTarget).                                         *)
THEOREM DigestsVouch == Spec => []DigestsSeen
<1>1. ASSUME BatchInv PROVE DigestsSeen
  <2>. SUFFICES ASSUME Trusted, Readable(journal), NEW i \in DOMAIN journal.entries,
                       journal.entries[i].digest # None
       PROVE  BytesSeen(List[i], journal.entries[i].digest, journal.run)
    BY DEF DigestsSeen
  <2>1. i \in Entries /\ Sound(World, journal)
    BY <1>1 DEF BatchInv, TypeOK, Journals, Trust
  <2>2. DigestSeen(World, journal.entries[i], List[i], journal.run)
    BY <2>1 DEF Sound
  <2>. QED BY <2>2 DEF DigestSeen, BytesSeen, World
<1>. QED BY <1>1, BatchInvariant, PTL

(* A resume that starts past byte 0 leaves out only bytes some run          *)
(* delivered, as they are now (batchEntryStart, claimForEntry, adoptResume).*)
THEOREM ResumesVouch == Spec => ResumeSkipsOnlySeen
<1>1. ASSUME BatchInv, [Next]_vars PROVE Trusted => SkipsOnlySeen
  <2>. SUFFICES ASSUME Trusted, pc = "adopt", pc' = "scan"
       PROVE  BytesSeen(file, SubSeq(disk[file].bytes, 1, scan'.start), man.run)
    BY DEF SkipsOnlySeen
  <2>1. Adopt
    <3>1. /\ ~StartRun /\ ~SkipEntry /\ ~ActivateEntry
      BY DEF StartRun, SkipEntry, ActivateEntry
    <3>2. /\ ~ScanMissing /\ ~ReadBlock /\ ~FileFrontier /\ ~ScanFails /\ ~ScanEnds
      BY DEF ScanMissing, ReadBlock, FileFrontier, ScanFails, ScanEnds
    <3>3. ~RecordOutcome /\ ~Kill /\ ~Edit /\ ~UNCHANGED vars
      BY DEF RecordOutcome, Kill, Edit, vars
    <3>. QED BY <1>1, <3>1, <3>2, <3>3 DEF Next
  <2>2. PrefixSeen(World, file, scan'.start, man.run) /\ scan'.start \in 0..N
    BY <1>1, <2>1, AdoptTrust DEF BatchInv
  <2>3. disk[file].bytes \in [1..N -> Versions]
    BY <1>1, FileTypes DEF BatchInv, Contents
  <2>. DEFINE n == scan'.start
  <2>. DEFINE bytes == disk[file].bytes
  <2>4. n \in Nat /\ n <= N /\ \A b \in 1..n : bytes[b] \in Versions
    BY <2>2, <2>3, SizeNat
  <2>. HIDE DEF n, bytes
  <2>5. /\ SubSeq(bytes, 1, n) \in Seq(Versions)
        /\ Len(SubSeq(bytes, 1, n)) = IF 1 <= n THEN n - 1 + 1 ELSE 0
        /\ \A b \in 1 .. n - 1 + 1 : SubSeq(bytes, 1, n)[b] = bytes[1 + b - 1]
    BY <2>4, SubSeqProperties
  <2>6. Len(SubSeq(bytes, 1, n)) = n /\ \A b \in 1..n : SubSeq(bytes, 1, n)[b] = bytes[b]
    <3>1. \A b \in 1..n : b \in 1 .. n - 1 + 1 /\ 1 + b - 1 = b
      BY <2>4
    <3>. QED BY <2>4, <2>5, <3>1
  <2>7. DOMAIN SubSeq(bytes, 1, n) = 1..n
    BY <2>5, <2>6, LenProperties
  <2>8. \A b \in 1..n : <<file, b, bytes[b], man.run>> \in seen
    BY <2>2 DEF PrefixSeen, World, n, bytes
  <2>9. BytesSeen(file, SubSeq(bytes, 1, n), man.run)
    BY <2>6, <2>7, <2>8 DEF BytesSeen
  <2>. QED BY <2>9 DEF n, bytes
<1>. QED BY <1>1, BatchInvariant, PTL DEF Spec, ResumeSkipsOnlySeen

(* A target that is skipped holds only bytes delivered before under the     *)
(* same run options (runMultiTarget's skip of a complete entry).            *)
THEOREM SkipsVouch == Spec => SkipVouches
<1>1. ASSUME BatchInv, [Next]_vars
      PROVE  Trusted /\ pc = "entry" /\ pc' # "adopt" /\ kills' = kills =>
               BytesSeen(file, disk[file].bytes, man.run) \/ UNCHANGED vars
  <2>. SUFFICES ASSUME Trusted, pc = "entry", pc' # "adopt", kills' = kills, ~UNCHANGED vars
       PROVE  BytesSeen(file, disk[file].bytes, man.run)
    OBVIOUS
  <2>1. SkipEntry
    <3>1. ~StartRun /\ ~ActivateEntry
      BY DEF StartRun, ActivateEntry
    <3>2. ~ScanMissing /\ ~Adopt /\ ~ReadBlock /\ ~FileFrontier /\ ~ScanFails /\ ~ScanEnds
      BY DEF ScanMissing, Adopt, ReadBlock, FileFrontier, ScanFails, ScanEnds
    <3>3. ~RecordOutcome /\ ~Edit
      BY DEF RecordOutcome, Edit
    <3>4. ~Kill
      BY <1>1 DEF Kill, BatchInv, TypeOK
    <3>. QED BY <1>1, <3>1, <3>2, <3>3, <3>4 DEF Next
  <2>2. entry.digest # None /\ disk[file].bytes = entry.digest
    BY <2>1 DEF SkipEntry, MaySkip, VerifyBatchDigest
  <2>3. Sound(World, man) /\ at \in Entries
    BY <1>1 DEF BatchInv, Trust, TypeOK
  <2>4. DigestSeen(World, entry, file, man.run)
    BY <2>3 DEF Sound, entry, file
  <2>. QED BY <2>2, <2>4 DEF DigestSeen, BytesSeen, World
<1>2. ASSUME BatchInv, [Next]_vars
      PROVE  [Trusted /\ pc = "entry" /\ pc' # "adopt" /\ kills' = kills =>
                BytesSeen(file, disk[file].bytes, man.run)]_vars
  BY <1>1, <1>2
<1>. QED BY <1>2, BatchInvariant, PTL DEF Spec, SkipVouches

=============================================================================
