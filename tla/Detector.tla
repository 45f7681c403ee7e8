------------------------------ MODULE Detector ------------------------------
(* What one target's blocks report: detectWallets (detector/detector.go)     *)
(* over the blocks that readTarget cuts, each behind the end of the one      *)
(* before. Offsets are from 0; a match is the half-open interval start, end. *)
(* The matchers stand for families: a needle, which a block reports once; an *)
(* object and a PEM header, found in the raw bytes; a key and a token, found *)
(* in the runs of letters that the edges leave; a seed of one whole word     *)
(* (Electrum) and a phrase of two (BIP39, SLIP39).                           *)
EXTENDS Naturals, Sequences, FiniteSets

CONSTANTS
  Texts,       \* the contents a target may have, sequences of characters
  Letter,      \* characters of which words and keys are made (isBIP39Letter, isBase58Char)
  Zero,        \* what a fresh buffer holds, no letter
  Needle, Object, Header, Key, Token,   \* what is looked for, at most MaxSpan long
  Words,       \* the word list, runs of letters
  MaxSpan,     \* the longest phrase
  Block,       \* blockSize
  Starts       \* start offsets (resumes) within a text

ASSUME MatchAssumption ==
  /\ MaxSpan \in Nat \ {0} /\ Block \in Nat \ {0} /\ Starts \subseteq Nat
  /\ \A t \in Texts : t \in Seq({t[i] : i \in DOMAIN t})
  /\ \A p \in {Needle, Object, Header, Key, Token} : Len(p) \in 1 .. MaxSpan

VARIABLES
  text, start,
  pos,             \* currentOffset
  tail, haveTail,
  block,           \* the block on its way to the detector, or None
  reader,              \* the reader: "read" or "over"
  cut,             \* history: the blocks sent, in order
  reports          \* history: [kind, start, end, by], by the offset of the block

matchVars == <<text, start, pos, tail, haveTail, block, reader, cut, reports>>

None == <<>>

(* One less than the longest pattern and one.                                *)
scanOverlap == MaxSpan

-----------------------------------------------------------------------------
(* The reader, with short reads and unreadable ranges at any place.          *)

prefix == IF haveTail THEN scanOverlap ELSE 0
NewBlock(n, final) ==
  [offset |-> pos - prefix, overlap |-> prefix, final |-> final,
   data |-> (IF haveTail THEN tail ELSE <<>>) \o SubSeq(text, pos + 1, pos + n)]

SendBlock ==
  /\ reader = "read" /\ block = None
  /\ \E n \in 1 .. Block :
       /\ pos + n <= Len(text)
       /\ LET b == NewBlock(n, pos + n = Len(text) /\ n < Block) IN
          /\ block' = b
          /\ cut' = Append(cut, b)
          /\ tail' = IF Len(b.data) >= scanOverlap
                       THEN SubSeq(b.data, Len(b.data) - scanOverlap + 1, Len(b.data)) ELSE tail
          /\ reader' = IF b.final THEN "over" ELSE "read"
       /\ pos' = pos + n
  /\ haveTail' = TRUE
  /\ UNCHANGED <<text, start, reports>>

SkipUnreadable ==
  /\ reader = "read" /\ block = None /\ pos < Len(text)
  /\ pos' = pos + Block
  /\ haveTail' = FALSE
  /\ UNCHANGED <<text, start, tail, block, reader, cut, reports>>

EndOfTarget ==
  /\ reader = "read" /\ block = None /\ pos >= Len(text)
  /\ reader' = "over"
  /\ UNCHANGED <<text, start, pos, tail, haveTail, block, cut, reports>>

-----------------------------------------------------------------------------
(* The matchers, over the data of a block.                                   *)

Found(kind, s, e) == [kind |-> kind, start |-> s, end |-> e]

(* Where pattern p is in d, within the offsets lo to hi.                     *)
Occurrences(kind, p, d, lo, hi) ==
  {Found(kind, i, i + Len(p)) :
     i \in {j \in lo .. hi - Len(p) : SubSeq(d, j + 1, j + Len(p)) = p}}

(* The maximal runs of letters in d between lo and hi.                       *)
RunOf(d, s, e) == \A i \in s + 1 .. e : d[i] \in Letter
Runs(d, lo, hi) ==
  {r \in (lo .. hi) \X (lo .. hi) :
     /\ r[1] < r[2] /\ RunOf(d, r[1], r[2])
     /\ r[1] = lo \/ d[r[1]] \notin Letter
     /\ r[2] = hi \/ d[r[2] + 1] \notin Letter}

\* Faulty: the edges are taken as they come.
trimEdgeFragmentsNot(d, first, final) == <<0, Len(d)>>

(* The data without a run of letters at an edge that is not the target's.    *)
trimEdgeFragments(d, first, final) ==
  LET lo == IF first THEN 0
            ELSE CHOOSE s \in 0 .. Len(d) :
                   RunOf(d, 0, s) /\ (s = Len(d) \/ d[s + 1] \notin Letter)
      hi == IF final THEN Len(d)
            ELSE CHOOSE e \in lo .. Len(d) :
                   RunOf(d, e, Len(d)) /\ (e = lo \/ d[e] \notin Letter)
  IN <<lo, hi>>

findKeystores(d) == Occurrences("object", Object, d, 0, Len(d))
findKeys(d, w) == Occurrences("key", Key, d, w[1], w[2])
findSecrets(d, w) ==
  Occurrences("pem", Header, d, 0, Len(d)) \cup Occurrences("token", Token, d, w[1], w[2])

(* The words of the list, the runs whole.                                    *)
ListedWords(d, w) == {t \in Runs(d, w[1], w[2]) : SubSeq(d, t[1] + 1, t[2]) \in Words}

findElectrumSeeds(d, w) == {Found("seed", t[1], t[2]) : t \in ListedWords(d, w)}

(* Two neighbouring words of the list, within the span.                      *)
findBIP39Phrases(d, w) ==
  LET valid == ListedWords(d, w)
  IN {Found("phrase", p[1][1], p[2][2]) :
        p \in {q \in valid \X valid :
                 /\ q[1][2] < q[2][1] /\ q[2][2] - q[1][1] <= MaxSpan
                 /\ ~\E t \in Runs(d, w[1], w[2]) : q[1][2] < t[1] /\ t[2] < q[2][1]}}

(* A seed within a longer phrase of the same block is taken for part of it.  *)
suppressedByBIP39(m, exact) ==
  \E e \in exact : /\ e.start <= m.start /\ m.end <= e.end
                   /\ e.end - e.start > m.end - m.start

\* Faulty: what begins in the overlap is left to the block before.
EndsPastStart(b, m) == m.start >= b.overlap

(* A match that ends within the overlap was reported with the block before.  *)
EndsPast(b, m) == m.end > b.overlap

firstOnly(ms) == {m \in ms : \A o \in ms : m.start <= o.start}

Matches(b) ==
  LET d == b.data
      w == trimEdgeFragments(d, b.overlap = 0, b.final)
      exact == findBIP39Phrases(d, w)
      seeds == {m \in findElectrumSeeds(d, w) : ~suppressedByBIP39(m, exact)}
      found == findKeystores(d) \cup findSecrets(d, w) \cup findKeys(d, w) \cup seeds \cup exact
      needles == Occurrences("needle", Needle, d, 0, Len(d))
  IN firstOnly({m \in needles : EndsPast(b, m)}) \cup {m \in found : EndsPast(b, m)}

detectWallets ==
  /\ block # None
  /\ reports' = reports \cup
       {[kind |-> m.kind, start |-> block.offset + m.start, end |-> block.offset + m.end,
         by |-> block.offset + block.overlap] : m \in Matches(block)}
  /\ block' = None
  /\ UNCHANGED <<text, start, pos, tail, haveTail, reader, cut>>

-----------------------------------------------------------------------------

MatchInit ==
  /\ text \in Texts /\ start \in {s \in Starts : s <= Len(text)}
  /\ pos = start /\ tail = [i \in 1 .. scanOverlap |-> Zero] /\ haveTail = FALSE
  /\ block = None /\ reader = "read" /\ cut = <<>> /\ reports = {}

MatchNext == SendBlock \/ SkipUnreadable \/ EndOfTarget \/ detectWallets
MatchSpec == MatchInit /\ [][MatchNext]_matchVars

-----------------------------------------------------------------------------
(* What is in the text, and how the blocks lie over it.                      *)

All == <<0, Len(text)>>
InText == Occurrences("needle", Needle, text, 0, Len(text)) \cup findKeystores(text)
          \cup findSecrets(text, All) \cup findKeys(text, All)
          \cup findElectrumSeeds(text, All) \cup findBIP39Phrases(text, All)

From(b) == b.offset + b.overlap
To(b) == b.offset + Len(b.data)

(* The tail carried over is what came before: no block was shorter.          *)
Sound == \A i \in DOMAIN cut : Len(cut[i].data) >= scanOverlap

(* All the bytes of m were read, with no gap between them.                   *)
Whole(m) ==
  \E i, j \in DOMAIN cut :
    /\ From(cut[i]) <= m.start /\ From(cut[j]) < m.end /\ m.end <= To(cut[j])
    /\ \A k \in i .. j - 1 : To(cut[k]) = From(cut[k + 1])

(* The block in which m ends sees its runs of letters whole: they do not     *)
(* reach the end of a block that is not final, nor back over the overlap.    *)
InSight(m) ==
  \E i \in DOMAIN cut :
    LET b == cut[i] IN
    /\ From(b) < m.end /\ m.end <= To(b)
    /\ b.final \/ ~RunOf(text, m.end - 1, To(b))
    /\ b.overlap = 0 \/ ~RunOf(text, b.offset, m.start + 1)

Over == reader = "over" /\ block = None
Reported(m) == {r \in reports : r.kind = m.kind /\ r.start = m.start /\ r.end = m.end}

(* What is in the text and was read whole is reported exactly once: needles  *)
(* unless the same block reports an earlier one; what is made of runs of     *)
(* letters at most once, and once if the block in which it ends sees these,  *)
(* unless it is a seed within a phrase that is reported.                     *)
FoundOnce ==
  Over /\ Sound =>
    \A m \in InText : Whole(m) =>
      CASE m.kind \in {"object", "pem"} -> Cardinality(Reported(m)) = 1
        [] m.kind = "needle" ->
             \/ Cardinality(Reported(m)) = 1
             \/ Reported(m) = {} /\ \E r \in reports :
                  r.kind = "needle" /\ r.start < m.start /\ r.by < m.end /\ m.end <= r.by + Block
        [] OTHER ->
             /\ Cardinality(Reported(m)) <= 1
             /\ InSight(m) => \/ Reported(m) # {}
                              \/ m.kind = "seed" /\ suppressedByBIP39(m, {r \in reports : r.kind = "phrase"})

(* What is reported is there: no fragment of a word is taken for a word, but *)
(* at the start of a scan and behind a gap, where its beginning is unknown.  *)
ReportsTrue ==
  Sound => \A r \in reports :
    \/ Found(r.kind, r.start, r.end) \in InText
    \/ /\ r.kind \in {"seed", "phrase"}
       /\ \E i \in DOMAIN cut : cut[i].overlap = 0 /\ cut[i].offset = r.start

(* "a phrase ending past the logical block start is reported here, otherwise *)
(* it was already reported with an earlier block" (detectWallets): every     *)
(* phrase read whole is reported, if no read was short.                      *)
PhrasesReported ==
  Over /\ (\A i \in DOMAIN cut : cut[i].final \/ To(cut[i]) - From(cut[i]) = Block) =>
    \A m \in InText : m.kind = "phrase" /\ Whole(m) => Reported(m) # {}
=============================================================================
