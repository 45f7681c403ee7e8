------------------------------ MODULE Pipeline ------------------------------
(***************************************************************************)
(* One scan of one root target: the four goroutines that                   *)
(* detector.runPipeline starts (the reader scanBlocks, the stages          *)
(* scanZipFiles, scanGzipFiles and detectWallets), the bounded channels    *)
(* between them, the publication gate, the checkpoint journal, and the     *)
(* select of runPipeline itself that decides how the scan ends.            *)
(*                                                                         *)
(*            zipQ           gzipQ            walletQ                      *)
(*   reader -------> zip -----------> gzip -------------> wallet           *)
(*     ^              |                |                    |              *)
(*     +-scanTargets--+----------------+      emptyBlocks --+--> reader    *)
(*                                                                         *)
(* The input is data the scan discovers: a tree of targets.  Root is the   *)
(* seed; every other target lies in its Source and is revealed when the    *)
(* block FoundAt of the source passes the stage of its Kind ("zip": an     *)
(* archive member, revealed by the end-of-central-directory record;        *)
(* "entry": a local file header, a candidate that waits in the zip stage   *)
(* for the next EOF; "gzip": a gzip header).  Blocks are numbered from 1.  *)
(***************************************************************************)
EXTENDS Integers, Sequences, FiniteSets

CONSTANTS
  Targets, Root,
  NBlocks,      \* NBlocks[t]: number of blocks t has
  Source,       \* Source[m]: the target a nested target lies in
  Kind,         \* Kind[m]: "zip", "entry" or "gzip"
  FoundAt,      \* FoundAt[m]: the block of Source[m] that reveals m
  Extent,       \* Extent[m]: the blocks of Source[m] that the archive or entry of m spans
  Bad,          \* Bad[t]: blocks that stay unreadable after retries and are skipped
  Cut,          \* Cut[t]: blocks at which an unseekable stream of t breaks off
  Unopenable,   \* targets whose Open fails
  TooBig,       \* zip members over the inflation cap
  Ragged,       \* targets whose last block is short, so it is known to be the last
  MaxDepth,     \* maxArchiveDepth
  QueueCap,     \* capacity of each stage queue
  PoolSize,     \* blocks in circulation
  ChanCap,      \* capacity of scanTargets
  PubCap,       \* maxOutstandingPubs
  CkptEvery,    \* checkpointBlockInterval
  Journaled,    \* a checkpoint path is configured
  Journals      \* the journals a scan may find (NoJournal, or one to resume)

Nested == Targets \ {Root}

\* A journal point: the root is covered up to block "at", the content proof
\* pins blocks 1..proven, and the members in "bank" need no second read.
Journal   == [at : Nat, proven : Nat, bank : SUBSET Nested]
NoJournal == [at |-> 0, proven |-> 0, bank |-> {}]

\* A run: the block it starts after, and what it takes over from the journal.
Run      == [start : Nat, proven : Nat, bank : SUBSET Nested]
FreshRun == [start |-> 0, proven |-> 0, bank |-> {}]

\* A gzip stream has no random access (gzipTargetReader.ReadAt), so archives
\* in one are never opened, and entries in one are left out of the model.
ASSUME InputAssumption ==
  /\ Root \in Targets
  /\ NBlocks \in [Targets -> Nat]
  /\ Source \in [Nested -> Targets]
  /\ Kind \in [Nested -> {"zip", "entry", "gzip"}]
  /\ \A m \in Nested : Source[m] # Root /\ Kind[m] # "gzip" => Kind[Source[m]] # "gzip"
  /\ FoundAt \in [Nested -> Nat \ {0}]
  /\ Extent \in [Nested -> [lo : Nat, hi : Nat]]
  /\ Bad \in [Targets -> SUBSET Nat] /\ Cut \in [Targets -> SUBSET Nat]
  /\ Unopenable \subseteq Targets /\ TooBig \subseteq Nested /\ Ragged \subseteq Targets
  /\ Journals \subseteq Journal

\* A target lies in another, and in the end in the root.
ASSUME SourceAssumption ==
  \A S \in SUBSET Nested : S # {} => \E m \in S : Source[m] \notin S

\* The gate's cap is half the channel's capacity in the code; no proof needs
\* more than that it does not exceed it, and that the seed fits.
ASSUME CapacityAssumption ==
  /\ QueueCap \in Nat \ {0} /\ PoolSize \in Nat \ {0}
  /\ ChanCap \in Nat \ {0} /\ PubCap \in Nat \ {0} /\ PubCap <= ChanCap
  /\ CkptEvery \in Nat \ {0} /\ MaxDepth \in Nat
  /\ Journaled \in BOOLEAN

VARIABLES
  scanTargets,      \* the channel of targets to read
  zipQ, gzipQ, walletQ,
  pool,             \* number of blocks in emptyBlocks
  rpc, stack, pos, digestLen, since, rootErr,   \* the reader
  zpc, zHand, zTodo, zNew, zSlot, openedZ, pending, published,   \* the zip stage
  gpc, gHand, gTodo, gNew, gSlot, openedG,                       \* the gzip stage
  wpc, wHand,       \* the wallet stage
  acked, rootDone, final, signaled,     \* one-shot channels
  outstanding, refused, deferredSkipped, covered, poisoned,      \* the gate
  mpc, outcome, canceled,               \* runPipeline and the caller's context
  run, journal, lastFiled,              \* the journal file and this run's points
  admitted, delivered                   \* history: published targets, reported blocks

queueVars  == <<scanTargets, zipQ, gzipQ, walletQ, pool>>
readerVars == <<rpc, stack, pos, digestLen, since, rootErr>>
zipVars    == <<zpc, zHand, zTodo, zNew, zSlot, openedZ, pending, published>>
gzipVars   == <<gpc, gHand, gTodo, gNew, gSlot, openedG>>
walletVars == <<wpc, wHand>>
signalVars == <<acked, rootDone, final, signaled>>
gateVars   == <<outstanding, refused, deferredSkipped, covered, poisoned>>
mainVars   == <<mpc, outcome, canceled>>
fileVars   == <<run, journal, lastFiled>>
histVars   == <<admitted, delivered>>

vars == <<queueVars, readerVars, zipVars, gzipVars, walletVars, signalVars,
          gateVars, mainVars, fileVars, histVars>>

-----------------------------------------------------------------------------
(* What travels between the stages.  EOF is one sentinel that names no     *)
(* target; a barrier only asks the wallet stage for an acknowledgement.    *)

Item == [kind : {"block", "eof", "barrier"}, src : Targets, n : Nat]

Block(t, n) == [kind |-> "block", src |-> t, n |-> n]
EOF         == [kind |-> "eof", src |-> Root, n |-> 0]
Barrier     == [kind |-> "barrier", src |-> Root, n |-> 0]
Nothing     == [kind |-> "none", src |-> Root, n |-> 0]

\* The stages see the pipeline's context: canceled by the caller, or by the
\* deferred cancel when runPipeline returns.
ctxDone == canceled \/ outcome # "running"

\* The stages a nested target lies below, Root included.
Ancestors[t \in Targets] == IF t = Root THEN {} ELSE {Source[t]} \cup Ancestors[Source[t]]

Depth(t) == Cardinality(Ancestors[t])

\* The last root block that the provenance span of m reaches: deeper members
\* inherit the span of their depth-1 ancestor.
ProvenanceEnd[m \in Nested] ==
  IF Source[m] = Root THEN Extent[m].hi ELSE ProvenanceEnd[Source[m]]

\* The overlap is less than a block: a resumed read backs up by one block.
rewindOffset(at) == IF at = 0 THEN 0 ELSE at - 1

\* The run that adopts journal j.  A proof shorter than the point, or over a
\* block that cannot be read, authorises nothing; members outside the proven
\* bytes are read again.
adoptResume(j) ==
  IF j.proven < j.at \/ (1 .. j.proven) \cap Bad[Root] # {} THEN FreshRun
  ELSE [start  |-> rewindOffset(j.at), proven |-> j.proven,
        bank   |-> {m \in j.bank : ProvenanceEnd[m] <= j.proven}]

TooDeep(m) == Depth(m) > MaxDepth

\* The targets revealed by block n of t to the stage looking for kind k.
Found(k, t, n) == {m \in Nested : Kind[m] = k /\ Source[m] = t /\ FoundAt[m] = n}

Claim(m) == [src |-> Source[m], lo |-> Extent[m].lo, hi |-> Extent[m].hi]

\* Faulty: a span is recognised only when it is exactly c's own.
ClaimedExactly(c) == Claim(c) \in published

\* Faulty: the ranges of all targets are compared.
ClaimedAnywhere(c) == \E r \in published : r.lo <= Extent[c].lo /\ Extent[c].hi <= r.hi

\* An intact archive, or an entry flushed before, already spans c.
Claimed(c) == \E r \in published : /\ r.src = Source[c]
                                   /\ r.lo <= Extent[c].lo /\ Extent[c].hi <= r.hi

-----------------------------------------------------------------------------
(* The publication gate.  Here and below, a definition marked "Faulty" is  *)
(* not part of the model: it is the next definition with a plausible slip, *)
(* kept to show that the properties notice it.                             *)

\* The parent chain of m: poisoned, it is read again by the next run.
Lineage(m) == {t \in Targets : t \in Ancestors[m]}

\* Faulty: a parent is banked although a child of it was refused.
snapshotUnpoisoned == covered

\* Members a journal point may bank: subtree-complete, with a provenance span
\* that resolves through banked links (or was verified when the run started).
snapshotCovered ==
  {m \in covered \ poisoned : m \in run.bank \/ Lineage(m) \ {Root} \subseteq covered}

\* Faulty: off by one.
GateHasRoomOffByOne == outstanding <= PubCap

GateHasRoom == outstanding < PubCap

\* A refusal on policy (depth, inflation): poisons, but counts no skip.
notePolicySkip(m) ==
  /\ poisoned' = poisoned \cup Lineage(m)
  /\ UNCHANGED <<outstanding, refused, deferredSkipped, covered>>

\* A refusal at the cap.
GateRefuse(m, flush) ==
  /\ ~GateHasRoom
  /\ refused' = refused \cup {m}
  /\ poisoned' = poisoned \cup Lineage(m)
  /\ deferredSkipped' = (deferredSkipped \/ flush)
  /\ UNCHANGED <<outstanding, covered>>

GateAdmit(m) ==
  /\ GateHasRoom
  /\ outstanding' = outstanding + 1
  /\ admitted' = admitted \cup {m}
  /\ UNCHANGED <<refused, deferredSkipped, covered, poisoned>>

-----------------------------------------------------------------------------
(* The reader: scanBlocks, readTarget, pushEOF and drainFrontier.  The     *)
(* stack holds the targets whose EOF is still to be pushed: Root alone, a  *)
(* nested target alone, or a nested target read inside Root's drain.       *)

cur == stack[Len(stack)]

\* Block n of t can be read in a read that starts after block "from".
Readable(t, from, n) == n \notin Bad[t] /\ \A i \in from + 1 .. n : i \notin Cut[t]

\* A nested target is read from its start.
ReadFrom(t) == IF t = Root THEN run.start ELSE 0

\* Where the read goes after a pushed block: a short block is the last one.
AfterBlock == IF pos[cur] = NBlocks[cur] /\ cur \in Ragged THEN "eof" ELSE "take"

ReceiveTarget ==
  /\ rpc \in {"recv", "drain"}
  /\ scanTargets # <<>>
  /\ scanTargets' = Tail(scanTargets)
  /\ stack' = Append(stack, Head(scanTargets))
  /\ rpc' = "open"
  /\ UNCHANGED <<zipQ, gzipQ, walletQ, pool, pos, digestLen, since, rootErr, zipVars, gzipVars,
                 walletVars, signalVars, gateVars, mainVars, fileVars, histVars>>

\* Faulty: an opened target keeps its place at the gate.
OpenTargetKeeps ==
  /\ rpc = "open"
  /\ pos' = [pos EXCEPT ![cur] = ReadFrom(cur)]
  /\ IF cur \in Unopenable
       THEN rpc' = "push" /\ rootErr' = (rootErr \/ cur = Root)
       ELSE rpc' = "take" /\ UNCHANGED rootErr
  /\ UNCHANGED <<queueVars, stack, digestLen, since, zipVars, gzipVars, walletVars, signalVars,
                 gateVars, mainVars, fileVars, histVars>>

\* gate.consumed, then Open: a failure is an error for the root only.
OpenTarget ==
  /\ rpc = "open"
  /\ outstanding' = outstanding - 1
  /\ pos' = [pos EXCEPT ![cur] = ReadFrom(cur)]
  /\ IF cur \in Unopenable
       THEN rpc' = "push" /\ rootErr' = (rootErr \/ cur = Root)
       ELSE rpc' = "take" /\ UNCHANGED rootErr
  /\ UNCHANGED <<queueVars, stack, digestLen, since, zipVars, gzipVars, walletVars, signalVars,
                 refused, deferredSkipped, covered, poisoned, mainVars, fileVars, histVars>>

\* Faulty: the block taken at the end of a target does not go back.
ReadBlockKeeps ==
  LET n == pos[cur] + 1 IN
  /\ rpc = "take"
  /\ pool > 0
  /\ \/ /\ pos[cur] = NBlocks[cur] \/ n \in Cut[cur]
        /\ rpc' = "eof" /\ pool' = pool - 1 /\ UNCHANGED <<pos, digestLen>>
        /\ rootErr' = (rootErr \/ (cur = Root /\ n \in Cut[cur]))
     \/ /\ pos[cur] < NBlocks[cur] /\ n \notin Cut[cur]
        /\ rpc' = "send" /\ pos' = [pos EXCEPT ![cur] = n] /\ pool' = pool - 1
        /\ UNCHANGED <<digestLen, rootErr>>
  /\ UNCHANGED <<scanTargets, zipQ, gzipQ, walletQ, stack, since, zipVars, gzipVars, walletVars,
                 signalVars, gateVars, mainVars, fileVars, histVars>>

\* A free block is taken; it goes back unused at the end, on a cut stream and
\* on a bad sector, which is skipped without counting towards a checkpoint.
\* The digest takes in the root's blocks past the verified prefix; a skipped
\* one leaves a gap in it that its length does not show.
ReadBlock ==
  LET n == pos[cur] + 1 IN
  /\ rpc = "take"
  /\ pool > 0
  /\ \/ /\ pos[cur] = NBlocks[cur]
        /\ rpc' = "eof" /\ UNCHANGED <<pool, pos, digestLen, rootErr>>
     \/ /\ pos[cur] < NBlocks[cur] /\ n \in Cut[cur]
        /\ rpc' = "eof" /\ rootErr' = (rootErr \/ cur = Root) /\ UNCHANGED <<pool, pos, digestLen>>
     \/ /\ pos[cur] < NBlocks[cur] /\ n \in Bad[cur] \ Cut[cur]
        /\ pos' = [pos EXCEPT ![cur] = n] /\ UNCHANGED <<rpc, pool, digestLen, rootErr>>
     \/ /\ pos[cur] < NBlocks[cur] /\ n \notin Bad[cur] \cup Cut[cur]
        /\ rpc' = "send" /\ pos' = [pos EXCEPT ![cur] = n] /\ pool' = pool - 1
        /\ digestLen' = IF cur = Root /\ n > digestLen THEN n ELSE digestLen
        /\ UNCHANGED rootErr
  /\ UNCHANGED <<scanTargets, zipQ, gzipQ, walletQ, stack, since, zipVars, gzipVars, walletVars,
                 signalVars, gateVars, mainVars, fileVars, histVars>>

\* Faulty: nested targets are journaled too.
checkpointedAny == Journaled

checkpointed == cur = Root /\ Journaled

\* The block goes downstream before a drain may count it.
SendBlock ==
  /\ rpc = "send"
  /\ Len(zipQ) < QueueCap
  /\ zipQ' = Append(zipQ, Block(cur, pos[cur]))
  /\ IF checkpointed
       THEN IF since + 1 >= CkptEvery
              THEN since' = 0 /\ rpc' = "drain"
              ELSE since' = since + 1 /\ rpc' = AfterBlock
       ELSE rpc' = AfterBlock /\ UNCHANGED since
  /\ UNCHANGED <<scanTargets, gzipQ, walletQ, pool, stack, pos, digestLen, rootErr, zipVars, gzipVars,
                 walletVars, signalVars, gateVars, mainVars, fileVars, histVars>>

\* The drain found the backlog empty: one barrier round.
DrainDone ==
  /\ rpc = "drain"
  /\ scanTargets = <<>> /\ ~ctxDone
  /\ rpc' = "barrier"
  /\ UNCHANGED <<queueVars, stack, pos, digestLen, since, rootErr, zipVars, gzipVars, walletVars,
                 signalVars, gateVars, mainVars, fileVars, histVars>>

SendBarrier ==
  /\ rpc = "barrier"
  /\ Len(zipQ) < QueueCap
  /\ zipQ' = Append(zipQ, Barrier)
  /\ rpc' = "ack"
  /\ UNCHANGED <<scanTargets, gzipQ, walletQ, pool, stack, pos, digestLen, since, rootErr, zipVars, gzipVars,
                 walletVars, signalVars, gateVars, mainVars, fileVars, histVars>>

AwaitAck ==
  /\ rpc = "ack"
  /\ acked
  /\ acked' = FALSE
  /\ rpc' = "quiet"
  /\ UNCHANGED <<queueVars, stack, pos, digestLen, since, rootErr, zipVars, gzipVars, walletVars,
                 rootDone, final, signaled, gateVars, mainVars, fileVars, histVars>>

\* Faulty: the backlog is forgotten.
quietQueues == zipQ = <<>> /\ gzipQ = <<>> /\ walletQ = <<>>

quiet == zipQ = <<>> /\ gzipQ = <<>> /\ walletQ = <<>> /\ scanTargets = <<>>

\* Faulty: polls for quiet without another round.
CheckQuietPolls ==
  /\ rpc = "quiet"
  /\ rpc' = IF ~quiet THEN "quiet" ELSE IF refused = {} THEN "file" ELSE AfterBlock
  /\ UNCHANGED <<queueVars, stack, pos, digestLen, since, rootErr, zipVars, gzipVars, walletVars,
                 signalVars, gateVars, mainVars, fileVars, histVars>>

\* Faulty: insists on a point after a skip.
CheckQuietInsists ==
  /\ rpc = "quiet"
  /\ rpc' = IF ~quiet \/ refused # {} THEN "drain" ELSE "file"
  /\ UNCHANGED <<queueVars, stack, pos, digestLen, since, rootErr, zipVars, gzipVars, walletVars,
                 signalVars, gateVars, mainVars, fileVars, histVars>>

\* Not quiet: another round.  A skip freezes the journal where it stands.
CheckQuiet ==
  /\ rpc = "quiet"
  /\ rpc' = IF ~quiet THEN "drain" ELSE IF refused = {} THEN "file" ELSE AfterBlock
  /\ UNCHANGED <<queueVars, stack, pos, digestLen, since, rootErr, zipVars, gzipVars, walletVars,
                 signalVars, gateVars, mainVars, fileVars, histVars>>

\* writeFrontier with a mid-root point.
FileFrontier ==
  /\ rpc = "file"
  /\ journal' = [at |-> pos[Root], proven |-> digestLen, bank |-> snapshotCovered]
  /\ lastFiled' = pos[Root]
  /\ rpc' = AfterBlock
  /\ UNCHANGED <<queueVars, stack, pos, digestLen, since, rootErr, zipVars, gzipVars, walletVars,
                 signalVars, gateVars, mainVars, run, histVars>>

\* A nested target is banked before its EOF is queued.
BankTarget ==
  /\ rpc = "eof"
  /\ covered' = IF cur = Root THEN covered ELSE covered \cup {cur}
  /\ rpc' = "push"
  /\ UNCHANGED <<queueVars, stack, pos, digestLen, since, rootErr, zipVars, gzipVars, walletVars, signalVars,
                 outstanding, refused, deferredSkipped, poisoned, mainVars, fileVars, histVars>>

PushEOF ==
  /\ rpc = "push"
  /\ Len(zipQ) < QueueCap
  /\ zipQ' = Append(zipQ, EOF)
  /\ stack' = SubSeq(stack, 1, Len(stack) - 1)
  /\ rpc' = IF Len(stack) = 2 THEN "drain" ELSE IF cur = Root THEN "outcome" ELSE "recv"
  /\ UNCHANGED <<scanTargets, gzipQ, walletQ, pool, pos, digestLen, since, rootErr, zipVars, gzipVars,
                 walletVars, signalVars, gateVars, mainVars, fileVars, histVars>>

\* A root that promised bytes and yielded none is a failure.
YieldedNothing ==
  /\ NBlocks[Root] > run.start
  /\ \A n \in run.start + 1 .. pos[Root] : n \in Bad[Root]

rootFailed == rootErr \/ YieldedNothing

ReportRoot ==
  /\ rpc = "outcome"
  /\ rootDone' = IF rootFailed THEN "failed" ELSE "ok"
  /\ rpc' = IF Journaled THEN "final" ELSE "recv"
  /\ UNCHANGED <<queueVars, stack, pos, digestLen, since, rootErr, zipVars, gzipVars, walletVars,
                 acked, final, signaled, gateVars, mainVars, fileVars, histVars>>

\* The completion frontier (nil for a root that never opened) is handed over.
SendFinal ==
  /\ rpc = "final"
  /\ final' = IF Root \in Unopenable THEN "nil" ELSE "point"
  /\ rpc' = "recv"
  /\ UNCHANGED <<queueVars, stack, pos, digestLen, since, rootErr, zipVars, gzipVars, walletVars,
                 acked, rootDone, signaled, gateVars, mainVars, fileVars, histVars>>

ReaderExit ==
  /\ ctxDone
  /\ rpc \in {"recv", "take", "send", "drain", "barrier", "ack", "push"}
  /\ rpc' = "gone"
  /\ UNCHANGED <<queueVars, stack, pos, digestLen, since, rootErr, zipVars, gzipVars, walletVars,
                 signalVars, gateVars, mainVars, fileVars, histVars>>

Reader ==
  \/ ReceiveTarget \/ OpenTarget \/ ReadBlock \/ SendBlock
  \/ DrainDone \/ SendBarrier \/ AwaitAck \/ CheckQuiet \/ FileFrontier
  \/ BankTarget \/ PushEOF \/ ReportRoot \/ SendFinal \/ ReaderExit

-----------------------------------------------------------------------------
(* The zip stage.  zHand is the item in hand, zTodo the members or         *)
(* candidates still to be offered to the gate, zSlot the one admitted and  *)
(* not yet sent, zNew the number admitted while handling this item.        *)

ZipReceive ==
  LET item == Head(zipQ)
      members == Found("zip", item.src, item.n)
  IN
  /\ zpc = "recv"
  /\ zipQ # <<>>
  /\ zipQ' = Tail(zipQ)
  /\ zHand' = item
  /\ CASE item.kind = "barrier" ->
            zpc' = "send" /\ UNCHANGED <<zTodo, pending, published>>
       [] item.kind = "eof" ->
            zpc' = "publish" /\ zTodo' = pending /\ pending' = {} /\ UNCHANGED published
       [] OTHER ->
            /\ zpc' = "publish"
            /\ zTodo' = members
            /\ pending' = pending \cup Found("entry", item.src, item.n)
            /\ published' = published \cup {Claim(m) : m \in {x \in members : ~TooDeep(x)}}
  /\ UNCHANGED <<scanTargets, gzipQ, walletQ, pool, readerVars, zNew, zSlot, openedZ, gzipVars,
                 walletVars, signalVars, gateVars, mainVars, fileVars, histVars>>

flushing == zHand.kind = "eof"

\* One member offered: dropped (by policy, claimed by an intact archive, or
\* banked), refused by the gate, or admitted.  A flush goes in the order
\* of each target's headers.
ZipOffer(m) ==
  /\ zpc = "publish"
  /\ zSlot = {}
  /\ m \in zTodo
  /\ flushing => \A c \in zTodo : Source[c] = Source[m] => Extent[m].lo <= Extent[c].lo
  /\ zTodo' = zTodo \ {m}
  /\ \/ /\ TooDeep(m) \/ (~flushing /\ m \in TooBig)
        /\ notePolicySkip(m)
        /\ UNCHANGED <<zNew, zSlot, published, admitted>>
     \/ /\ ~TooDeep(m) /\ (flushing \/ m \notin TooBig)
        /\ (flushing /\ Claimed(m)) \/ m \in covered
        /\ UNCHANGED <<gateVars, zNew, zSlot, published, admitted>>
     \/ /\ ~TooDeep(m) /\ (flushing \/ m \notin TooBig)
        /\ ~(flushing /\ Claimed(m)) /\ m \notin covered
        /\ GateRefuse(m, flushing)
        /\ UNCHANGED <<zNew, zSlot, published, admitted>>
     \/ /\ ~TooDeep(m) /\ (flushing \/ m \notin TooBig)
        /\ ~(flushing /\ Claimed(m)) /\ m \notin covered
        /\ GateAdmit(m)
        /\ zNew' = zNew + 1 /\ zSlot' = {m}
        /\ published' = IF flushing THEN published \cup {Claim(m)} ELSE published
  /\ UNCHANGED <<queueVars, readerVars, zpc, zHand, openedZ, pending, gzipVars, walletVars,
                 signalVars, mainVars, fileVars, delivered>>

\* The send of an admitted target; it is in no select, so it would block.
ZipPublish ==
  /\ zpc = "publish"
  /\ zSlot # {}
  /\ Len(scanTargets) < ChanCap
  /\ \E m \in zSlot : scanTargets' = Append(scanTargets, m)
  /\ zSlot' = {}
  /\ UNCHANGED <<zipQ, gzipQ, walletQ, pool, readerVars, zpc, zHand, zTodo, zNew, openedZ, pending,
                 published, gzipVars, walletVars, signalVars, gateVars, mainVars, fileVars, histVars>>

\* The targets published here owe one EOF each: an EOF pays for one of them
\* while any is owed, and travels on otherwise.

\* Faulty: the last one owed is let through.
zSwallowOneLess == flushing /\ openedZ + zNew > 1

zSwallow == flushing /\ openedZ + zNew > 0

ZipSettle ==
  /\ zpc = "publish"
  /\ zTodo = {} /\ zSlot = {}
  /\ openedZ' = openedZ + zNew - (IF zSwallow THEN 1 ELSE 0)
  /\ zNew' = 0
  /\ zpc' = IF zSwallow THEN "recv" ELSE "send"
  /\ zHand' = IF zSwallow THEN Nothing ELSE zHand
  /\ UNCHANGED <<queueVars, readerVars, zTodo, zSlot, pending, published, gzipVars, walletVars,
                 signalVars, gateVars, mainVars, fileVars, histVars>>

ZipForward ==
  /\ zpc = "send"
  /\ Len(gzipQ) < QueueCap
  /\ gzipQ' = Append(gzipQ, zHand)
  /\ zHand' = Nothing /\ zpc' = "recv"
  /\ UNCHANGED <<scanTargets, zipQ, walletQ, pool, readerVars, zTodo, zNew, zSlot, openedZ, pending,
                 published, gzipVars, walletVars, signalVars, gateVars, mainVars, fileVars, histVars>>

ZipExit ==
  /\ ctxDone
  /\ zpc \in {"recv", "send"}
  /\ zpc' = "gone"
  /\ UNCHANGED <<queueVars, readerVars, zHand, zTodo, zNew, zSlot, openedZ, pending, published,
                 gzipVars, walletVars, signalVars, gateVars, mainVars, fileVars, histVars>>

Zip ==
  \/ ZipReceive \/ (\E m \in Nested : ZipOffer(m)) \/ ZipPublish
  \/ ZipSettle \/ ZipForward \/ ZipExit

-----------------------------------------------------------------------------
(* The gzip stage: the same shape, with no candidates to hold back.        *)

GzipReceive ==
  LET item == Head(gzipQ) IN
  /\ gpc = "recv"
  /\ gzipQ # <<>>
  /\ gzipQ' = Tail(gzipQ)
  /\ gHand' = item
  /\ gTodo' = IF item.kind = "block" THEN Found("gzip", item.src, item.n) ELSE {}
  /\ gpc' = IF item.kind = "barrier" THEN "send" ELSE "publish"
  /\ UNCHANGED <<scanTargets, zipQ, walletQ, pool, readerVars, zipVars, gNew, gSlot, openedG,
                 walletVars, signalVars, gateVars, mainVars, fileVars, histVars>>

GzipOffer(m) ==
  /\ gpc = "publish"
  /\ gSlot = {}
  /\ m \in gTodo
  /\ gTodo' = gTodo \ {m}
  /\ \/ /\ TooDeep(m)
        /\ notePolicySkip(m)
        /\ UNCHANGED <<gNew, gSlot, admitted>>
     \/ /\ ~TooDeep(m) /\ m \in covered
        /\ UNCHANGED <<gateVars, gNew, gSlot, admitted>>
     \/ /\ ~TooDeep(m) /\ m \notin covered
        /\ GateRefuse(m, FALSE)
        /\ UNCHANGED <<gNew, gSlot, admitted>>
     \/ /\ ~TooDeep(m) /\ m \notin covered
        /\ GateAdmit(m)
        /\ gNew' = gNew + 1 /\ gSlot' = {m}
  /\ UNCHANGED <<queueVars, readerVars, zipVars, gpc, gHand, openedG, walletVars,
                 signalVars, mainVars, fileVars, delivered>>

GzipPublish ==
  /\ gpc = "publish"
  /\ gSlot # {}
  /\ Len(scanTargets) < ChanCap
  /\ \E m \in gSlot : scanTargets' = Append(scanTargets, m)
  /\ gSlot' = {}
  /\ UNCHANGED <<zipQ, gzipQ, walletQ, pool, readerVars, zipVars, gpc, gHand, gTodo, gNew, openedG,
                 walletVars, signalVars, gateVars, mainVars, fileVars, histVars>>

\* Faulty: the last one owed is let through.
gSwallowOneLess == gHand.kind = "eof" /\ openedG + gNew > 1

gSwallow == gHand.kind = "eof" /\ openedG + gNew > 0

GzipSettle ==
  /\ gpc = "publish"
  /\ gTodo = {} /\ gSlot = {}
  /\ openedG' = openedG + gNew - (IF gSwallow THEN 1 ELSE 0)
  /\ gNew' = 0
  /\ gpc' = IF gSwallow THEN "recv" ELSE "send"
  /\ gHand' = IF gSwallow THEN Nothing ELSE gHand
  /\ UNCHANGED <<queueVars, readerVars, zipVars, gTodo, gSlot, walletVars,
                 signalVars, gateVars, mainVars, fileVars, histVars>>

GzipForward ==
  /\ gpc = "send"
  /\ Len(walletQ) < QueueCap
  /\ walletQ' = Append(walletQ, gHand)
  /\ gHand' = Nothing /\ gpc' = "recv"
  /\ UNCHANGED <<scanTargets, zipQ, gzipQ, pool, readerVars, zipVars, gTodo, gNew, gSlot, openedG,
                 walletVars, signalVars, gateVars, mainVars, fileVars, histVars>>

GzipExit ==
  /\ ctxDone
  /\ gpc \in {"recv", "send"}
  /\ gpc' = "gone"
  /\ UNCHANGED <<queueVars, readerVars, zipVars, gHand, gTodo, gNew, gSlot, openedG,
                 walletVars, signalVars, gateVars, mainVars, fileVars, histVars>>

Gzip ==
  \/ GzipReceive \/ (\E m \in Nested : GzipOffer(m)) \/ GzipPublish
  \/ GzipSettle \/ GzipForward \/ GzipExit

-----------------------------------------------------------------------------
(* The wallet stage: reports what a block holds, then recycles the block.  *)

WalletReceive ==
  LET item == Head(walletQ) IN
  /\ wpc = "recv"
  /\ walletQ # <<>>
  /\ walletQ' = Tail(walletQ)
  /\ CASE item.kind = "eof" ->
            wpc' = "gone" /\ signaled' = TRUE /\ UNCHANGED <<wHand, acked>>
       [] item.kind = "barrier" ->
            acked' = TRUE /\ UNCHANGED <<wpc, wHand, signaled>>
       [] OTHER ->
            wpc' = "report" /\ wHand' = item /\ UNCHANGED <<acked, signaled>>
  /\ UNCHANGED <<scanTargets, zipQ, gzipQ, pool, readerVars, zipVars, gzipVars, rootDone, final,
                 gateVars, mainVars, fileVars, histVars>>

WalletReport ==
  /\ wpc = "report"
  /\ delivered' = delivered \cup {<<wHand.src, wHand.n>>}
  /\ pool' = pool + 1
  /\ wHand' = Nothing /\ wpc' = "recv"
  /\ UNCHANGED <<scanTargets, zipQ, gzipQ, walletQ, readerVars, zipVars, gzipVars,
                 signalVars, gateVars, mainVars, fileVars, admitted>>

WalletExit ==
  /\ ctxDone
  /\ wpc = "recv"
  /\ wpc' = "gone"
  /\ UNCHANGED <<queueVars, readerVars, zipVars, gzipVars, wHand,
                 signalVars, gateVars, mainVars, fileVars, histVars>>

Wallet == WalletReceive \/ WalletReport \/ WalletExit

-----------------------------------------------------------------------------
(* runPipeline after the goroutines are started: one select, then the root *)
(* outcome, then the completion frontier or the error-path point.          *)

Cancel ==
  /\ outcome = "running" /\ ~canceled
  /\ canceled' = TRUE
  /\ UNCHANGED <<queueVars, readerVars, zipVars, gzipVars, walletVars, signalVars, gateVars,
                 mpc, outcome, fileVars, histVars>>

MainSignal ==
  /\ mpc = "select"
  /\ signaled
  /\ mpc' = "root"
  /\ UNCHANGED <<queueVars, readerVars, zipVars, gzipVars, walletVars, signalVars, gateVars,
                 outcome, canceled, fileVars, histVars>>

\* The select's other case, and the select of finishCompletedScan.
MainCancel ==
  /\ mpc = "select" \/ (mpc = "final" /\ Journaled)
  /\ canceled
  /\ mpc' = "done" /\ outcome' = "canceled"
  /\ UNCHANGED <<queueVars, readerVars, zipVars, gzipVars, walletVars, signalVars, gateVars,
                 canceled, fileVars, histVars>>

\* Faulty: skips do not make the scan incomplete.
MainRootTrusting ==
  /\ mpc = "root"
  /\ rootDone # "none"
  /\ mpc' = IF rootDone = "failed" THEN "fail" ELSE "final"
  /\ UNCHANGED <<queueVars, readerVars, zipVars, gzipVars, walletVars, signalVars, gateVars,
                 outcome, canceled, fileVars, histVars>>

MainRoot ==
  /\ mpc = "root"
  /\ rootDone # "none"
  /\ mpc' = IF rootDone = "failed" \/ refused # {} THEN "fail" ELSE "final"
  /\ UNCHANGED <<queueVars, readerVars, zipVars, gzipVars, walletVars, signalVars, gateVars,
                 outcome, canceled, fileVars, histVars>>

frozenOffset == IF lastFiled > run.start THEN lastFiled ELSE run.start

MainFail ==
  /\ mpc = "fail"
  /\ journal' = IF Journaled
                  THEN [at |-> IF deferredSkipped THEN run.start ELSE frozenOffset,
                        proven |-> digestLen, bank |-> snapshotCovered]
                  ELSE journal
  /\ mpc' = "done" /\ outcome' = "error"
  /\ UNCHANGED <<queueVars, readerVars, zipVars, gzipVars, walletVars, signalVars, gateVars,
                 canceled, run, lastFiled, histVars>>

MainComplete ==
  /\ mpc = "final"
  /\ Journaled => final # "none"
  /\ journal' = IF final = "point"
                  THEN [at |-> pos[Root], proven |-> digestLen, bank |-> {}]
                  ELSE journal
  /\ mpc' = "done" /\ outcome' = "complete"
  /\ UNCHANGED <<queueVars, readerVars, zipVars, gzipVars, walletVars, signalVars, gateVars,
                 canceled, run, lastFiled, histVars>>

Main == MainSignal \/ MainCancel \/ MainRoot \/ MainFail \/ MainComplete

-----------------------------------------------------------------------------

RunStarts ==
  /\ scanTargets = <<Root>> /\ zipQ = <<>> /\ gzipQ = <<>> /\ walletQ = <<>>
  /\ pool = PoolSize
  /\ rpc = "recv" /\ stack = <<>> /\ pos = [t \in Targets |-> 0] /\ since = 0 /\ rootErr = FALSE
  /\ zpc = "recv" /\ zHand = Nothing /\ zTodo = {} /\ zNew = 0 /\ zSlot = {}
  /\ openedZ = 0 /\ pending = {} /\ published = {}
  /\ gpc = "recv" /\ gHand = Nothing /\ gTodo = {} /\ gNew = 0 /\ gSlot = {} /\ openedG = 0
  /\ wpc = "recv" /\ wHand = Nothing
  /\ acked = FALSE /\ rootDone = "none" /\ final = "none" /\ signaled = FALSE
  /\ outstanding = 1 /\ refused = {} /\ deferredSkipped = FALSE /\ poisoned = {}
  /\ mpc = "select" /\ outcome = "running" /\ canceled = FALSE
  /\ run = adoptResume(journal)
  /\ covered = run.bank /\ digestLen = run.proven
  /\ lastFiled = 0
  /\ admitted = {Root} /\ delivered = {}

Init == journal \in Journals /\ RunStarts

\* Every goroutine has returned.
Gone == rpc = "gone" /\ zpc = "gone" /\ gpc = "gone" /\ wpc = "gone" /\ mpc = "done"

Returned == Gone /\ UNCHANGED vars

Next == Reader \/ Zip \/ Gzip \/ Wallet \/ Main \/ Cancel \/ Returned

\* The Go scheduler starves no goroutine that can proceed; the caller owes
\* no cancellation.
Fairness ==
  /\ WF_vars(Reader) /\ WF_vars(Zip) /\ WF_vars(Gzip) /\ WF_vars(Wallet) /\ WF_vars(Main)

Spec == Init /\ [][Next]_vars

FairSpec == Spec /\ Fairness

=============================================================================
