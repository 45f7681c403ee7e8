--------------------------- MODULE PipelineProps ---------------------------
(***************************************************************************)
(* What one scan promises: the type invariant, the safety invariants, the  *)
(* action properties and the liveness properties of Pipeline.              *)
(***************************************************************************)
EXTENDS Pipeline

ItemQueue == Seq(Item)

QueueTypes ==
  /\ scanTargets \in Seq(Targets)
  /\ zipQ \in ItemQueue /\ gzipQ \in ItemQueue /\ walletQ \in ItemQueue
  /\ Len(zipQ) <= QueueCap /\ Len(gzipQ) <= QueueCap /\ Len(walletQ) <= QueueCap
  /\ pool \in Nat

ReaderTypes ==
  /\ rpc \in {"recv", "open", "take", "send", "drain", "barrier", "ack", "quiet", "file",
              "eof", "push", "outcome", "final", "gone"}
  /\ stack \in Seq(Targets) /\ Len(stack) <= 2
  /\ pos \in [Targets -> Nat] /\ digestLen \in Nat /\ since \in Nat

ZipTypes ==
  /\ zpc \in {"recv", "publish", "send", "gone"} /\ zHand \in Item \cup {Nothing}
  /\ zTodo \subseteq Nested /\ zSlot \subseteq Nested /\ pending \subseteq Nested
  /\ zNew \in Nat /\ openedZ \in Nat
  /\ published \subseteq [src : Targets, lo : Nat, hi : Nat]

GzipTypes ==
  /\ gpc \in {"recv", "publish", "send", "gone"} /\ gHand \in Item \cup {Nothing}
  /\ gTodo \subseteq Nested /\ gSlot \subseteq Nested
  /\ gNew \in Nat /\ openedG \in Nat

WalletTypes == wpc \in {"recv", "report", "gone"} /\ wHand \in Item \cup {Nothing}

FlagTypes ==
  /\ rootErr \in BOOLEAN /\ acked \in BOOLEAN /\ signaled \in BOOLEAN
  /\ deferredSkipped \in BOOLEAN /\ canceled \in BOOLEAN

SignalTypes == rootDone \in {"none", "ok", "failed"} /\ final \in {"none", "nil", "point"}

GateTypes ==
  /\ outstanding \in Int /\ refused \subseteq Nested
  /\ covered \subseteq Nested /\ poisoned \subseteq Targets

MainTypes ==
  /\ mpc \in {"select", "root", "fail", "final", "done"}
  /\ outcome \in {"running", "complete", "error", "canceled"}

FileTypes == run \in Run /\ journal \in Journal /\ lastFiled \in Nat

HistTypes == admitted \subseteq Targets /\ delivered \subseteq Targets \X Nat

\* Every variable holds a value of its kind; the queues stay within their
\* capacity and the stack of reads within two (a nested read suspends the
\* root's, and drains never nest).
TypeOK ==
  /\ QueueTypes /\ ReaderTypes /\ ZipTypes /\ GzipTypes /\ WalletTypes
  /\ FlagTypes /\ SignalTypes /\ GateTypes /\ MainTypes /\ FileTypes /\ HistTypes

-----------------------------------------------------------------------------
(* Why the first EOF to reach the wallet stage is the last: the parts of   *)
(* the inductive invariant.                                                *)

Places(q, kind) == {i \in 1 .. Len(q) : q[i].kind = kind}
Count(q, kind)  == Cardinality(Places(q, kind))
NEnds(q) == Count(q, "eof")
One(b)   == IF b THEN 1 ELSE 0

EndsWithEOF(q) == q # <<>> /\ q[Len(q)].kind = "eof"

\* Targets whose EOF is still to be pushed, and the EOFs in each stage's reach.
Unread == Len(scanTargets) + Len(stack) + One(zSlot # {}) + One(gSlot # {})
ZEnds  == NEnds(zipQ) + One(zHand.kind = "eof")
GEnds  == NEnds(gzipQ) + One(gHand.kind = "eof")
WEnds  == NEnds(walletQ) + One(signaled)

\* The EOFs each stage owes to targets it published.
ZOwes == openedZ + zNew
GOwes == openedG + gNew

\* The stack agrees with the reader's place.
StackShape ==
  \/ stack = <<>> /\ rpc \in {"recv", "outcome", "final", "gone"}
  \/ stack = <<Root>> /\ rpc \notin {"recv", "outcome", "final"}
  \/ /\ \E m \in Nested : stack \in {<<m>>, <<Root, m>>}
     /\ rpc \in {"open", "take", "send", "eof", "push", "gone"}

\* Root is received first and once.
RootFirst ==
  \A i \in 1 .. Len(scanTargets) :
    scanTargets[i] = Root => i = 1 /\ stack = <<>> /\ rpc \in {"recv", "gone"}

ReaderShape == StackShape /\ RootFirst

\* A stage holds an item exactly while it handles one, publishes only then,
\* and sends an EOF on only when it owes none.
StageShape ==
  /\ zpc = "recv" => zHand = Nothing
  /\ zpc \in {"publish", "send"} => zHand.kind # "none"
  /\ zpc # "publish" => zSlot = {} /\ zNew = 0
  /\ zpc = "send" /\ zHand.kind = "eof" => openedZ = 0
  /\ gpc = "recv" => gHand = Nothing
  /\ gpc \in {"publish", "send"} => gHand.kind # "none"
  /\ gpc # "publish" => gSlot = {} /\ gNew = 0
  /\ gpc = "send" /\ gHand.kind = "eof" => openedG = 0
  /\ \A S \in {zSlot, gSlot} : S = {} \/ \E m \in Nested : S = {m}

\* The gate counts what is in scanTargets or about to be.
GateCounts ==
  /\ outstanding = Len(scanTargets) + One(zSlot # {}) + One(gSlot # {}) + One(rpc = "open")
  /\ outstanding <= PubCap

\* Every EOF not yet delivered is owed to a target: the seed's, or one that a
\* stage published and has not swallowed an EOF for.
Balance == Unread + ZEnds + GEnds + WEnds = 1 + ZOwes + GOwes

\* Data in the zip stage's reach is followed by an EOF, there or to come.
ZipFollowed ==
  /\ zipQ # <<>> => Len(stack) >= 1 \/ EndsWithEOF(zipQ)
  /\ zHand.kind \in {"block", "barrier"} => Len(stack) >= 1 \/ NEnds(zipQ) >= 1

UpstreamDone ==
  Unread = 0 /\ zipQ = <<>> /\ zHand = Nothing /\ ZOwes = 0

\* Either the gzip stage owes every EOF in its reach, or nothing is left
\* upstream of it and the last of those EOFs closes its queue.
GzipFollowed ==
  GEnds >= 1 =>
    \/ GEnds <= GOwes
    \/ /\ GEnds = GOwes + 1 /\ UpstreamDone
       /\ IF gzipQ = <<>> THEN gHand.kind = "eof" ELSE EndsWithEOF(gzipQ)

\* An EOF past the gzip stage is the only one, and nothing is behind it.
WalletFollowed ==
  WEnds >= 1 =>
    /\ WEnds = 1 /\ UpstreamDone
    /\ gzipQ = <<>> /\ gHand = Nothing /\ GOwes = 0
    /\ IF signaled THEN walletQ = <<>> ELSE EndsWithEOF(walletQ)

EOFInv == /\ TypeOK /\ ReaderShape /\ StageShape
          /\ Balance /\ ZipFollowed /\ GzipFollowed /\ WalletFollowed

\* Blocks are neither leaked nor duplicated: every one is free, in a queue or
\* in a hand, until the context ends (recycling in readTarget's early exits).
Loads(q) == Count(q, "block")
BlocksHeld ==
  pool + One(rpc = "send") + Loads(zipQ) + One(zHand.kind = "block") + Loads(gzipQ)
    + One(gHand.kind = "block") + Loads(walletQ) + One(wpc = "report")
BlocksConserved == ~ctxDone => BlocksHeld = PoolSize

-----------------------------------------------------------------------------
(* What the input obliges a run to read.                                   *)

\* The root block whose reading reveals t's depth-1 ancestor.
RootBlock[t \in Targets] ==
  IF t = Root THEN 0 ELSE IF Source[t] = Root THEN FoundAt[t] ELSE RootBlock[Source[t]]

\* A local-header candidate that no archive and no other entry spans.
Orphan(c) ==
  \A m \in Nested \ {c} :
    (Source[m] = Source[c] /\ Kind[m] # "gzip") =>
      ~(Extent[m].lo <= Extent[c].lo /\ Extent[c].hi <= Extent[m].hi)

\* The blocks of t this run can and must read.
DueBlocks(t) ==
  IF t \in Unopenable THEN {}
  ELSE {n \in ReadFrom(t) + 1 .. NBlocks[t] : Readable(t, ReadFrom(t), n)}

\* A readable block reveals m, no policy refuses it, and no earlier run
\* banked it: who reads m's source must read m.
Owed(m) ==
  /\ FoundAt[m] \in DueBlocks(Source[m])
  /\ ~TooDeep(m) /\ m \notin TooBig /\ m \notin run.bank
  /\ Kind[m] = "entry" => Orphan(m)

\* The targets this run must read.
Due[t \in Targets] == t = Root \/ (Due[Source[t]] /\ Owed(t))

Read(t) == \A n \in DueBlocks(t) : <<t, n>> \in delivered

\* Entries recovered from the root's own bytes, and what lies in them: the
\* zip stage holds these candidates until an EOF.
RootEntries ==
  {t \in Nested : \E e \in {t} \cup Ancestors[t] : e # Root /\ Kind[e] = "entry" /\ Source[e] = Root}

\* What this run owes and a resume from the journal would not read again,
\* because the point has passed it or a banked ancestor hides it.
Stranded ==
  {t \in Targets :
     /\ Due[t]
     /\ \/ t = Root /\ \E n \in DueBlocks(t) : n <= journal.at /\ <<t, n>> \notin delivered
        \/ t # Root /\ ~Read(t)
           /\ \/ RootBlock[t] <= journal.at
              \/ ({t} \cup Ancestors[t]) \cap journal.bank # {}}

-----------------------------------------------------------------------------
(* Safety.                                                                 *)

\* A target the gate admitted finds room in scanTargets, so the publishing
\* stage, whose send is in no select, never blocks (gatePublish).
AdmittedSendFits == zSlot \cup gSlot # {} => Len(scanTargets) < ChanCap

\* The root opens, does not break off, and yields a block if it has any left.
RootSound ==
  /\ Root \notin Unopenable
  /\ (run.start + 1 .. NBlocks[Root]) \cap Cut[Root] = {}
  /\ NBlocks[Root] > run.start => DueBlocks(Root) # {}

\* A scan that ends complete has reported every readable block of every target
\* it took on, and took on whatever these blocks owe, however the stages
\* interleaved; its root was sound.  Level by level, all that is Due was read.
CompleteMeansRead ==
  outcome = "complete" =>
    /\ RootSound
    /\ Root \in admitted /\ \A t \in admitted : Read(t)
    /\ \A m \in Nested : Source[m] \in admitted /\ Owed(m) => m \in admitted

\* The EOF that ends the scan reaches detectWallets only when no target is
\* unread and nothing is left in any queue or any stage's hand: the publish
\* and swallow counts of the two stages balance.
FirstEOFIsLast ==
  signaled => /\ scanTargets = <<>> /\ stack = <<>> /\ zSlot = {} /\ gSlot = {}
              /\ zipQ = <<>> /\ gzipQ = <<>> /\ walletQ = <<>>
              /\ zHand = Nothing /\ gHand = Nothing

\* A mid-root point never passes bytes, or banks a member, that a kill right
\* now would leave unread: everything the journal lets a resume skip has been
\* reported (drainFrontier).  Candidates recovered from the root's own bytes
\* are the exception (FrontierStrandsNothing).
FrontierProven == lastFiled > 0 => Stranded \subseteq RootEntries

\* After an error return no refused target is stranded: the frozen point, the
\* rewind of a flush refusal and the poisoned ancestors keep it within reach of
\* a retry.  What lies inside an entry recovered from the root's own bytes is
\* the exception (RetryRecovers).
ErrorKeepsRefusedReachable ==
  outcome = "error" /\ Journaled => \A t \in Stranded : t \in RootEntries /\ Source[t] # Root

\* What runPipeline's comment promises of a refusal, without the exception: a
\* retry covers what was omitted.  The gate marks only the refusal of a flush
\* candidate; the members of an admitted one are refused by gatePublish, and
\* the frozen point has passed the entry.
RetryRecovers == outcome = "error" /\ Journaled => Stranded = {}

\* A stored member is scanned through its archive or through its local
\* header, never both.
NoDoubleScan ==
  \A c \in admitted, m \in admitted :
    ~ /\ Root \notin {c, m} /\ Kind[c] = "entry" /\ Kind[m] = "zip" /\ Source[c] = Source[m]
      /\ Extent[m].lo <= Extent[c].lo /\ Extent[c].hi <= Extent[m].hi

\* The reader waits for an acknowledgement only while the wallet stage lives
\* to give one, or the context is done.
AckNeverStrands == rpc = "ack" => acked \/ wpc # "gone" \/ ctxDone

-----------------------------------------------------------------------------
(* Two properties the code's comments state and the code does not keep, for *)
(* the record: no configuration checks them.                               *)

\* The comment on pendingFrontier and drainFrontier: every byte at or before
\* a mid-root point is delivered.
FrontierStrandsNothing == lastFiled > 0 => Stranded = {}

\* The comment in runPipeline: the stages exit before journaling more.
JournalSettledOnReturn == [][outcome # "running" => UNCHANGED journal]_vars

-----------------------------------------------------------------------------
(* The contract: what is due is fixed when the run starts, and the blocks  *)
(* of a target follow the block that revealed it and each other.           *)

AllBlocks == UNION {{t} \X (1 .. NBlocks[t]) : t \in Targets}

BlockOrder ==
  {bc \in AllBlocks \X AllBlocks :
     \/ bc[1][1] = bc[2][1] /\ bc[1][2] < bc[2][2]
     \/ bc[2][1] # Root /\ bc[1] = <<Source[bc[2][1]], FoundAt[bc[2][1]]>>}

\* The blocks this run is to report.
Obliged == UNION {{t} \X DueBlocks(t) : t \in {x \in Targets : Due[x]}}

Contract == INSTANCE ScanContract WITH
  Blocks   <- AllBlocks,
  Precedes <- BlockOrder,
  due      <- Obliged,
  told     <- delivered,
  outcome  <- outcome

\* A step of the pipeline is one of the contract, or leaves all it speaks of.
ContractStep == [Contract!ContractNext]_<<Contract!contractVars>>

-----------------------------------------------------------------------------
(* Liveness.                                                               *)

\* Every scan, the first or a retry, returns: no publisher, stage or drain
\* waits forever.
ScanReturns == []<>(outcome # "running")

\* Once it has returned, every goroutine ends; none is left blocked.
GoroutinesEnd == <>[]Gone

\* A drain that has sent its barrier goes on.
DrainProceeds == rpc \in {"drain", "barrier", "ack"} ~> rpc \in {"take", "eof", "gone"}

=============================================================================
