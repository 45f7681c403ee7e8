--------------------------- MODULE PipelineProofs ---------------------------
(* Proofs about one scan, for every input tree and every capacity: what the   *)
(* goroutines hold at each of their places, that no block is lost or put back *)
(* twice, and that a scan that ends complete has read all that its input      *)
(* obliged it to.                                                             *)
EXTENDS PipelineProps, FiniteSetTheorems, FunctionTheorems, SequenceTheorems, TLAPS

USE DEF Nested

-----------------------------------------------------------------------------
(* The shapes: what each goroutine holds at each of its places.            *)

Shape == TypeOK /\ ReaderShape /\ StageShape

LEMMA OneElement ==
  ASSUME NEW S, NEW s \in Seq(S), Len(s) = 1
  PROVE  s = <<s[1]>>
OBVIOUS

LEMMA TwoElements ==
  ASSUME NEW S, NEW s \in Seq(S), Len(s) = 2
  PROVE  s = <<s[1], s[2]>>
OBVIOUS

LEMMA FrontOfTwo ==
  ASSUME NEW S, NEW s \in Seq(S), Len(s) = 2
  PROVE  SubSeq(s, 1, 1) = <<s[1]>>
<1>1. SubSeq(s, 1, 1) \in Seq(S) /\ Len(SubSeq(s, 1, 1)) = 1 /\ SubSeq(s, 1, 1)[1] = s[1]
  <2>1. \A i \in 1 .. 1 : s[i] \in S
    OBVIOUS
  <2> QED
    BY <2>1, SubSeqProperties
<1> QED
  BY <1>1, OneElement

LEMMA AppendToOne ==
  ASSUME NEW a, NEW b
  PROVE  Append(<<a>>, b) = <<a, b>>
<1> DEFINE s == Append(<<a>>, b)
<1>1. <<a>> \in Seq({a, b}) /\ Len(<<a>>) = 1
  OBVIOUS
<1>2. s \in Seq({a, b})
  BY <1>1, AppendProperties
<1>3. Len(s) = 2
  BY <1>1, AppendProperties
<1>4. s[1] = a
  BY <1>1, AppendProperties
<1>5. s[2] = b
  BY <1>1, AppendProperties
<1> HIDE DEF s
<1>6. s = <<a, b>>
  BY <1>2, <1>3, <1>4, <1>5, TwoElements
<1> QED
  BY <1>6 DEF s

LEMMA StackTypes ==
  /\ <<>> \in Seq(Targets) /\ Len(<<>>) <= 2
  /\ \A a \in Targets : <<a>> \in Seq(Targets) /\ Len(<<a>>) <= 2
  /\ \A a, b \in Targets : <<a, b>> \in Seq(Targets) /\ Len(<<a, b>>) <= 2
OBVIOUS

LEMMA ItemKinds ==
  /\ EOF \in Item /\ Barrier \in Item
  /\ EOF.kind = "eof" /\ Barrier.kind = "barrier" /\ Nothing.kind = "none"
  /\ \A t \in Targets, n \in Nat : Block(t, n) \in Item /\ Block(t, n).kind = "block"
  /\ \A x \in Item : x.kind \in {"block", "eof", "barrier"} /\ x.src \in Targets /\ x.n \in Nat
BY InputAssumption DEF EOF, Barrier, Nothing, Block, Item

\* A run starts, from whatever journal there is.
AnyStart == journal \in Journal /\ RunStarts

LEMMA InitStarts == Init => AnyStart
BY InputAssumption DEF Init, AnyStart

LEMMA InitShape == AnyStart => Shape
<1> SUFFICES ASSUME AnyStart PROVE Shape
  OBVIOUS
<1> USE InputAssumption, CapacityAssumption, ItemKinds
<1>1. journal \in Journal /\ run \in Run
  BY DEF AnyStart, RunStarts, adoptResume, rewindOffset, FreshRun, Run, Journal
<1>2. QueueTypes
  BY DEF AnyStart, RunStarts, QueueTypes, ItemQueue
<1>3. ReaderTypes
  <2>1. run.proven \in Nat
    BY <1>1 DEF Run
  <2> QED
    BY <2>1 DEF AnyStart, RunStarts, ReaderTypes
<1>4. ZipTypes /\ GzipTypes /\ WalletTypes /\ SignalTypes /\ MainTypes
  BY DEF AnyStart, RunStarts, ZipTypes, GzipTypes, WalletTypes, SignalTypes, MainTypes
<1>9. FlagTypes
  BY Zenon DEF AnyStart, RunStarts, FlagTypes
<1>5. GateTypes
  <2>1. run.bank \subseteq Nested
    BY <1>1 DEF Run
  <2> QED
    BY <2>1 DEF AnyStart, RunStarts, GateTypes
<1>6. FileTypes /\ HistTypes
  BY <1>1 DEF AnyStart, RunStarts, FileTypes, HistTypes
<1>7. ReaderShape
  BY DEF AnyStart, RunStarts, ReaderShape, StackShape, RootFirst
<1>8. StageShape
  BY DEF AnyStart, RunStarts, StageShape
<1> QED
  BY <1>2, <1>3, <1>4, <1>5, <1>6, <1>7, <1>8, <1>9 DEF Shape, TypeOK

LEMMA ReaderKeepsShape ==
  ASSUME Shape, Reader
  PROVE  Shape'
<1> USE InputAssumption, CapacityAssumption
<1>1. UNCHANGED <<zipVars, gzipVars, walletVars, mainVars, run, histVars>>
  BY DEF Reader, ReceiveTarget, OpenTarget, ReadBlock, SendBlock, DrainDone, SendBarrier,
     AwaitAck, CheckQuiet, FileFrontier, BankTarget, PushEOF, ReportRoot, SendFinal, ReaderExit,
     fileVars
<1>2. ZipTypes' /\ GzipTypes' /\ WalletTypes' /\ MainTypes' /\ HistTypes' /\ StageShape'
  BY <1>1 DEF Shape, TypeOK, StageShape, ZipTypes, GzipTypes, WalletTypes, MainTypes, HistTypes,
     zipVars, gzipVars, walletVars, mainVars, histVars
<1>3. FlagTypes'
  BY <1>1, Zenon DEF Reader, ReceiveTarget, OpenTarget, ReadBlock, SendBlock, DrainDone, SendBarrier,
     AwaitAck, CheckQuiet, FileFrontier, BankTarget, PushEOF, ReportRoot, SendFinal, ReaderExit,
     Shape, TypeOK, FlagTypes, readerVars, signalVars, gateVars, mainVars
<1>4. SUFFICES QueueTypes' /\ ReaderTypes' /\ ReaderShape' /\ SignalTypes' /\ GateTypes' /\ FileTypes'
  BY <1>2, <1>3 DEF Shape, TypeOK
<1>5. scanTargets \in Seq(Targets) /\ zipQ \in ItemQueue /\ Len(zipQ) \in Nat
  BY DEF Shape, TypeOK, QueueTypes, ItemQueue
<1>6. /\ rpc \in {"open", "take", "send", "eof", "push"} => stack # <<>> /\ cur \in Targets
      /\ rpc \in {"open", "take", "send", "eof", "push"} /\ checkpointed => stack = <<Root>>
  <2> SUFFICES ASSUME rpc \in {"open", "take", "send", "eof", "push"}
               PROVE  stack # <<>> /\ cur \in Targets /\ (checkpointed => stack = <<Root>>)
    OBVIOUS
  <2>1. PICK m \in Targets : stack = <<m>> \/ (stack = <<Root, m>> /\ m # Root)
    BY DEF Shape, ReaderShape, StackShape
  <2>2. CASE stack = <<m>>
    <3>1. cur = m
      BY <2>2 DEF cur
    <3> QED
      BY <2>2, <3>1 DEF checkpointed
  <2>3. CASE stack = <<Root, m>> /\ m # Root
    <3>1. cur = m
      BY <2>3 DEF cur
    <3> QED
      BY <2>3, <3>1 DEF checkpointed
  <2> QED
    BY <2>1, <2>2, <2>3
<1>7. CASE ReceiveTarget
  <2>1. /\ Head(scanTargets) \in Targets /\ Tail(scanTargets) \in Seq(Targets)
        /\ Head(scanTargets) = scanTargets[1] /\ Len(scanTargets) >= 1
        /\ Len(Tail(scanTargets)) = Len(scanTargets) - 1
        /\ \A i \in 1 .. Len(Tail(scanTargets)) : Tail(scanTargets)[i] = scanTargets[i + 1]
    BY <1>5, <1>7, HeadTailProperties, EmptySeq DEF ReceiveTarget
  <2> DEFINE h == Head(scanTargets)
  <2>2. h = Root => stack = <<>>
    BY <2>1, <1>5, <1>7 DEF ReceiveTarget, Shape, ReaderShape, RootFirst
  <2> HIDE DEF h
  <2>3. stack' = <<h>> \/ (h \in Nested /\ stack' = <<Root, h>>)
    <3>1. stack = <<>> \/ stack = <<Root>>
      BY <1>7 DEF ReceiveTarget, Shape, ReaderShape, StackShape
    <3>2. stack = <<>> => stack' = <<h>>
      BY <1>7 DEF ReceiveTarget, h
    <3>3. stack = <<Root>> => stack' = <<Root, h>>
      BY <1>7, AppendToOne DEF ReceiveTarget, h
    <3> QED
      BY <2>1, <2>2, <3>1, <3>2, <3>3 DEF h
  <2>4. QueueTypes'
    BY <1>7, <2>1 DEF ReceiveTarget, Shape, TypeOK, QueueTypes
  <2>5. ReaderTypes'
    <3>1. stack' \in Seq(Targets) /\ Len(stack') <= 2
      <4>1. h \in Targets
        BY <2>1 DEF h
      <4>2. CASE stack' = <<h>>
        BY <4>1, <4>2, StackTypes
      <4>3. CASE stack' = <<Root, h>>
        BY <4>1, <4>3, StackTypes
      <4> QED
        BY <2>3, <4>2, <4>3
    <3> QED
      BY <1>7, <3>1 DEF ReceiveTarget, Shape, TypeOK, ReaderTypes
  <2>6. StackShape'
    <3>1. h \in Targets
      BY <2>1 DEF h
    <3> QED
      BY <1>7, <2>3, <3>1 DEF ReceiveTarget, StackShape
  <2>7. RootFirst'
    BY <1>7, <2>1, <1>5 DEF ReceiveTarget, Shape, ReaderShape, RootFirst
  <2> QED
    BY <1>7, <2>4, <2>5, <2>6, <2>7 DEF ReceiveTarget, Shape, TypeOK, ReaderShape, SignalTypes, GateTypes, FileTypes,
       signalVars, gateVars, fileVars
<1>8. CASE PushEOF
  <2> USE <1>8 DEF PushEOF
  <2>1. zipQ' \in ItemQueue /\ Len(zipQ') = Len(zipQ) + 1
    BY <1>5, ItemKinds, AppendProperties DEF ItemQueue
  <2>2. \/ stack' = <<>> /\ rpc' \in {"outcome", "recv"}
        \/ stack' = <<Root>> /\ rpc' = "drain"
    <3>1. PICK m \in Targets : stack = <<m>> \/ stack = <<Root, m>>
      BY DEF Shape, ReaderShape, StackShape
    <3>2. CASE stack = <<m>>
      BY <3>2
    <3>3. CASE stack = <<Root, m>>
      <4>1. stack \in Seq(Targets) /\ Len(stack) = 2 /\ stack[1] = Root
        BY <3>3
      <4>2. SubSeq(stack, 1, 1) = <<Root>>
        BY <4>1, FrontOfTwo
      <4> QED
        BY <4>1, <4>2
    <3> QED
      BY <3>1, <3>2, <3>3
  <2>3. QueueTypes'
    BY <2>1, <1>5 DEF Shape, TypeOK, QueueTypes
  <2>4. ReaderTypes'
    <3>1. stack' \in Seq(Targets) /\ Len(stack') <= 2
      BY <2>2, StackTypes
    <3> QED
      BY <3>1 DEF Shape, TypeOK, ReaderTypes
  <2>5. StackShape'
    BY <2>2 DEF StackShape
  <2>6. RootFirst'
    BY <1>6 DEF Shape, ReaderShape, RootFirst
  <2> QED
    BY <2>3, <2>4, <2>5, <2>6 DEF Shape, TypeOK, ReaderShape, SignalTypes, GateTypes, FileTypes,
       signalVars, gateVars, fileVars
<1>9. CASE OpenTarget \/ ReadBlock \/ BankTarget
  <2> USE <1>9 DEF OpenTarget, ReadBlock, BankTarget
  <2>1. /\ cur \in Targets /\ pos[cur] \in Nat /\ run.start \in Nat
        /\ rpc' \in {"take", "send", "eof", "push"} /\ rpc \in {"open", "take", "eof"}
        /\ UNCHANGED <<stack, scanTargets, zipQ, gzipQ, walletQ>>
    BY <1>6 DEF Shape, TypeOK, ReaderTypes, FileTypes, Run, queueVars
  <2>2. QueueTypes'
    BY <2>1 DEF Shape, TypeOK, QueueTypes, queueVars
  <2>3. ReaderTypes'
    <3>1. pos' \in [Targets -> Nat] /\ digestLen' \in Nat /\ since' \in Nat
      BY SMTT(30), <2>1 DEF Shape, TypeOK, ReaderTypes, ReadFrom
    <3> QED
      BY <2>1, <3>1 DEF Shape, TypeOK, ReaderTypes
  <2>4. ReaderShape'
    BY <2>1 DEF Shape, ReaderShape, StackShape, RootFirst
  <2>5. GateTypes'
    BY <2>1 DEF Shape, TypeOK, GateTypes, gateVars
  <2> QED
    BY <2>2, <2>3, <2>4, <2>5 DEF Shape, TypeOK, SignalTypes, FileTypes, signalVars, fileVars
<1>10. CASE SendBlock
  <2> USE <1>10 DEF SendBlock
  <2>1. cur \in Targets /\ pos[cur] \in Nat /\ Block(cur, pos[cur]) \in Item
    BY <1>6, ItemKinds DEF Shape, TypeOK, ReaderTypes
  <2>2. zipQ' \in ItemQueue /\ Len(zipQ') = Len(zipQ) + 1
    BY <2>1, <1>5, AppendProperties DEF ItemQueue
  <2>3. rpc' \in {"take", "eof"} \/ (rpc' = "drain" /\ stack = <<Root>>)
    BY <1>6 DEF AfterBlock
  <2>4. QueueTypes'
    BY <1>5, <2>1, <2>2 DEF Shape, TypeOK, QueueTypes
  <2>5. ReaderTypes'
    BY <2>3 DEF Shape, TypeOK, ReaderTypes
  <2>6. ReaderShape'
    BY <2>3, <1>6 DEF Shape, ReaderShape, StackShape, RootFirst
  <2> QED
    BY <2>4, <2>5, <2>6 DEF Shape, TypeOK, SignalTypes, GateTypes, FileTypes,
       signalVars, gateVars, fileVars
<1>11. CASE SendBarrier
  <2> USE <1>11 DEF SendBarrier
  <2>1. zipQ' \in ItemQueue /\ Len(zipQ') = Len(zipQ) + 1
    BY <1>5, ItemKinds, AppendProperties DEF ItemQueue
  <2>2. QueueTypes'
    BY <1>5, <2>1 DEF Shape, TypeOK, QueueTypes
  <2>3. ReaderTypes' /\ ReaderShape'
    BY DEF Shape, TypeOK, ReaderTypes, ReaderShape, StackShape, RootFirst
  <2> QED
    BY <2>2, <2>3 DEF Shape, TypeOK, SignalTypes, GateTypes, FileTypes, signalVars, gateVars, fileVars
<1>12. CASE FileFrontier
  <2> USE <1>12 DEF FileFrontier
  <2>1. pos[Root] \in Nat /\ snapshotCovered \subseteq Nested /\ rpc' \in {"take", "eof"}
    BY DEF Shape, TypeOK, ReaderTypes, GateTypes, snapshotCovered, AfterBlock
  <2>2. QueueTypes'
    BY DEF Shape, TypeOK, QueueTypes, queueVars
  <2>3. ReaderTypes' /\ ReaderShape'
    BY <2>1 DEF Shape, TypeOK, ReaderTypes, ReaderShape, StackShape, RootFirst, queueVars
  <2>4. FileTypes'
    BY <2>1 DEF Shape, TypeOK, ReaderTypes, FileTypes, Journal
  <2> QED
    BY <2>2, <2>3, <2>4 DEF Shape, TypeOK, SignalTypes, GateTypes, signalVars, gateVars
<1>13. CASE DrainDone \/ AwaitAck \/ CheckQuiet \/ ReportRoot \/ SendFinal \/ ReaderExit
  <2> USE <1>13 DEF DrainDone, AwaitAck, CheckQuiet, ReportRoot, SendFinal, ReaderExit
  <2>1. QueueTypes' /\ GateTypes' /\ FileTypes' /\ SignalTypes'
    BY DEF Shape, TypeOK, QueueTypes, GateTypes, FileTypes, SignalTypes,
       queueVars, gateVars, fileVars, signalVars
  <2>2. ReaderTypes' /\ StackShape'
    BY DEF Shape, TypeOK, ReaderTypes, ReaderShape, StackShape, queueVars, AfterBlock
  <2>3. RootFirst'
    BY DEF Shape, ReaderShape, RootFirst, queueVars
  <2> QED
    BY <2>1, <2>2, <2>3 DEF ReaderShape
<1> QED
  BY <1>7, <1>8, <1>9, <1>10, <1>11, <1>12, <1>13 DEF Reader

\* A stage that sends a nested target leaves the reader's side as it was.
LEMMA PublishKeepsTargets ==
  ASSUME Shape, NEW m \in Nested, scanTargets' = Append(scanTargets, m),
         UNCHANGED <<zipQ, gzipQ, walletQ, pool, rpc, stack>>
  PROVE  QueueTypes' /\ RootFirst'
<1>1. /\ scanTargets \in Seq(Targets) /\ scanTargets' \in Seq(Targets)
      /\ Len(scanTargets') = Len(scanTargets) + 1
      /\ \A i \in 1 .. Len(scanTargets) : scanTargets'[i] = scanTargets[i]
      /\ scanTargets'[Len(scanTargets) + 1] = m
  BY AppendProperties DEF Shape, TypeOK, QueueTypes
<1>2. QueueTypes'
  BY <1>1 DEF Shape, TypeOK, QueueTypes
<1>3. RootFirst'
  BY <1>1 DEF Shape, ReaderShape, RootFirst
<1> QED
  BY <1>2, <1>3

LEMMA ClaimTypes ==
  \A m \in Nested : Claim(m) \in [src : Targets, lo : Nat, hi : Nat]
BY InputAssumption DEF Claim

LEMMA ZipKeepsShape ==
  ASSUME Shape, Zip
  PROVE  Shape'
<1> USE InputAssumption, CapacityAssumption
<1>1. UNCHANGED <<readerVars, gzipVars, walletVars, signalVars, mainVars, fileVars, delivered>>
  BY DEF Zip, ZipReceive, ZipOffer, ZipPublish, ZipSettle, ZipForward, ZipExit, histVars
<1>2. ReaderTypes' /\ GzipTypes' /\ WalletTypes' /\ SignalTypes' /\ MainTypes' /\ FileTypes' /\ StackShape'
  BY <1>1 DEF Shape, TypeOK, ReaderTypes, GzipTypes, WalletTypes, SignalTypes, MainTypes, FileTypes,
     ReaderShape, StackShape, readerVars, gzipVars, walletVars, signalVars, mainVars, fileVars
<1>3. FlagTypes'
  <2>1. deferredSkipped' = deferredSkipped \/ deferredSkipped' = (deferredSkipped \/ flushing)
    BY Zenon DEF Zip, ZipReceive, ZipOffer, ZipPublish, ZipSettle, ZipForward, ZipExit,
       notePolicySkip, GateRefuse, GateAdmit, gateVars
  <2>2. deferredSkipped' \in BOOLEAN
    BY <2>1, Zenon DEF flushing, Shape, TypeOK, FlagTypes
  <2> QED
    BY <1>1, <2>2, Zenon DEF Shape, TypeOK, FlagTypes, readerVars, signalVars, mainVars
<1>4. SUFFICES QueueTypes' /\ ZipTypes' /\ GateTypes' /\ HistTypes' /\ RootFirst' /\ StageShape'
  BY <1>2, <1>3 DEF Shape, TypeOK, ReaderShape
<1>5. CASE ZipReceive
  <2> DEFINE item == Head(zipQ)
  <2>1. /\ item \in Item /\ Tail(zipQ) \in ItemQueue
        /\ Len(Tail(zipQ)) = Len(zipQ) - 1 /\ Len(zipQ) \in Nat
    BY <1>5, HeadTailProperties, EmptySeq DEF ZipReceive, Shape, TypeOK, QueueTypes, ItemQueue
  <2>2. QueueTypes' /\ RootFirst'
    BY <1>1, <1>5, <2>1 DEF ZipReceive, Shape, TypeOK, QueueTypes, ReaderShape, RootFirst, readerVars
  <2> HIDE DEF item
  <2>3. ZipTypes'
    BY SMTT(30), <1>5, <2>1, ClaimTypes DEF ZipReceive, item, Shape, TypeOK, ZipTypes, Found
  <2>4. StageShape'
    BY <1>1, <1>5, <2>1, ItemKinds DEF ZipReceive, item, Shape, TypeOK, StageShape, ZipTypes, gzipVars
  <2> QED
    BY <1>5, <2>2, <2>3, <2>4 DEF ZipReceive, Shape, TypeOK, GateTypes, HistTypes, gateVars, histVars
<1>6. ASSUME NEW m \in Nested, ZipOffer(m)
      PROVE  QueueTypes' /\ ZipTypes' /\ GateTypes' /\ HistTypes' /\ RootFirst' /\ StageShape'
  <2>1. QueueTypes' /\ RootFirst'
    BY <1>1, <1>6 DEF ZipOffer, Shape, TypeOK, QueueTypes, ReaderShape, RootFirst, queueVars, readerVars
  <2>2. ZipTypes'
    BY <1>6, ClaimTypes DEF ZipOffer, Shape, TypeOK, ZipTypes
  <2>3. GateTypes' /\ HistTypes'
    BY <1>6 DEF ZipOffer, notePolicySkip, GateRefuse, GateAdmit, Lineage,
       Shape, TypeOK, GateTypes, HistTypes, gateVars
  <2>4. StageShape'
    BY <1>1, <1>6 DEF ZipOffer, Shape, StageShape, gzipVars
  <2> QED
    BY <2>1, <2>2, <2>3, <2>4
<1>7. CASE ZipPublish
  <2>1. PICK m \in Nested : scanTargets' = Append(scanTargets, m)
    BY <1>7 DEF ZipPublish, Shape, TypeOK, ZipTypes
  <2>2. QueueTypes' /\ RootFirst'
    BY <1>1, <1>7, <2>1, PublishKeepsTargets DEF ZipPublish, readerVars
  <2>3. ZipTypes' /\ StageShape'
    BY <1>1, <1>7 DEF ZipPublish, Shape, TypeOK, ZipTypes, StageShape, gzipVars
  <2> QED
    BY <1>7, <2>2, <2>3 DEF ZipPublish, Shape, TypeOK, GateTypes, HistTypes, gateVars, histVars
<1>8. CASE ZipSettle
  <2>1. QueueTypes' /\ RootFirst'
    BY <1>1, <1>8 DEF ZipSettle, Shape, TypeOK, QueueTypes, ReaderShape, RootFirst, queueVars, readerVars
  <2>2. ZipTypes'
    BY <1>8 DEF ZipSettle, zSwallow, Shape, TypeOK, ZipTypes
  <2>3. StageShape'
    BY <1>1, <1>8 DEF ZipSettle, zSwallow, flushing, Shape, TypeOK, ZipTypes, StageShape, gzipVars
  <2> QED
    BY <1>8, <2>1, <2>2, <2>3 DEF ZipSettle, Shape, TypeOK, GateTypes, HistTypes, gateVars, histVars
<1>9. CASE ZipForward
  <2>1. zHand \in Item /\ gzipQ \in ItemQueue /\ Len(gzipQ) \in Nat
    BY <1>9 DEF ZipForward, Nothing, Shape, TypeOK, QueueTypes, ItemQueue, ZipTypes, StageShape
  <2>2. gzipQ' \in ItemQueue /\ Len(gzipQ') = Len(gzipQ) + 1
    BY <1>9, <2>1, AppendProperties DEF ZipForward, ItemQueue
  <2>3. QueueTypes'
    BY <1>9, <2>1, <2>2 DEF ZipForward, Shape, TypeOK, QueueTypes
  <2>4. RootFirst'
    BY <1>1, <1>9 DEF ZipForward, Shape, ReaderShape, RootFirst, readerVars
  <2>5. ZipTypes' /\ StageShape'
    BY <1>1, <1>9 DEF ZipForward, Shape, TypeOK, ZipTypes, StageShape, gzipVars
  <2> QED
    BY <1>9, <2>3, <2>4, <2>5 DEF ZipForward, Shape, TypeOK, GateTypes, HistTypes, gateVars, histVars
<1>10. CASE ZipExit
  <2>1. QueueTypes' /\ RootFirst'
    BY <1>1, <1>10 DEF ZipExit, Shape, TypeOK, QueueTypes, ReaderShape, RootFirst, queueVars, readerVars
  <2>2. ZipTypes' /\ StageShape'
    BY <1>1, <1>10 DEF ZipExit, Shape, TypeOK, ZipTypes, StageShape, gzipVars
  <2> QED
    BY <1>10, <2>1, <2>2 DEF ZipExit, Shape, TypeOK, GateTypes, HistTypes, gateVars, histVars
<1> QED
  BY <1>5, <1>6, <1>7, <1>8, <1>9, <1>10 DEF Zip

LEMMA GzipKeepsShape ==
  ASSUME Shape, Gzip
  PROVE  Shape'
<1> USE InputAssumption, CapacityAssumption
<1>1. UNCHANGED <<readerVars, zipVars, walletVars, signalVars, mainVars, fileVars, delivered>>
  BY DEF Gzip, GzipReceive, GzipOffer, GzipPublish, GzipSettle, GzipForward, GzipExit, histVars
<1>2. ReaderTypes' /\ ZipTypes' /\ WalletTypes' /\ SignalTypes' /\ MainTypes' /\ FileTypes' /\ StackShape'
  BY <1>1 DEF Shape, TypeOK, ReaderTypes, ZipTypes, WalletTypes, SignalTypes, MainTypes, FileTypes,
     ReaderShape, StackShape, readerVars, zipVars, walletVars, signalVars, mainVars, fileVars
<1>3. FlagTypes'
  <2>1. deferredSkipped' = deferredSkipped \/ deferredSkipped' = (deferredSkipped \/ FALSE)
    BY Zenon DEF Gzip, GzipReceive, GzipOffer, GzipPublish, GzipSettle, GzipForward, GzipExit,
       notePolicySkip, GateRefuse, GateAdmit, gateVars
  <2>2. deferredSkipped' \in BOOLEAN
    BY <2>1, Zenon DEF Shape, TypeOK, FlagTypes
  <2> QED
    BY <1>1, <2>2, Zenon DEF Shape, TypeOK, FlagTypes, readerVars, signalVars, mainVars
<1>4. SUFFICES QueueTypes' /\ GzipTypes' /\ GateTypes' /\ HistTypes' /\ RootFirst' /\ StageShape'
  BY <1>2, <1>3 DEF Shape, TypeOK, ReaderShape
<1>5. CASE GzipReceive
  <2> DEFINE item == Head(gzipQ)
  <2>1. /\ item \in Item /\ Tail(gzipQ) \in ItemQueue
        /\ Len(Tail(gzipQ)) = Len(gzipQ) - 1 /\ Len(gzipQ) \in Nat
    BY <1>5, HeadTailProperties, EmptySeq DEF GzipReceive, Shape, TypeOK, QueueTypes, ItemQueue
  <2>2. QueueTypes' /\ RootFirst'
    BY <1>1, <1>5, <2>1 DEF GzipReceive, Shape, TypeOK, QueueTypes, ReaderShape, RootFirst, readerVars
  <2> HIDE DEF item
  <2>3. GzipTypes'
    BY <1>5, <2>1 DEF GzipReceive, item, Shape, TypeOK, GzipTypes, Found
  <2>4. StageShape'
    BY <1>1, <1>5, <2>1, ItemKinds DEF GzipReceive, item, Shape, TypeOK, StageShape, GzipTypes, zipVars
  <2> QED
    BY <1>5, <2>2, <2>3, <2>4 DEF GzipReceive, Shape, TypeOK, GateTypes, HistTypes, gateVars, histVars
<1>6. ASSUME NEW m \in Nested, GzipOffer(m)
      PROVE  QueueTypes' /\ GzipTypes' /\ GateTypes' /\ HistTypes' /\ RootFirst' /\ StageShape'
  <2>1. QueueTypes' /\ RootFirst'
    BY <1>1, <1>6 DEF GzipOffer, Shape, TypeOK, QueueTypes, ReaderShape, RootFirst, queueVars, readerVars
  <2>2. GzipTypes'
    <3>1. (gSlot' = gSlot /\ gNew' = gNew) \/ (gSlot' = {m} /\ gNew' = gNew + 1)
      BY <1>6 DEF GzipOffer
    <3>2. gTodo' \subseteq gTodo /\ UNCHANGED <<gpc, gHand, openedG>>
      BY <1>6 DEF GzipOffer
    <3> QED
      BY <3>1, <3>2 DEF Shape, TypeOK, GzipTypes
  <2>3. GateTypes' /\ HistTypes'
    BY <1>6 DEF GzipOffer, notePolicySkip, GateRefuse, GateAdmit, Lineage,
       Shape, TypeOK, GateTypes, HistTypes, gateVars
  <2>4. StageShape'
    BY <1>1, <1>6 DEF GzipOffer, Shape, StageShape, zipVars
  <2> QED
    BY <2>1, <2>2, <2>3, <2>4
<1>7. CASE GzipPublish
  <2>1. PICK m \in Nested : scanTargets' = Append(scanTargets, m)
    BY <1>7 DEF GzipPublish, Shape, TypeOK, GzipTypes
  <2>2. QueueTypes' /\ RootFirst'
    BY <1>1, <1>7, <2>1, PublishKeepsTargets DEF GzipPublish, readerVars
  <2>3. GzipTypes' /\ StageShape'
    BY <1>1, <1>7 DEF GzipPublish, Shape, TypeOK, GzipTypes, StageShape, zipVars
  <2> QED
    BY <1>7, <2>2, <2>3 DEF GzipPublish, Shape, TypeOK, GateTypes, HistTypes, gateVars, histVars
<1>8. CASE GzipSettle
  <2>1. QueueTypes' /\ RootFirst'
    BY <1>1, <1>8 DEF GzipSettle, Shape, TypeOK, QueueTypes, ReaderShape, RootFirst, queueVars, readerVars
  <2>2. GzipTypes'
    BY <1>8 DEF GzipSettle, gSwallow, Shape, TypeOK, GzipTypes
  <2>3. StageShape'
    BY <1>1, <1>8 DEF GzipSettle, gSwallow, Shape, TypeOK, GzipTypes, StageShape, zipVars
  <2> QED
    BY <1>8, <2>1, <2>2, <2>3 DEF GzipSettle, Shape, TypeOK, GateTypes, HistTypes, gateVars, histVars
<1>9. CASE GzipForward
  <2>1. gHand \in Item /\ walletQ \in ItemQueue /\ Len(walletQ) \in Nat
    BY <1>9 DEF GzipForward, Nothing, Shape, TypeOK, QueueTypes, ItemQueue, GzipTypes, StageShape
  <2>2. walletQ' \in ItemQueue /\ Len(walletQ') = Len(walletQ) + 1
    BY <1>9, <2>1, AppendProperties DEF GzipForward, ItemQueue
  <2>3. QueueTypes'
    BY <1>9, <2>1, <2>2 DEF GzipForward, Shape, TypeOK, QueueTypes
  <2>4. RootFirst'
    BY <1>1, <1>9 DEF GzipForward, Shape, ReaderShape, RootFirst, readerVars
  <2>5. GzipTypes' /\ StageShape'
    BY <1>1, <1>9 DEF GzipForward, Shape, TypeOK, GzipTypes, StageShape, zipVars
  <2> QED
    BY <1>9, <2>3, <2>4, <2>5 DEF GzipForward, Shape, TypeOK, GateTypes, HistTypes, gateVars, histVars
<1>10. CASE GzipExit
  <2>1. QueueTypes' /\ RootFirst'
    BY <1>1, <1>10 DEF GzipExit, Shape, TypeOK, QueueTypes, ReaderShape, RootFirst, queueVars, readerVars
  <2>2. GzipTypes' /\ StageShape'
    BY <1>1, <1>10 DEF GzipExit, Shape, TypeOK, GzipTypes, StageShape, zipVars
  <2> QED
    BY <1>10, <2>1, <2>2 DEF GzipExit, Shape, TypeOK, GateTypes, HistTypes, gateVars, histVars
<1> QED
  BY <1>5, <1>6, <1>7, <1>8, <1>9, <1>10 DEF Gzip

LEMMA WalletKeepsShape ==
  ASSUME Shape, Wallet
  PROVE  Shape'
<1> USE InputAssumption, CapacityAssumption
<1>1. UNCHANGED <<readerVars, zipVars, gzipVars, gateVars, mainVars, fileVars,
                  scanTargets, zipQ, gzipQ, rootDone, final, admitted>>
  BY DEF Wallet, WalletReceive, WalletReport, WalletExit, queueVars, signalVars, histVars
<1>2. /\ ReaderTypes' /\ ZipTypes' /\ GzipTypes' /\ SignalTypes' /\ GateTypes' /\ MainTypes' /\ FileTypes'
      /\ ReaderShape' /\ StageShape'
  <2>1. ReaderTypes' /\ ZipTypes' /\ GzipTypes' /\ SignalTypes' /\ GateTypes' /\ MainTypes' /\ FileTypes'
    <3>1. ReaderTypes' /\ ZipTypes' /\ GzipTypes'
      BY <1>1 DEF Shape, TypeOK, ReaderTypes, ZipTypes, GzipTypes, readerVars, zipVars, gzipVars
    <3>2. SignalTypes' /\ GateTypes' /\ MainTypes' /\ FileTypes'
      BY <1>1 DEF Shape, TypeOK, SignalTypes, GateTypes, MainTypes, FileTypes, gateVars, mainVars, fileVars
    <3> QED
      BY <3>1, <3>2
  <2>2. ReaderShape' /\ StageShape'
    BY <1>1 DEF Shape, ReaderShape, StackShape, RootFirst, StageShape, readerVars, zipVars, gzipVars
  <2> QED
    BY <2>1, <2>2
<1>3. FlagTypes'
  BY <1>1, Zenon DEF Wallet, WalletReceive, WalletReport, WalletExit, Shape, TypeOK, FlagTypes,
     readerVars, gateVars, mainVars, signalVars
<1>4. CASE WalletReceive
  <2>1. /\ Head(walletQ) \in Item /\ Tail(walletQ) \in ItemQueue
        /\ Len(Tail(walletQ)) = Len(walletQ) - 1 /\ Len(walletQ) \in Nat
    BY <1>4, HeadTailProperties, EmptySeq DEF WalletReceive, Shape, TypeOK, QueueTypes, ItemQueue
  <2>2. QueueTypes'
    BY <1>4, <2>1 DEF WalletReceive, Shape, TypeOK, QueueTypes
  <2>3. WalletTypes'
    BY <1>4, <2>1 DEF WalletReceive, Shape, TypeOK, WalletTypes
  <2> QED
    BY <1>2, <1>3, <1>4, <2>2, <2>3 DEF WalletReceive, Shape, TypeOK, HistTypes, histVars
<1>5. CASE WalletReport
  <2>1. wHand.src \in Targets /\ wHand.n \in Nat
    BY ItemKinds DEF Nothing, Shape, TypeOK, WalletTypes
  <2>2. QueueTypes' /\ WalletTypes' /\ HistTypes'
    BY <1>5, <2>1 DEF WalletReport, Shape, TypeOK, QueueTypes, WalletTypes, HistTypes
  <2> QED
    BY <1>2, <1>3, <2>2 DEF Shape, TypeOK
<1>6. CASE WalletExit
  <2>1. QueueTypes' /\ WalletTypes' /\ HistTypes'
    BY <1>6 DEF WalletExit, Shape, TypeOK, QueueTypes, WalletTypes, HistTypes, queueVars, histVars
  <2> QED
    BY <1>2, <1>3, <2>1 DEF Shape, TypeOK
<1> QED
  BY <1>4, <1>5, <1>6 DEF Wallet

LEMMA MainKeepsShape ==
  ASSUME Shape, Main \/ Cancel
  PROVE  Shape'
<1> USE InputAssumption, CapacityAssumption
<1>1. UNCHANGED <<queueVars, readerVars, zipVars, gzipVars, walletVars, signalVars, gateVars,
                  run, lastFiled, histVars>>
  BY DEF Main, MainSignal, MainCancel, MainRoot, MainFail, MainComplete, Cancel, fileVars
<1>2. QueueTypes' /\ ReaderTypes' /\ ZipTypes' /\ GzipTypes' /\ WalletTypes' /\ SignalTypes' /\ GateTypes' /\ HistTypes'
  <2>1. QueueTypes' /\ ReaderTypes' /\ ZipTypes' /\ GzipTypes'
    BY SMTT(30), <1>1 DEF Shape, TypeOK, QueueTypes, ReaderTypes, ZipTypes, GzipTypes,
       queueVars, readerVars, zipVars, gzipVars
  <2>2. WalletTypes' /\ SignalTypes' /\ GateTypes' /\ HistTypes'
    BY <1>1 DEF Shape, TypeOK, WalletTypes, SignalTypes, GateTypes, HistTypes,
       walletVars, signalVars, gateVars, histVars
  <2> QED
    BY <2>1, <2>2
<1>3. ReaderShape' /\ StageShape'
  BY <1>1 DEF Shape, ReaderShape, StackShape, RootFirst, StageShape, queueVars, readerVars, zipVars, gzipVars
<1>4. MainTypes'
  BY DEF Main, MainSignal, MainCancel, MainRoot, MainFail, MainComplete, Cancel, Shape, TypeOK, MainTypes
<1>5. FlagTypes'
  BY <1>1, Zenon DEF Main, MainSignal, MainCancel, MainRoot, MainFail, MainComplete, Cancel,
     Shape, TypeOK, FlagTypes, readerVars, signalVars, gateVars
<1>6. FileTypes'
  <2>1. snapshotCovered \subseteq Nested /\ run.start \in Nat /\ frozenOffset \in Nat
    BY DEF Shape, TypeOK, GateTypes, FileTypes, Run, snapshotCovered, frozenOffset
  <2>2. journal' \in Journal
    BY <2>1 DEF Main, MainSignal, MainCancel, MainRoot, MainFail, MainComplete, Cancel,
       Shape, TypeOK, ReaderTypes, FileTypes, Journal, fileVars
  <2> QED
    BY <1>1, <2>2 DEF Shape, TypeOK, FileTypes
<1> QED
  BY <1>2, <1>3, <1>4, <1>5, <1>6 DEF Shape, TypeOK

LEMMA StutterKeepsShape ==
  ASSUME Shape, UNCHANGED vars
  PROVE  Shape'
<1>1. TypeOK'
  <2>1. FlagTypes'
    BY Zenon DEF vars, Shape, TypeOK, FlagTypes, readerVars, signalVars, gateVars, mainVars
  <2>2. /\ QueueTypes' /\ ReaderTypes' /\ ZipTypes' /\ GzipTypes' /\ WalletTypes' /\ SignalTypes'
        /\ GateTypes' /\ MainTypes' /\ FileTypes' /\ HistTypes'
    BY DEF vars, Shape, TypeOK, QueueTypes, ReaderTypes, ZipTypes, GzipTypes, WalletTypes, SignalTypes,
       GateTypes, MainTypes, FileTypes, HistTypes, queueVars, readerVars, zipVars, gzipVars, walletVars,
       signalVars, gateVars, mainVars, fileVars, histVars
  <2> QED
    BY <2>1, <2>2 DEF TypeOK
<1>2. ReaderShape' /\ StageShape'
  BY DEF vars, Shape, ReaderShape, StackShape, RootFirst, StageShape, queueVars, readerVars, zipVars, gzipVars
<1> QED
  BY <1>1, <1>2 DEF Shape

LEMMA StepKeepsShape ==
  ASSUME Shape, [Next]_vars
  PROVE  Shape'
BY ReaderKeepsShape, ZipKeepsShape, GzipKeepsShape, WalletKeepsShape, MainKeepsShape, StutterKeepsShape
   DEF Next, Returned

\* Whatever the input tree and the capacities, every variable of a scan keeps
\* its type: no queue exceeds its channel and reads never nest beyond two.
THEOREM TypeCorrect == Spec => []TypeOK
<1>1. Spec => []Shape
  BY InitStarts, InitShape, StepKeepsShape, PTL DEF Spec
<1>2. Shape => TypeOK
  BY DEF Shape
<1> QED
  BY <1>1, <1>2, PTL

-----------------------------------------------------------------------------
(* The publication bound: the gate counts every target that is in          *)
(* scanTargets or about to be, so an admitted one finds room.              *)

LEMMA InitGateCounts == AnyStart => GateCounts
BY InputAssumption, CapacityAssumption DEF AnyStart, RunStarts, GateCounts, One

LEMMA StepKeepsGateCounts ==
  ASSUME Shape, GateCounts, [Next]_vars
  PROVE  GateCounts'
<1> USE CapacityAssumption
<1> DEFINE L == Len(scanTargets)
           z == One(zSlot # {})
           g == One(gSlot # {})
           o == One(rpc = "open")
<1>1. scanTargets \in Seq(Targets) /\ L \in Nat /\ outstanding \in Int
  BY DEF Shape, TypeOK, QueueTypes, GateTypes
<1>2. z \in Nat /\ g \in Nat /\ o \in Nat
  BY DEF One
<1>3. outstanding = L + z + g + o /\ outstanding <= PubCap
  BY DEF GateCounts
<1>4. SUFFICES outstanding' = L' + z' + g' + o' /\ outstanding' <= PubCap
  BY DEF GateCounts
<1>5. \A m \in Nested : scanTargets' = Append(scanTargets, m) => L' = L + 1
  BY <1>1, AppendProperties
<1>6. zSlot' = zSlot => z' = z
  OBVIOUS
<1>7. gSlot' = gSlot => g' = g
  OBVIOUS
<1>8. rpc' = rpc => o' = o
  OBVIOUS
<1>9. scanTargets' = scanTargets => L' = L
  OBVIOUS
<1> HIDE DEF L, z, g, o
<1>10. CASE ReceiveTarget
  <2>1. L' = L - 1
    BY <1>1, <1>10, HeadTailProperties DEF ReceiveTarget, L
  <2>2. o = 0 /\ o' = 1
    BY <1>10 DEF ReceiveTarget, o, One
  <2>3. UNCHANGED <<outstanding, z, g>>
    BY <1>6, <1>7, <1>10 DEF ReceiveTarget, zipVars, gzipVars, gateVars
  <2> QED
    BY <1>1, <1>2, <1>3, <2>1, <2>2, <2>3
<1>11. CASE OpenTarget
  <2>1. o = 1 /\ o' = 0
    BY <1>11 DEF OpenTarget, o, One
  <2>2. UNCHANGED <<L, z, g>> /\ outstanding' = outstanding - 1
    BY <1>6, <1>7, <1>9, <1>11 DEF OpenTarget, queueVars, zipVars, gzipVars
  <2> QED
    BY <1>1, <1>2, <1>3, <2>1, <2>2
<1>12. CASE UNCHANGED <<outstanding, L, z, g, o>>
  BY <1>3, <1>12
<1>13. CASE Reader /\ ~ReceiveTarget /\ ~OpenTarget
  <2>1. UNCHANGED <<scanTargets, outstanding, zSlot, gSlot>> /\ rpc # "open" /\ rpc' # "open"
    BY <1>13 DEF Reader, ReadBlock, SendBlock, DrainDone, SendBarrier, AwaitAck, CheckQuiet,
       FileFrontier, BankTarget, PushEOF, ReportRoot, SendFinal, ReaderExit, AfterBlock,
       queueVars, zipVars, gzipVars, gateVars
  <2>2. o' = o
    BY <2>1 DEF o, One
  <2> QED
    BY <1>6, <1>7, <1>9, <1>12, <2>1, <2>2
<1>14. ASSUME NEW m \in Nested, ZipOffer(m)
       PROVE  outstanding' = L' + z' + g' + o' /\ outstanding' <= PubCap
  <2>1. UNCHANGED <<L, g, o>>
    BY <1>7, <1>8, <1>9, <1>14 DEF ZipOffer, queueVars, readerVars, gzipVars
  <2>2. CASE UNCHANGED <<outstanding, zSlot>>
    BY <1>6, <1>12, <2>1, <2>2
  <2>3. CASE zSlot = {} /\ zSlot' = {m} /\ outstanding' = outstanding + 1 /\ outstanding < PubCap
    <3>1. z = 0 /\ z' = 1
      BY <2>3 DEF z, One
    <3> QED
      BY <1>1, <1>2, <1>3, <2>1, <2>3, <3>1
  <2> QED
    BY <1>14, <2>2, <2>3 DEF ZipOffer, notePolicySkip, GateRefuse, GateAdmit, GateHasRoom, gateVars
<1>15. CASE ZipPublish
  <2>1. L' = L + 1
    BY <1>5, <1>15 DEF ZipPublish, Shape, TypeOK, ZipTypes
  <2>2. z = 1 /\ z' = 0
    BY <1>15 DEF ZipPublish, z, One
  <2>3. UNCHANGED <<outstanding, g, o>>
    BY <1>7, <1>8, <1>15 DEF ZipPublish, readerVars, gzipVars, gateVars
  <2> QED
    BY <1>1, <1>2, <1>3, <2>1, <2>2, <2>3
<1>16. CASE ZipReceive \/ ZipSettle \/ ZipForward \/ ZipExit
  BY <1>6, <1>7, <1>8, <1>9, <1>12, <1>16 DEF ZipReceive, ZipSettle, ZipForward, ZipExit,
     queueVars, readerVars, gzipVars, gateVars
<1>17. ASSUME NEW m \in Nested, GzipOffer(m)
       PROVE  outstanding' = L' + z' + g' + o' /\ outstanding' <= PubCap
  <2>1. UNCHANGED <<L, z, o>>
    BY <1>6, <1>8, <1>9, <1>17 DEF GzipOffer, queueVars, readerVars, zipVars
  <2>2. CASE UNCHANGED <<outstanding, gSlot>>
    BY <1>7, <1>12, <2>1, <2>2
  <2>3. CASE gSlot = {} /\ gSlot' = {m} /\ outstanding' = outstanding + 1 /\ outstanding < PubCap
    <3>1. g = 0 /\ g' = 1
      BY <2>3 DEF g, One
    <3> QED
      BY <1>1, <1>2, <1>3, <2>1, <2>3, <3>1
  <2> QED
    BY <1>17, <2>2, <2>3 DEF GzipOffer, notePolicySkip, GateRefuse, GateAdmit, GateHasRoom, gateVars
<1>18. CASE GzipPublish
  <2>1. L' = L + 1
    BY <1>5, <1>18 DEF GzipPublish, Shape, TypeOK, GzipTypes
  <2>2. g = 1 /\ g' = 0
    BY <1>18 DEF GzipPublish, g, One
  <2>3. UNCHANGED <<outstanding, z, o>>
    BY <1>6, <1>8, <1>18 DEF GzipPublish, readerVars, zipVars, gateVars
  <2> QED
    BY <1>1, <1>2, <1>3, <2>1, <2>2, <2>3
<1>19. CASE GzipReceive \/ GzipSettle \/ GzipForward \/ GzipExit
  BY <1>6, <1>7, <1>8, <1>9, <1>12, <1>19 DEF GzipReceive, GzipSettle, GzipForward, GzipExit,
     queueVars, readerVars, zipVars, gateVars
<1>20. CASE Wallet \/ Main \/ Cancel \/ UNCHANGED vars
  <2>1. UNCHANGED <<scanTargets, outstanding, zSlot, gSlot, rpc>>
    BY <1>20 DEF Wallet, WalletReceive, WalletReport, WalletExit, Main, MainSignal, MainCancel,
       MainRoot, MainFail, MainComplete, Cancel, vars, queueVars, readerVars, zipVars, gzipVars, gateVars
  <2> QED
    BY <1>6, <1>7, <1>8, <1>9, <1>12, <2>1
<1> QED
  BY <1>10, <1>11, <1>13, <1>14, <1>15, <1>16, <1>17, <1>18, <1>19, <1>20 DEF Next, Returned, Zip, Gzip

LEMMA GateSuffices ==
  ASSUME Shape, GateCounts
  PROVE  AdmittedSendFits
<1> SUFFICES ASSUME zSlot \cup gSlot # {} PROVE Len(scanTargets) < ChanCap
  BY DEF AdmittedSendFits
<1> DEFINE L == Len(scanTargets)
           z == One(zSlot # {})
           g == One(gSlot # {})
           o == One(rpc = "open")
<1>1. L \in Nat /\ z \in Nat /\ g \in Nat /\ o \in Nat
  BY DEF Shape, TypeOK, QueueTypes, One
<1>2. z + g >= 1
  BY DEF One
<1>3. outstanding = L + z + g + o /\ outstanding <= PubCap
  BY DEF GateCounts
<1> HIDE DEF L, z, g, o
<1>4. L < ChanCap
  BY <1>1, <1>2, <1>3, CapacityAssumption
<1> QED
  BY <1>4 DEF L

\* A target that the gate admitted finds room in scanTargets, whatever the
\* capacities: a stage's send of it, which is in no select, never waits.
THEOREM PublishersNeverBlock == Spec => []AdmittedSendFits
<1>1. Shape /\ GateCounts => AdmittedSendFits
  BY GateSuffices
<1>2. Init => Shape /\ GateCounts
  BY InitStarts, InitShape, InitGateCounts
<1>3. Shape /\ GateCounts /\ [Next]_vars => (Shape /\ GateCounts)'
  BY StepKeepsShape, StepKeepsGateCounts
<1> QED
  BY <1>1, <1>2, <1>3, PTL DEF Spec

-----------------------------------------------------------------------------
(* Counting the items of a kind in a queue, and its EOFs.                  *)

LEMMA CountFinite ==
  ASSUME NEW k, NEW q \in ItemQueue
  PROVE  IsFiniteSet(Places(q, k)) /\ Count(q, k) \in Nat /\ Len(q) \in Nat
<1>1. Len(q) \in Nat /\ IsFiniteSet(1 .. Len(q))
  BY FS_Interval DEF ItemQueue
<1>2. Places(q, k) \subseteq 1 .. Len(q)
  BY DEF Places
<1>3. IsFiniteSet(Places(q, k))
  BY <1>1, <1>2, FS_Subset
<1> QED
  BY <1>1, <1>3, FS_CardinalityType DEF Count

LEMMA CountEmpty ==
  ASSUME NEW k
  PROVE  Places(<<>>, k) = {} /\ Count(<<>>, k) = 0
<1>1. Places(<<>>, k) = {}
  BY DEF Places
<1> QED
  BY <1>1, FS_EmptySet DEF Count

LEMMA CountAppend ==
  ASSUME NEW k, NEW q \in ItemQueue, NEW x \in Item
  PROVE  Count(Append(q, x), k) = Count(q, k) + One(x.kind = k)
<1> DEFINE p == Append(q, x)
<1>1. /\ q \in Seq(Item) /\ Len(q) \in Nat
      /\ Len(p) = Len(q) + 1 /\ p[Len(q) + 1] = x
      /\ \A i \in 1 .. Len(q) : p[i] = q[i]
  BY AppendProperties DEF ItemQueue
<1> HIDE DEF p
<1>2. IsFiniteSet(Places(q, k)) /\ Cardinality(Places(q, k)) \in Nat /\ Len(q) + 1 \notin Places(q, k)
  <2>1. IsFiniteSet(Places(q, k)) /\ Cardinality(Places(q, k)) \in Nat
    BY CountFinite DEF Count
  <2>2. Len(q) + 1 \notin Places(q, k)
    BY <1>1 DEF Places
  <2> QED
    BY <2>1, <2>2
<1>3. CASE x.kind = k
  <2>1. Places(p, k) = Places(q, k) \cup {Len(q) + 1}
    BY <1>1, <1>3 DEF Places
  <2>2. Cardinality(Places(p, k)) = Cardinality(Places(q, k)) + 1
    BY <1>2, <2>1, FS_AddElement
  <2> QED
    BY <1>3, <2>2 DEF Count, One, p
<1>4. CASE x.kind # k
  <2>1. Places(p, k) = Places(q, k)
    BY <1>1, <1>4 DEF Places
  <2> QED
    BY <1>2, <1>4, <2>1 DEF Count, One, p
<1> QED
  BY <1>3, <1>4

LEMMA CountTail ==
  ASSUME NEW k, NEW q \in ItemQueue, q # <<>>
  PROVE  Count(q, k) = Count(Tail(q), k) + One(Head(q).kind = k)
<1> DEFINE t == Tail(q)
           T == Places(q, k) \ {1}
           f == [i \in Places(t, k) |-> i + 1]
<1>1. /\ q \in Seq(Item) /\ t \in ItemQueue /\ Len(q) \in Nat /\ Len(q) >= 1 /\ Len(t) = Len(q) - 1
      /\ \A i \in 1 .. Len(t) : t[i] = q[i + 1]
      /\ Head(q) = q[1]
  BY HeadTailProperties, EmptySeq DEF ItemQueue
<1> HIDE DEF t
<1>2. f \in [Places(t, k) -> T]
  BY <1>1 DEF Places
<1>3. \A a, b \in Places(t, k) : f[a] = f[b] => a = b
  BY <1>1 DEF Places
<1>4. \A j \in T : j - 1 \in Places(t, k) /\ f[j - 1] = j
  BY <1>1 DEF Places
<1>5. ExistsBijection(Places(t, k), T)
  <2> HIDE DEF f, T
  <2>1. \A j \in T : \E i \in Places(t, k) : f[i] = j
    BY <1>4
  <2>2. f \in Bijection(Places(t, k), T)
    BY <1>2, <1>3, <2>1, Fun_IsBij
  <2> QED
    BY <2>2 DEF ExistsBijection
<1>6. Cardinality(T) = Count(t, k) /\ Count(t, k) \in Nat
  BY <1>1, <1>5, CountFinite, FS_Bijection DEF Count
<1>7. Cardinality(T) = IF 1 \in Places(q, k) THEN Count(q, k) - 1 ELSE Count(q, k)
  BY CountFinite, FS_RemoveElement DEF Count
<1>8. 1 \in Places(q, k) <=> Head(q).kind = k
  BY <1>1 DEF Places
<1>9. Count(q, k) = Count(t, k) + One(Head(q).kind = k)
  <2>1. Count(q, k) \in Nat
    BY CountFinite
  <2> QED
    BY <1>6, <1>7, <1>8, <2>1 DEF One
<1> QED
  BY <1>9 DEF t

LEMMA EndsFinite ==
  ASSUME NEW q \in ItemQueue
  PROVE  NEnds(q) \in Nat /\ Len(q) \in Nat
BY CountFinite DEF NEnds

LEMMA EndsEmpty == NEnds(<<>>) = 0
BY CountEmpty DEF NEnds

LEMMA EndsAppend ==
  ASSUME NEW q \in ItemQueue, NEW x \in Item
  PROVE  NEnds(Append(q, x)) = NEnds(q) + One(x.kind = "eof")
BY CountAppend DEF NEnds

LEMMA EndsTail ==
  ASSUME NEW q \in ItemQueue, q # <<>>
  PROVE  NEnds(q) = NEnds(Tail(q)) + One(Head(q).kind = "eof")
BY CountTail DEF NEnds

LEMMA EndsLast ==
  ASSUME NEW q \in ItemQueue, EndsWithEOF(q)
  PROVE  NEnds(q) >= 1
<1>1. Len(q) \in Places(q, "eof")
  BY EmptySeq DEF EndsWithEOF, Places, ItemQueue
<1> QED
  BY <1>1, CountFinite, FS_EmptySet DEF NEnds, Count

LEMMA EOFLast ==
  ASSUME NEW q \in ItemQueue, q # <<>>
  PROVE  /\ EndsWithEOF(q) /\ Tail(q) # <<>> => EndsWithEOF(Tail(q))
         /\ EndsWithEOF(q) /\ Tail(q) = <<>> => Head(q).kind = "eof"
<1>1. /\ q \in Seq(Item) /\ Tail(q) \in Seq(Item) /\ Len(q) \in Nat /\ Len(q) >= 1
      /\ Len(Tail(q)) = Len(q) - 1 /\ Head(q) = q[1]
      /\ \A i \in 1 .. Len(Tail(q)) : Tail(q)[i] = q[i + 1]
  BY HeadTailProperties, EmptySeq DEF ItemQueue
<1>2. CASE Tail(q) # <<>>
  <2>1. Len(q) - 1 \in 1 .. Len(Tail(q))
    BY <1>1, <1>2, EmptySeq
  <2>2. Tail(q)[Len(Tail(q))] = q[Len(q)]
    BY <1>1, <2>1
  <2> QED
    BY <1>2, <2>2 DEF EndsWithEOF
<1>3. CASE Tail(q) = <<>>
  <2>1. Len(q) - 1 = 0
    BY <1>1, <1>3
  <2>2. q[Len(q)] = Head(q)
    BY <1>1, <2>1
  <2> QED
    BY <1>3, <2>2 DEF EndsWithEOF
<1> QED
  BY <1>2, <1>3

LEMMA EOFAppended ==
  ASSUME NEW q \in ItemQueue, NEW x \in Item
  PROVE  Append(q, x) # <<>> /\ (EndsWithEOF(Append(q, x)) <=> x.kind = "eof")
<1> DEFINE p == Append(q, x)
<1>1. p # <<>> /\ Len(p) = Len(q) + 1 /\ p[Len(q) + 1] = x
  BY AppendProperties DEF ItemQueue
<1> HIDE DEF p
<1>2. p[Len(p)] = x
  BY <1>1
<1> QED
  BY <1>1, <1>2 DEF EndsWithEOF, p

-----------------------------------------------------------------------------
(* The EOF argument.  Balance counts the EOFs in the pipeline against what *)
(* the stages owe; the other three parts say what follows an item.         *)

EOFFacts == Balance /\ ZipFollowed /\ GzipFollowed /\ WalletFollowed

eofVars == <<scanTargets, stack, zSlot, gSlot, zipQ, zHand, gzipQ, gHand, walletQ, signaled,
             openedZ, zNew, openedG, gNew>>

LEMMA CountTypes ==
  ASSUME Shape
  PROVE  /\ Unread \in Nat /\ ZEnds \in Nat /\ GEnds \in Nat /\ WEnds \in Nat
         /\ ZOwes \in Nat /\ GOwes \in Nat
         /\ zipQ \in ItemQueue /\ gzipQ \in ItemQueue /\ walletQ \in ItemQueue
         /\ Len(scanTargets) \in Nat /\ Len(stack) \in Nat
<1>1. /\ zipQ \in ItemQueue /\ gzipQ \in ItemQueue /\ walletQ \in ItemQueue
      /\ Len(scanTargets) \in Nat /\ Len(stack) \in Nat
  BY DEF Shape, TypeOK, QueueTypes, ReaderTypes
<1>2. NEnds(zipQ) \in Nat /\ NEnds(gzipQ) \in Nat /\ NEnds(walletQ) \in Nat
  BY <1>1, EndsFinite
<1>3. ZEnds \in Nat /\ GEnds \in Nat /\ WEnds \in Nat
  BY <1>2 DEF ZEnds, GEnds, WEnds, One
<1>4. Unread \in Nat
  BY <1>1 DEF Unread, One
<1>5. ZOwes \in Nat /\ GOwes \in Nat
  BY DEF Shape, TypeOK, ZipTypes, GzipTypes, ZOwes, GOwes
<1> QED
  BY <1>1, <1>3, <1>4, <1>5

\* What is past the zip stage owes nothing to a pipeline that is still fed.
LEMMA FedUpstream ==
  ASSUME GzipFollowed, WalletFollowed, ~UpstreamDone
  PROVE  ~(WEnds >= 1) /\ (GEnds >= 1 => GEnds <= GOwes)
BY DEF GzipFollowed, WalletFollowed

LEMMA FedUpstreamStep ==
  ASSUME GzipFollowed, WalletFollowed, ~UpstreamDone, UNCHANGED <<GEnds, GOwes, WEnds>>
  PROVE  GzipFollowed' /\ WalletFollowed'
BY FedUpstream DEF GzipFollowed, WalletFollowed

LEMMA SameEOFs ==
  ASSUME EOFFacts, UNCHANGED eofVars
  PROVE  EOFFacts'
<1>1. Balance'
  BY DEF EOFFacts, eofVars, Balance, Unread, ZEnds, GEnds, WEnds, ZOwes, GOwes
<1>2. ZipFollowed'
  BY DEF EOFFacts, eofVars, ZipFollowed
<1>3. GEnds' = GEnds /\ GOwes' = GOwes /\ WEnds' = WEnds /\ UpstreamDone' = UpstreamDone
  BY DEF eofVars, GEnds, GOwes, WEnds, UpstreamDone, Unread, ZOwes
<1>4. GzipFollowed' /\ WalletFollowed'
  BY <1>3 DEF EOFFacts, eofVars, GzipFollowed, WalletFollowed
<1> QED
  BY <1>1, <1>2, <1>4 DEF EOFFacts

LEMMA InitEOFFacts == AnyStart => EOFFacts
<1> SUFFICES ASSUME AnyStart PROVE EOFFacts
  OBVIOUS
<1>1. Unread = 1 /\ ZEnds = 0 /\ GEnds = 0 /\ WEnds = 0 /\ ZOwes = 0 /\ GOwes = 0
  BY EndsEmpty, ItemKinds DEF AnyStart, RunStarts, Unread, ZEnds, GEnds, WEnds, ZOwes, GOwes, One
<1>2. ZipFollowed
  BY ItemKinds DEF AnyStart, RunStarts, ZipFollowed
<1> QED
  BY <1>1, <1>2 DEF EOFFacts, Balance, GzipFollowed, WalletFollowed

LEMMA StackHeld ==
  ASSUME Shape, rpc \notin {"recv", "outcome", "final", "gone"}
  PROVE  stack # <<>> /\ Len(stack) \in 1 .. 2 /\ \A i \in 1 .. Len(stack) : stack[i] \in Targets
<1>1. PICK m \in Targets : stack = <<m>> \/ stack = <<Root, m>>
  BY InputAssumption DEF Shape, ReaderShape, StackShape
<1>2. CASE stack = <<m>>
  BY <1>2
<1>3. CASE stack = <<Root, m>>
  BY <1>3, InputAssumption
<1> QED
  BY <1>1, <1>2, <1>3

\* The target being read is the last on the stack.
LEMMA StackCurrent ==
  ASSUME Shape, rpc \in {"open", "take", "send", "eof", "push"}
  PROVE  stack # <<>> /\ cur \in Targets
<1>1. PICK m \in Targets : stack = <<m>> \/ stack = <<Root, m>>
  BY InputAssumption DEF Shape, ReaderShape, StackShape
<1>2. cur = m
  <2>1. CASE stack = <<m>>
    BY <2>1 DEF cur
  <2>2. CASE stack = <<Root, m>>
    BY <2>2 DEF cur
  <2> QED
    BY <1>1, <2>1, <2>2
<1> QED
  BY <1>1, <1>2

\* What reading adds to the zip queue is followed by the EOF of the target
\* on the reader's stack.
LEMMA ReaderKeepsEOFFacts ==
  ASSUME Shape, EOFFacts, Reader
  PROVE  EOFFacts'
<1> USE CapacityAssumption
<1>1. /\ GEnds' = GEnds /\ WEnds' = WEnds /\ ZOwes' = ZOwes /\ GOwes' = GOwes
      /\ UNCHANGED <<zHand, zSlot, gSlot>>
  BY DEF Reader, ReceiveTarget, OpenTarget, ReadBlock, SendBlock, DrainDone, SendBarrier, AwaitAck,
     CheckQuiet, FileFrontier, BankTarget, PushEOF, ReportRoot, SendFinal, ReaderExit, AfterBlock,
     GEnds, WEnds, ZOwes, GOwes, queueVars, readerVars, zipVars, gzipVars, signalVars
<1>2. /\ Unread \in Nat /\ ZEnds \in Nat /\ GEnds \in Nat /\ WEnds \in Nat /\ ZOwes \in Nat /\ GOwes \in Nat
      /\ zipQ \in ItemQueue /\ Len(scanTargets) \in Nat /\ Len(stack) \in Nat /\ stack \in Seq(Targets)
      /\ scanTargets \in Seq(Targets)
  BY CountTypes DEF Shape, TypeOK, ReaderTypes, QueueTypes
<1> DEFINE a == Len(scanTargets)
           b == Len(stack)
           z == One(zSlot # {})
           g == One(gSlot # {})
<1>3. /\ z \in Nat /\ g \in Nat /\ z' = z /\ g' = g
      /\ Unread = a + b + z + g /\ Unread' = a' + b' + z' + g'
  BY <1>1 DEF One, Unread
<1>4. Unread + ZEnds + GEnds + WEnds = 1 + ZOwes + GOwes
  BY DEF EOFFacts, Balance
<1>5. ASSUME Unread >= 1, Unread' + ZEnds' = Unread + ZEnds, ZipFollowed'
      PROVE  EOFFacts'
  <2>1. ~UpstreamDone
    BY <1>5 DEF UpstreamDone
  <2>2. GzipFollowed' /\ WalletFollowed'
    BY <1>1, <2>1, FedUpstreamStep DEF EOFFacts
  <2>3. Unread' + ZEnds' + GEnds' + WEnds' = 1 + ZOwes' + GOwes'
    BY <1>1, <1>2, <1>4, <1>5
  <2> QED
    BY <1>5, <2>2, <2>3 DEF EOFFacts, Balance
<1>6. ASSUME stack # <<>>
      PROVE  b >= 1 /\ Unread >= 1
  <2>1. b >= 1
    BY <1>2, <1>6, EmptySeq
  <2> HIDE DEF a, b, z, g
  <2> QED
    BY <1>2, <1>3, <2>1 DEF a, b
<1>7. CASE ReceiveTarget
  <2>1. a >= 1 /\ a' = a - 1
    BY <1>2, <1>7, EmptySeq, HeadTailProperties DEF ReceiveTarget
  <2>2. b' = b + 1
    <3>1. Head(scanTargets) \in Targets
      BY <1>2, <1>7, HeadTailProperties DEF ReceiveTarget
    <3> QED
      BY <1>2, <1>7, <3>1, AppendProperties DEF ReceiveTarget
  <2>3. ZEnds' = ZEnds
    BY <1>1, <1>7 DEF ReceiveTarget, ZEnds
  <2>4. a \in Nat /\ b \in Nat
    BY <1>2
  <2>5. ZipFollowed'
    BY <2>2, <2>4 DEF ZipFollowed
  <2> HIDE DEF a, b, z, g
  <2>6. Unread >= 1 /\ Unread' = Unread
    BY <1>3, <2>1, <2>2, <2>4
  <2> QED
    BY <1>5, <2>3, <2>5, <2>6
<1>8. CASE SendBlock \/ SendBarrier
  <2>1. PICK x \in Item : zipQ' = Append(zipQ, x) /\ x.kind # "eof"
    <3>1. SendBlock => cur \in Targets /\ pos[cur] \in Nat
      BY StackCurrent DEF SendBlock, Shape, TypeOK, ReaderTypes
    <3> QED
      BY <1>8, <3>1, ItemKinds DEF SendBlock, SendBarrier
  <2>2. stack # <<>> /\ stack' = stack /\ scanTargets' = scanTargets
    BY <1>8, StackHeld DEF SendBlock, SendBarrier
  <2>3. ZEnds' = ZEnds
    <3>1. NEnds(zipQ') = NEnds(zipQ)
      BY <1>2, <2>1, EndsAppend, EndsFinite DEF One
    <3> QED
      BY <1>1, <3>1 DEF ZEnds
  <2>4. ZipFollowed'
    BY <1>6, <2>2 DEF ZipFollowed
  <2>5. Unread' = Unread
    BY <1>1, <2>2 DEF Unread
  <2> QED
    BY <1>5, <1>6, <2>2, <2>3, <2>4, <2>5
<1>9. CASE PushEOF
  <2>1. zipQ' = Append(zipQ, EOF) /\ scanTargets' = scanTargets
    BY <1>9 DEF PushEOF
  <2>2. stack # <<>> /\ b' = b - 1
    <3>1. stack # <<>> /\ b \in 1 .. 2 /\ \A i \in 1 .. b : stack[i] \in Targets
      BY <1>9, StackHeld DEF PushEOF
    <3>2. stack' = SubSeq(stack, 1, b - 1)
      BY <1>9 DEF PushEOF
    <3>3. b = 1 \/ b = 2
      BY <3>1
    <3>4. CASE b = 1
      BY <3>1, <3>2, <3>4
    <3>5. CASE b = 2
      <4>1. stack' = <<stack[1]>>
        BY <1>2, <3>2, <3>5, FrontOfTwo
      <4> QED
        BY <3>1, <3>5, <4>1
    <3> QED
      BY <3>1, <3>3, <3>4, <3>5
  <2>3. NEnds(zipQ') = NEnds(zipQ) + 1 /\ NEnds(zipQ) \in Nat /\ EndsWithEOF(zipQ')
    BY <1>2, <2>1, ItemKinds, EndsAppend, EndsFinite, EOFAppended DEF One
  <2>4. ZEnds' = ZEnds + 1
    BY <1>1, <2>3 DEF ZEnds, One
  <2>5. ZipFollowed'
    BY <2>3 DEF ZipFollowed
  <2>6. a' = a /\ a \in Nat /\ b \in Nat
    BY <1>2, <2>1
  <2>7. b >= 1 /\ Unread >= 1
    BY <1>6, <2>2
  <2> HIDE DEF a, b, z, g
  <2>8. Unread' = Unread - 1
    BY <1>3, <2>2, <2>6
  <2> QED
    BY <1>2, <1>5, <2>4, <2>5, <2>7, <2>8
<1>10. CASE ~(ReceiveTarget \/ SendBlock \/ SendBarrier \/ PushEOF)
  BY <1>10, SameEOFs DEF Reader, OpenTarget, ReadBlock, DrainDone, AwaitAck, CheckQuiet, FileFrontier,
     BankTarget, ReportRoot, SendFinal, ReaderExit, AfterBlock, eofVars,
     queueVars, readerVars, zipVars, gzipVars, signalVars
<1> QED
  BY <1>7, <1>8, <1>9, <1>10

\* The zip stage owes the EOFs it swallows; one that it sends on is owed by
\* the gzip stage, or the last of the scan.
LEMMA ZipKeepsEOFFacts ==
  ASSUME Shape, EOFFacts, Zip
  PROVE  EOFFacts'
<1>1. /\ Unread \in Nat /\ ZEnds \in Nat /\ GEnds \in Nat /\ WEnds \in Nat /\ ZOwes \in Nat /\ GOwes \in Nat
      /\ zipQ \in ItemQueue /\ gzipQ \in ItemQueue /\ Len(scanTargets) \in Nat /\ Len(stack) \in Nat
      /\ scanTargets \in Seq(Targets) /\ openedZ \in Nat /\ zNew \in Nat
      /\ zHand \in Item \cup {Nothing}
  BY CountTypes DEF Shape, TypeOK, ZipTypes, QueueTypes
<1>12. Unread \in Nat /\ ZEnds \in Nat /\ GEnds \in Nat /\ WEnds \in Nat /\ ZOwes \in Nat /\ GOwes \in Nat
  BY CountTypes
<1>2. Unread + ZEnds + GEnds + WEnds = 1 + ZOwes + GOwes
  BY DEF EOFFacts, Balance
<1>3. ASSUME ~UpstreamDone, UNCHANGED <<GEnds, GOwes, WEnds>>, Unread' + ZEnds' + ZOwes = Unread + ZEnds + ZOwes',
             Unread' \in Nat, ZEnds' \in Nat, ZOwes' \in Nat, ZipFollowed'
      PROVE  EOFFacts'
  <2>1. GzipFollowed' /\ WalletFollowed'
    BY <1>3, FedUpstreamStep DEF EOFFacts
  <2>2. Unread' + ZEnds' + GEnds' + WEnds' = 1 + ZOwes' + GOwes'
    <3>1. GEnds' = GEnds /\ GOwes' = GOwes /\ WEnds' = WEnds
      BY <1>3
    <3> QED
      BY <1>2, <1>3, <1>12, <3>1
  <2> QED
    BY <1>3, <2>1, <2>2 DEF EOFFacts, Balance
<1>4. zpc \in {"publish", "send"} => ~UpstreamDone /\ zHand.kind # "none" /\ zHand \in Item
  BY <1>1, ItemKinds DEF Shape, StageShape, UpstreamDone
<1>5. ASSUME UNCHANGED <<gzipQ, gHand, openedG, gNew, walletQ, signaled>>
      PROVE  UNCHANGED <<GEnds, GOwes, WEnds>>
  BY <1>5 DEF GEnds, GOwes, WEnds
<1>6. CASE ZipReceive
  <2> DEFINE item == Head(zipQ)
             q == Tail(zipQ)
  <2>1. /\ zipQ # <<>> /\ zHand = Nothing /\ item \in Item /\ q \in ItemQueue
        /\ zHand' = item /\ zipQ' = q
    BY <1>1, <1>6, HeadTailProperties DEF ZipReceive, Shape, StageShape, ItemQueue
  <2>2. UNCHANGED <<scanTargets, stack, zSlot, gSlot, openedZ, zNew, gzipQ, gHand, openedG, gNew, walletQ, signaled>>
    BY <1>6 DEF ZipReceive, readerVars, gzipVars, signalVars
  <2>3. ZEnds' = ZEnds
    <3>1. NEnds(zipQ) = NEnds(q) + One(item.kind = "eof") /\ NEnds(q) \in Nat
      BY <1>1, <2>1, EndsTail, EndsFinite
    <3>2. ZEnds = NEnds(zipQ) /\ ZEnds' = NEnds(q) + One(item.kind = "eof")
      <4>1. One(zHand.kind = "eof") = 0
        BY <2>1, ItemKinds DEF One
      <4>2. NEnds(zipQ) \in Nat
        BY <1>1, EndsFinite
      <4> QED
        BY <2>1, <4>1, <4>2 DEF ZEnds
    <3> QED
      BY <3>1, <3>2
  <2>4. Unread' = Unread /\ ZOwes' = ZOwes
    BY <2>2 DEF Unread, ZOwes
  <2>5. Len(stack) >= 1 \/ EndsWithEOF(zipQ)
    BY <2>1 DEF EOFFacts, ZipFollowed
  <2>6. q # <<>> => Len(stack) >= 1 \/ EndsWithEOF(q)
    BY <1>1, <2>1, <2>5, EOFLast
  <2>7. item.kind \in {"block", "barrier"} => Len(stack) >= 1 \/ NEnds(q) >= 1
    BY <1>1, <2>1, <2>5, EOFLast, EndsLast
  <2>8. ZipFollowed'
    <3> HIDE DEF item, q
    <3> QED
      BY <2>1, <2>2, <2>6, <2>7 DEF ZipFollowed
  <2>9. ~UpstreamDone
    BY <2>1 DEF UpstreamDone
  <2> QED
    BY <1>1, <1>3, <1>5, <2>2, <2>3, <2>4, <2>8, <2>9
<1>7. ASSUME NEW m \in Nested, ZipOffer(m)
      PROVE  EOFFacts'
  <2>1. /\ zpc = "publish"
        /\ UNCHANGED <<scanTargets, stack, gSlot, zipQ, zHand, openedZ, gzipQ, gHand, openedG, gNew, walletQ, signaled>>
    BY <1>7 DEF ZipOffer, queueVars, readerVars, gzipVars, signalVars
  <2>2. ZEnds' = ZEnds /\ ZipFollowed'
    BY <2>1 DEF EOFFacts, ZEnds, ZipFollowed
  <2>3. Unread' \in Nat /\ ZOwes' \in Nat /\ Unread' + ZOwes = Unread + ZOwes'
    <3>1. CASE UNCHANGED <<zSlot, zNew>>
      <4>1. Unread' = Unread /\ ZOwes' = ZOwes
        BY <2>1, <3>1 DEF Unread, ZOwes
      <4> QED
        BY <1>1, <4>1
    <3>2. CASE zSlot = {} /\ zSlot' = {m} /\ zNew' = zNew + 1
      <4>1. Unread' = Unread + 1
        BY <1>1, <2>1, <3>2 DEF Unread, One
      <4>2. ZOwes' = ZOwes + 1
        BY <1>1, <2>1, <3>2 DEF ZOwes
      <4> QED
        BY <1>1, <4>1, <4>2
    <3> QED
      BY <1>7, <3>1, <3>2 DEF ZipOffer
  <2>4. Unread' + ZEnds' + ZOwes = Unread + ZEnds + ZOwes'
    BY <1>12, <2>2, <2>3
  <2> QED
    BY <1>1, <1>3, <1>4, <1>5, <2>1, <2>2, <2>3, <2>4
<1>8. CASE ZipPublish
  <2>1. PICK m \in Nested : scanTargets' = Append(scanTargets, m)
    BY <1>8 DEF ZipPublish, Shape, TypeOK, ZipTypes
  <2>2. Len(scanTargets') = Len(scanTargets) + 1
    BY <1>1, <2>1, AppendProperties
  <2>3. /\ zpc = "publish" /\ zSlot # {} /\ zSlot' = {}
        /\ UNCHANGED <<stack, gSlot, zipQ, zHand, openedZ, zNew, gzipQ, gHand, openedG, gNew, walletQ, signaled>>
    BY <1>8 DEF ZipPublish, readerVars, gzipVars, signalVars
  <2>4. ZEnds' = ZEnds /\ ZipFollowed' /\ ZOwes' = ZOwes
    BY <2>3 DEF EOFFacts, ZEnds, ZipFollowed, ZOwes
  <2>5. Unread' = Unread
    BY <1>1, <2>2, <2>3 DEF Unread, One
  <2> QED
    BY <1>1, <1>3, <1>4, <1>5, <2>3, <2>4, <2>5
<1>9. CASE ZipSettle
  <2>1. /\ zpc = "publish" /\ zNew' = 0
        /\ openedZ' = openedZ + zNew - (IF zSwallow THEN 1 ELSE 0)
        /\ zHand' = IF zSwallow THEN Nothing ELSE zHand
    BY <1>9 DEF ZipSettle
  <2>2. UNCHANGED <<scanTargets, stack, zSlot, gSlot, zipQ, gzipQ, gHand, openedG, gNew, walletQ, signaled>>
    BY <1>9 DEF ZipSettle, queueVars, readerVars, gzipVars, signalVars
  <2>3. Unread' = Unread
    BY <2>2 DEF Unread
  <2>4. ZipFollowed'
    BY <2>1, <2>2, ItemKinds DEF EOFFacts, ZipFollowed
  <2>5. NEnds(zipQ) \in Nat
    BY <1>1, EndsFinite
  <2>6. ZEnds' \in Nat /\ ZOwes' \in Nat /\ ZEnds' + ZOwes = ZEnds + ZOwes'
    <3>1. CASE zSwallow
      <4>1. zHand.kind = "eof" /\ openedZ + zNew > 0
        BY <3>1 DEF zSwallow, flushing
      <4>2. ZEnds = NEnds(zipQ) + 1 /\ ZEnds' = NEnds(zipQ)
        BY <2>1, <2>2, <2>5, <3>1, <4>1, ItemKinds DEF ZEnds, One
      <4>3. ZOwes = openedZ + zNew /\ ZOwes' = openedZ + zNew - 1
        BY <1>1, <2>1, <3>1 DEF ZOwes
      <4> QED
        BY <1>1, <2>5, <4>1, <4>2, <4>3
    <3>2. CASE ~zSwallow
      <4>1. ZEnds' = ZEnds
        BY <2>1, <2>2, <3>2 DEF ZEnds
      <4>2. ZOwes' = ZOwes
        BY <1>1, <2>1, <3>2 DEF ZOwes
      <4> QED
        BY <1>1, <4>1, <4>2
    <3> QED
      BY <3>1, <3>2
  <2>7. Unread' + ZEnds' + ZOwes = Unread + ZEnds + ZOwes'
    BY <1>12, <2>3, <2>6
  <2> QED
    BY <1>1, <1>3, <1>4, <1>5, <2>1, <2>2, <2>3, <2>4, <2>6, <2>7
<1>10. CASE ZipForward
  <2>1. /\ zpc = "send" /\ gzipQ' = Append(gzipQ, zHand) /\ zHand' = Nothing
        /\ UNCHANGED <<scanTargets, stack, zSlot, gSlot, zipQ, openedZ, zNew, gHand, openedG, gNew, walletQ, signaled>>
    BY <1>10 DEF ZipForward, readerVars, zipVars, gzipVars, signalVars
  <2>2. /\ Unread' = Unread /\ ZOwes' = ZOwes /\ GOwes' = GOwes /\ WEnds' = WEnds
    BY <2>1 DEF Unread, ZOwes, GOwes, WEnds
  <2>3. ZipFollowed'
    BY <2>1, ItemKinds DEF EOFFacts, ZipFollowed
  <2>4. NEnds(zipQ) \in Nat /\ NEnds(gzipQ) \in Nat /\ NEnds(gzipQ') = NEnds(gzipQ) + One(zHand.kind = "eof")
    BY <1>1, <1>4, <2>1, EndsFinite, EndsAppend
  <2>5. ZEnds' = NEnds(zipQ)
    BY <2>1, <2>4, ItemKinds DEF ZEnds, One
  <2>6. CASE zHand.kind # "eof"
    <3>1. ZEnds' = ZEnds
      BY <2>4, <2>5, <2>6 DEF ZEnds, One
    <3>2. GEnds' = GEnds
      BY <2>1, <2>4, <2>6 DEF GEnds, One
    <3> QED
      BY <1>1, <1>3, <1>4, <2>1, <2>2, <2>3, <3>1, <3>2
  <2>7. CASE zHand.kind = "eof"
    <3>1. ZOwes = 0
      BY <2>1, <2>7 DEF Shape, StageShape, ZOwes
    <3>2. ZEnds = NEnds(zipQ) + 1
      BY <2>7 DEF ZEnds, One
    <3>3. GEnds' = GEnds + 1
      BY <2>1, <2>4, <2>7 DEF GEnds, One
    <3>4. WEnds = 0
      BY <1>1, <1>4, <2>1, FedUpstream DEF EOFFacts
    <3>5. Balance'
      <4>1. Unread' + ZEnds' + GEnds' + WEnds' = 1 + ZOwes' + GOwes'
        <5> DEFINE n == NEnds(zipQ)
        <5>1. n \in Nat /\ ZEnds = n + 1 /\ ZEnds' = n
          BY <2>4, <2>5, <3>2
        <5> HIDE DEF n
        <5>2. Unread + n + (GEnds + 1) + WEnds = 1 + ZOwes + GOwes
          BY <1>2, <1>12, <5>1
        <5> QED
          BY <2>2, <3>3, <5>1, <5>2
      <4> QED
        BY <4>1 DEF Balance
    <3>6. WalletFollowed'
      BY <2>2, <3>4 DEF WalletFollowed
    <3>7. Unread + NEnds(zipQ) + GEnds' = GOwes' + 1
      BY <1>1, <1>2, <2>2, <2>4, <3>1, <3>2, <3>3, <3>4
    <3>8. GzipFollowed'
      <4>1. CASE Unread + NEnds(zipQ) >= 1
        <5>1. GEnds' <= GOwes'
          BY <1>1, <2>2, <2>4, <3>3, <3>7, <4>1
        <5> QED
          BY <5>1 DEF GzipFollowed
      <4>2. CASE Unread = 0 /\ NEnds(zipQ) = 0
        <5>1. GEnds' = GOwes' + 1
          BY <1>1, <2>2, <3>3, <3>7, <4>2
        <5>2. Len(stack) = 0
          BY <1>1, <4>2 DEF Unread, One
        <5>3. zipQ = <<>>
          BY <1>1, <4>2, <5>2, EndsLast DEF EOFFacts, ZipFollowed
        <5>4. UpstreamDone'
          BY <2>1, <2>2, <3>1, <4>2, <5>3 DEF UpstreamDone
        <5>5. gzipQ' # <<>> /\ EndsWithEOF(gzipQ')
          BY <1>1, <1>4, <2>1, <2>7, EOFAppended
        <5>6. EndsWithEOF(gzipQ)'
          BY <5>5 DEF EndsWithEOF
        <5> QED
          BY <5>1, <5>4, <5>5, <5>6 DEF GzipFollowed
      <4> QED
        BY <1>1, <2>4, <4>1, <4>2
    <3> QED
      BY <2>3, <3>5, <3>6, <3>8 DEF EOFFacts
  <2> QED
    BY <2>6, <2>7
<1>11. CASE ZipExit
  BY <1>11, SameEOFs DEF ZipExit, eofVars, queueVars, readerVars, gzipVars, signalVars
<1> QED
  BY <1>6, <1>7, <1>8, <1>9, <1>10, <1>11 DEF Zip

\* The gzip stage: the EOF that it sends on is the last, and closes its queue.
LEMMA GzipKeepsEOFFacts ==
  ASSUME Shape, EOFFacts, Gzip
  PROVE  EOFFacts'
<1>1. /\ gzipQ \in ItemQueue /\ walletQ \in ItemQueue /\ Len(scanTargets) \in Nat /\ Len(stack) \in Nat
      /\ scanTargets \in Seq(Targets) /\ openedG \in Nat /\ gNew \in Nat
      /\ gHand \in Item \cup {Nothing}
  BY CountTypes DEF Shape, TypeOK, GzipTypes, QueueTypes
<1>2. Unread \in Nat /\ ZEnds \in Nat /\ GEnds \in Nat /\ WEnds \in Nat /\ ZOwes \in Nat /\ GOwes \in Nat
  BY CountTypes
<1>3. Unread + ZEnds + GEnds + WEnds = 1 + ZOwes + GOwes
  BY DEF EOFFacts, Balance
<1>4. gpc \in {"publish", "send"} => WEnds = 0 /\ gHand.kind # "none" /\ gHand \in Item
  <2> SUFFICES ASSUME gpc \in {"publish", "send"} PROVE WEnds = 0 /\ gHand.kind # "none" /\ gHand \in Item
    OBVIOUS
  <2>1. gHand.kind # "none" /\ gHand \in Item
    BY <1>1, ItemKinds DEF Shape, StageShape
  <2>2. ~(WEnds >= 1)
    BY <2>1, ItemKinds DEF EOFFacts, WalletFollowed
  <2> QED
    BY <1>2, <2>1, <2>2
<1>5. GEnds <= GOwes + 1
  BY <1>2 DEF EOFFacts, GzipFollowed
<1>6. NEnds(gzipQ) \in Nat /\ NEnds(walletQ) \in Nat
  BY <1>1, EndsFinite
<1>7. ASSUME UNCHANGED <<stack, zipQ, zHand, openedZ, zNew>>
      PROVE  ZEnds' = ZEnds /\ ZOwes' = ZOwes /\ ZipFollowed'
  BY <1>7 DEF EOFFacts, ZEnds, ZOwes, ZipFollowed
<1>8. CASE GzipReceive
  <2> DEFINE item == Head(gzipQ)
             q == Tail(gzipQ)
  <2>1. /\ gzipQ # <<>> /\ gHand = Nothing /\ item \in Item /\ q \in ItemQueue
        /\ gHand' = item /\ gzipQ' = q
    BY <1>1, <1>8, HeadTailProperties DEF GzipReceive, Shape, StageShape, ItemQueue
  <2>2. UNCHANGED <<scanTargets, stack, zSlot, gSlot, zipQ, zHand, openedZ, zNew, openedG, gNew, walletQ, signaled>>
    BY <1>8 DEF GzipReceive, readerVars, zipVars, signalVars
  <2>3. GEnds' = GEnds
    <3>1. NEnds(gzipQ) = NEnds(q) + One(item.kind = "eof") /\ NEnds(q) \in Nat
      BY <1>1, <2>1, EndsTail, EndsFinite
    <3>2. GEnds = NEnds(gzipQ) /\ GEnds' = NEnds(q) + One(item.kind = "eof")
      <4>1. One(gHand.kind = "eof") = 0
        BY <2>1, ItemKinds DEF One
      <4> QED
        BY <1>6, <2>1, <4>1 DEF GEnds
    <3> QED
      BY <3>1, <3>2
  <2>4. Unread' = Unread /\ GOwes' = GOwes /\ WEnds' = WEnds
    BY <2>2 DEF Unread, GOwes, WEnds
  <2>5. ~(WEnds >= 1)
    BY <2>1 DEF EOFFacts, WalletFollowed
  <2>6. WalletFollowed'
    BY <2>4, <2>5 DEF WalletFollowed
  <2>7. UpstreamDone' = UpstreamDone
    BY <1>7, <2>2, <2>4 DEF UpstreamDone
  <2>8. EndsWithEOF(gzipQ) => IF q = <<>> THEN item.kind = "eof" ELSE EndsWithEOF(q)
    BY <1>1, <2>1, EOFLast
  <2>9. GzipFollowed'
    <3>1. EndsWithEOF(gzipQ)' <=> EndsWithEOF(q)
      BY <2>1 DEF EndsWithEOF
    <3> HIDE DEF item, q
    <3> QED
      BY <2>1, <2>3, <2>4, <2>7, <2>8, <3>1 DEF EOFFacts, GzipFollowed
  <2>10. Balance'
    BY <1>3, <1>7, <2>2, <2>3, <2>4 DEF Balance
  <2> QED
    BY <1>7, <2>2, <2>6, <2>9, <2>10 DEF EOFFacts
<1>9. ASSUME NEW m \in Nested, GzipOffer(m)
      PROVE  EOFFacts'
  <2>1. /\ gpc = "publish"
        /\ UNCHANGED <<scanTargets, stack, zSlot, zipQ, zHand, openedZ, zNew, gzipQ, gHand, openedG, walletQ, signaled>>
    BY <1>9 DEF GzipOffer, queueVars, readerVars, zipVars, signalVars
  <2>2. CASE UNCHANGED <<gSlot, gNew>>
    BY <2>1, <2>2, SameEOFs DEF eofVars
  <2>3. CASE gSlot = {} /\ gSlot' = {m} /\ gNew' = gNew + 1
    <3>1. Unread' = Unread + 1
      BY <1>1, <2>1, <2>3 DEF Unread, One
    <3>2. GOwes' = GOwes + 1
      BY <1>1, <2>1, <2>3 DEF GOwes
    <3>3. GEnds' = GEnds /\ WEnds' = WEnds
      BY <2>1 DEF GEnds, WEnds
    <3>4. GzipFollowed'
      <4>1. GEnds' <= GOwes'
        BY <1>5, <3>2, <3>3
      <4> QED
        BY <4>1 DEF GzipFollowed
    <3>5. WalletFollowed'
      BY <1>4, <2>1, <3>3 DEF WalletFollowed
    <3>6. Balance'
      <4>1. (Unread + 1) + ZEnds + GEnds + WEnds = 1 + ZOwes + (GOwes + 1)
        BY <1>2, <1>3
      <4> QED
        BY <1>7, <2>1, <3>1, <3>2, <3>3, <4>1 DEF Balance
    <3> QED
      BY <1>7, <2>1, <3>4, <3>5, <3>6 DEF EOFFacts
  <2> QED
    BY <1>9, <2>2, <2>3 DEF GzipOffer
<1>10. CASE GzipPublish
  <2>1. PICK m \in Nested : scanTargets' = Append(scanTargets, m)
    BY <1>10 DEF GzipPublish, Shape, TypeOK, GzipTypes
  <2>2. Len(scanTargets') = Len(scanTargets) + 1
    BY <1>1, <2>1, AppendProperties
  <2>3. /\ gSlot # {} /\ gSlot' = {}
        /\ UNCHANGED <<stack, zSlot, zipQ, zHand, openedZ, zNew, gzipQ, gHand, openedG, gNew, walletQ, signaled>>
    BY <1>10 DEF GzipPublish, readerVars, zipVars, signalVars
  <2>4. GEnds' = GEnds /\ GOwes' = GOwes /\ WEnds' = WEnds
    BY <2>3 DEF GEnds, GOwes, WEnds
  <2>5. Unread' = Unread /\ Unread >= 1
    BY <1>1, <2>2, <2>3 DEF Unread, One
  <2>6. GzipFollowed' /\ WalletFollowed'
    <3>1. ~UpstreamDone
      BY <2>5 DEF UpstreamDone
    <3> QED
      BY <2>4, <3>1, FedUpstreamStep DEF EOFFacts
  <2>7. Balance'
    BY <1>3, <1>7, <2>3, <2>4, <2>5 DEF Balance
  <2> QED
    BY <1>7, <2>3, <2>6, <2>7 DEF EOFFacts
<1>11. CASE GzipSettle
  <2>1. /\ gpc = "publish" /\ gNew' = 0
        /\ openedG' = openedG + gNew - (IF gSwallow THEN 1 ELSE 0)
        /\ gHand' = IF gSwallow THEN Nothing ELSE gHand
    BY <1>11 DEF GzipSettle
  <2>2. UNCHANGED <<scanTargets, stack, zSlot, gSlot, zipQ, zHand, openedZ, zNew, gzipQ, walletQ, signaled>>
    BY <1>11 DEF GzipSettle, queueVars, readerVars, zipVars, signalVars
  <2>3. Unread' = Unread /\ WEnds' = WEnds
    BY <2>2 DEF Unread, WEnds
  <2>4. WalletFollowed'
    BY <1>4, <2>1, <2>3 DEF WalletFollowed
  <2>5. UpstreamDone' = UpstreamDone
    BY <1>7, <2>2, <2>3 DEF UpstreamDone
  <2>6. CASE gSwallow
    <3>1. gHand.kind = "eof" /\ openedG + gNew > 0
      BY <2>6 DEF gSwallow
    <3> DEFINE n == NEnds(gzipQ)
    <3>2. GEnds = n + 1 /\ GEnds' = n /\ n \in Nat
      BY <1>6, <2>1, <2>2, <2>6, <3>1, ItemKinds DEF GEnds, One
    <3> DEFINE p == openedG + gNew - 1
    <3>3. GOwes = p + 1 /\ GOwes' = p /\ p \in Nat
      BY <1>1, <2>1, <2>6, <3>1 DEF GOwes
    <3>4. gzipQ = <<>> => n = 0
      BY EndsEmpty
    <3> HIDE DEF n, p
    <3>5. GzipFollowed'
      <4> SUFFICES ASSUME GEnds' >= 1, ~(GEnds' <= GOwes')
                   PROVE  GEnds' = GOwes' + 1 /\ UpstreamDone' /\ gzipQ' # <<>> /\ EndsWithEOF(gzipQ)'
        BY DEF GzipFollowed
      <4>1. n >= 1 /\ ~(n <= p)
        BY <3>2, <3>3
      <4>2. GEnds >= 1 /\ ~(GEnds <= GOwes)
        BY <3>2, <3>3, <4>1
      <4>3. gzipQ # <<>>
        BY <3>4, <4>1
      <4>4. GEnds = GOwes + 1 /\ UpstreamDone /\ EndsWithEOF(gzipQ)
        BY <4>2, <4>3 DEF EOFFacts, GzipFollowed
      <4>5. GEnds' = GOwes' + 1
        BY <3>2, <3>3, <4>4
      <4> QED
        BY <2>2, <2>5, <4>3, <4>4, <4>5 DEF EndsWithEOF
    <3>6. Balance'
      <4>1. Unread + ZEnds + n + WEnds = 1 + ZOwes + p
        BY <1>2, <1>3, <3>2, <3>3
      <4> QED
        BY <1>7, <2>2, <2>3, <3>2, <3>3, <4>1 DEF Balance
    <3> QED
      BY <1>7, <2>2, <2>4, <3>5, <3>6 DEF EOFFacts
  <2>7. CASE ~gSwallow
    <3>1. gHand' = gHand /\ openedG' = openedG + gNew
      BY <1>1, <2>1, <2>7
    <3>2. GEnds' = GEnds /\ GOwes' = GOwes
      BY <1>1, <2>1, <2>2, <3>1 DEF GEnds, GOwes
    <3>3. GzipFollowed'
      BY <2>2, <2>5, <3>1, <3>2 DEF EOFFacts, GzipFollowed
    <3>4. Balance'
      BY <1>3, <1>7, <2>2, <2>3, <3>2 DEF Balance
    <3> QED
      BY <1>7, <2>2, <2>4, <3>3, <3>4 DEF EOFFacts
  <2> QED
    BY <2>6, <2>7
<1>12. CASE GzipForward
  <2>1. /\ gpc = "send" /\ walletQ' = Append(walletQ, gHand) /\ gHand' = Nothing
        /\ UNCHANGED <<scanTargets, stack, zSlot, gSlot, zipQ, zHand, openedZ, zNew, gzipQ, openedG, gNew, signaled>>
    BY <1>12 DEF GzipForward, readerVars, zipVars, gzipVars, signalVars
  <2>2. Unread' = Unread /\ GOwes' = GOwes
    BY <2>1 DEF Unread, GOwes
  <2>3. UpstreamDone' = UpstreamDone
    BY <1>7, <2>1, <2>2 DEF UpstreamDone
  <2>4. NEnds(walletQ') = NEnds(walletQ) + One(gHand.kind = "eof")
    BY <1>1, <1>4, <2>1, EndsAppend
  <2>5. GEnds' = NEnds(gzipQ)
    BY <1>6, <2>1, ItemKinds DEF GEnds, One
  <2>6. CASE gHand.kind # "eof"
    <3>1. GEnds' = GEnds /\ WEnds' = WEnds
      BY <1>6, <2>1, <2>4, <2>5, <2>6 DEF GEnds, WEnds, One
    <3>2. GzipFollowed'
      BY <2>1, <2>2, <2>3, <2>6, <3>1 DEF EOFFacts, GzipFollowed, EndsWithEOF
    <3>3. WalletFollowed'
      BY <1>4, <2>1, <3>1 DEF WalletFollowed
    <3>4. Balance'
      BY <1>3, <1>7, <2>1, <2>2, <3>1 DEF Balance
    <3> QED
      BY <1>7, <2>1, <3>2, <3>3, <3>4 DEF EOFFacts
  <2>7. CASE gHand.kind = "eof"
    <3>1. GOwes = 0
      BY <2>1, <2>7 DEF Shape, StageShape, GOwes
    <3>2. GEnds = NEnds(gzipQ) + 1
      BY <2>7 DEF GEnds, One
    <3>3. GEnds = 1 /\ UpstreamDone
      BY <1>2, <1>6, <3>1, <3>2 DEF EOFFacts, GzipFollowed
    <3>4. NEnds(gzipQ) = 0
      BY <1>6, <3>2, <3>3
    <3>5. gzipQ = <<>>
      BY <1>1, <3>1, <3>3, <3>4, EndsLast DEF EOFFacts, GzipFollowed
    <3>6. WEnds = 0
      BY <1>4, <2>1
    <3>7. NEnds(walletQ) = 0 /\ ~signaled
      BY <1>6, <3>6 DEF WEnds, One
    <3>8. WEnds' = 1
      BY <2>1, <2>4, <2>7, <3>7 DEF WEnds, One
    <3>9. EndsWithEOF(walletQ)'
      <4>1. EndsWithEOF(Append(walletQ, gHand))
        BY <1>1, <1>4, <2>1, <2>7, EOFAppended
      <4> QED
        BY <2>1, <4>1 DEF EndsWithEOF
    <3>10. WalletFollowed'
      BY <2>1, <2>2, <2>3, <3>1, <3>3, <3>5, <3>7, <3>8, <3>9 DEF WalletFollowed
    <3>11. GzipFollowed'
      BY <2>5, <3>4 DEF GzipFollowed
    <3>12. Balance'
      <4>1. Unread + ZEnds + 0 + 1 = 1 + ZOwes + 0
        BY <1>2, <1>3, <3>1, <3>3, <3>6
      <4> QED
        BY <1>7, <2>1, <2>2, <2>5, <3>1, <3>4, <3>8, <4>1 DEF Balance
    <3> QED
      BY <1>7, <2>1, <3>10, <3>11, <3>12 DEF EOFFacts
  <2> QED
    BY <2>6, <2>7
<1>13. CASE GzipExit
  BY <1>13, SameEOFs DEF GzipExit, eofVars, queueVars, readerVars, zipVars, signalVars
<1> QED
  BY <1>8, <1>9, <1>10, <1>11, <1>12, <1>13 DEF Gzip

\* The wallet stage receives the EOF with nothing behind it.
LEMMA WalletKeepsEOFFacts ==
  ASSUME Shape, EOFFacts, Wallet
  PROVE  EOFFacts'
<1>1. walletQ \in ItemQueue /\ NEnds(walletQ) \in Nat
  BY CountTypes, EndsFinite
<1>2. CASE WalletReceive
  <2> DEFINE item == Head(walletQ)
             q == Tail(walletQ)
  <2>1. walletQ # <<>> /\ item \in Item /\ q \in ItemQueue /\ walletQ' = q
    BY <1>1, <1>2, HeadTailProperties DEF WalletReceive, ItemQueue
  <2>2. UNCHANGED <<scanTargets, stack, zSlot, gSlot, zipQ, zHand, openedZ, zNew, gzipQ, gHand, openedG, gNew>>
    BY <1>2 DEF WalletReceive, readerVars, zipVars, gzipVars
  <2>3. NEnds(walletQ) = NEnds(q) + One(item.kind = "eof") /\ NEnds(q) \in Nat
    BY <1>1, <2>1, EndsTail, EndsFinite
  <2>4. /\ item.kind = "eof" => signaled' = TRUE
        /\ item.kind # "eof" => signaled' = signaled
    BY <1>2 DEF WalletReceive
  <2>5. ~signaled
    <3>1. signaled => WEnds >= 1
      BY <1>1 DEF WEnds, One
    <3> QED
      BY <2>1, <3>1 DEF EOFFacts, WalletFollowed
  <2>6. WEnds' = WEnds
    <3>1. WEnds = NEnds(walletQ)
      BY <1>1, <2>5 DEF WEnds, One
    <3>2. WEnds' = NEnds(q) + One(signaled')
      BY <2>1 DEF WEnds
    <3>3. One(signaled') = One(item.kind = "eof")
      BY <2>4, <2>5 DEF One
    <3> QED
      BY <2>3, <3>1, <3>2, <3>3
  <2>7. /\ Unread' = Unread /\ ZEnds' = ZEnds /\ GEnds' = GEnds /\ ZOwes' = ZOwes /\ GOwes' = GOwes
        /\ UpstreamDone' = UpstreamDone
    BY <2>2 DEF Unread, ZEnds, GEnds, ZOwes, GOwes, UpstreamDone
  <2>8. Balance' /\ ZipFollowed'
    BY <2>2, <2>6, <2>7 DEF EOFFacts, Balance, ZipFollowed
  <2>9. GzipFollowed'
    BY <2>2, <2>7 DEF EOFFacts, GzipFollowed, EndsWithEOF
  <2>10. WalletFollowed'
    <3> SUFFICES ASSUME WEnds >= 1
                 PROVE  IF signaled' THEN walletQ' = <<>> ELSE EndsWithEOF(walletQ)'
      BY <2>2, <2>6, <2>7 DEF EOFFacts, WalletFollowed
    <3>1. EndsWithEOF(walletQ) /\ WEnds = 1
      BY <2>5 DEF EOFFacts, WalletFollowed
    <3>2. NEnds(walletQ) = 1
      BY <1>1, <2>5, <3>1 DEF WEnds, One
    <3>3. CASE item.kind = "eof"
      <4>1. NEnds(q) = 0
        BY <2>3, <3>2, <3>3 DEF One
      <4>2. q = <<>>
        BY <1>1, <2>1, <3>1, <4>1, EOFLast, EndsLast
      <4> QED
        BY <2>1, <2>4, <3>3, <4>2
    <3>4. CASE item.kind # "eof"
      <4>1. EndsWithEOF(q)
        BY <1>1, <2>1, <3>1, <3>4, EOFLast
      <4>2. EndsWithEOF(walletQ)'
        BY <2>1, <4>1 DEF EndsWithEOF
      <4> QED
        BY <2>4, <2>5, <3>4, <4>2
    <3> QED
      BY <3>3, <3>4
  <2> QED
    BY <2>8, <2>9, <2>10 DEF EOFFacts
<1>3. CASE WalletReport \/ WalletExit
  BY <1>3, SameEOFs DEF WalletReport, WalletExit, eofVars, queueVars, readerVars, zipVars, gzipVars, signalVars
<1> QED
  BY <1>2, <1>3 DEF Wallet

LEMMA StepKeepsEOFFacts ==
  ASSUME Shape, EOFFacts, [Next]_vars
  PROVE  EOFFacts'
<1>1. CASE Main \/ Cancel \/ UNCHANGED vars
  <2>1. UNCHANGED eofVars
    BY <1>1 DEF Main, MainSignal, MainCancel, MainRoot, MainFail, MainComplete, Cancel, vars, eofVars,
       queueVars, readerVars, zipVars, gzipVars, signalVars
  <2> QED
    BY <2>1, SameEOFs
<1> QED
  BY <1>1, ReaderKeepsEOFFacts, ZipKeepsEOFFacts, GzipKeepsEOFFacts, WalletKeepsEOFFacts DEF Next, Returned

LEMMA EOFFactsSuffice == Shape /\ EOFFacts => FirstEOFIsLast
<1> SUFFICES ASSUME Shape, EOFFacts, signaled PROVE FirstEOFIsLast
  BY DEF FirstEOFIsLast
<1>1. WEnds >= 1
  <2>1. NEnds(walletQ) \in Nat
    BY CountTypes, EndsFinite
  <2> QED
    BY <2>1 DEF WEnds, One
<1>2. UpstreamDone /\ gzipQ = <<>> /\ gHand = Nothing /\ walletQ = <<>>
  BY <1>1 DEF EOFFacts, WalletFollowed
<1>3. Len(scanTargets) = 0 /\ Len(stack) = 0 /\ zSlot = {} /\ gSlot = {}
  BY <1>2, CountTypes DEF UpstreamDone, Unread, One
<1>4. scanTargets = <<>> /\ stack = <<>>
  BY <1>3, EmptySeq DEF Shape, TypeOK, QueueTypes, ReaderTypes
<1> QED
  BY <1>2, <1>3, <1>4 DEF UpstreamDone, FirstEOFIsLast

\* Whatever the input tree, the capacities and the interleaving, the EOF that
\* ends the scan reaches the wallet stage when every published target has been
\* read and nothing is left in a queue or in a stage's hand.
THEOREM FirstEOFLast == Spec => []FirstEOFIsLast
<1>1. Shape /\ EOFFacts => FirstEOFIsLast
  BY EOFFactsSuffice
<1>2. Init => Shape /\ EOFFacts
  BY InitStarts, InitShape, InitEOFFacts
<1>3. Shape /\ EOFFacts /\ [Next]_vars => (Shape /\ EOFFacts)'
  BY StepKeepsShape, StepKeepsEOFFacts
<1> QED
  BY <1>1, <1>2, <1>3, PTL DEF Spec
-----------------------------------------------------------------------------
(* Acknowledgements: the wallet stage leaves only after the last EOF or    *)
(* with the context, and a reader in a drain still owes the root's EOF.    *)

WalletLeaves == wpc = "gone" => signaled \/ ctxDone

LEMMA ContextStaysDone ==
  ASSUME ctxDone, [Next]_vars
  PROVE  ctxDone'
<1>1. outcome # "running" \/ canceled
  BY Zenon DEF ctxDone
<1>2. CASE Main
  BY <1>1, <1>2 DEF Main, MainSignal, MainCancel, MainRoot, MainFail, MainComplete, ctxDone
<1>3. CASE UNCHANGED mainVars
  BY <1>1, <1>3 DEF mainVars, ctxDone
<1>4. CASE Cancel
  BY <1>4, Zenon DEF Cancel, ctxDone
<1>5. Reader \/ Zip \/ Gzip \/ Wallet \/ UNCHANGED vars => UNCHANGED mainVars
  <2>1. Reader => UNCHANGED mainVars
    BY DEF Reader, ReceiveTarget, OpenTarget, ReadBlock, SendBlock, DrainDone, SendBarrier, AwaitAck,
       CheckQuiet, FileFrontier, BankTarget, PushEOF, ReportRoot, SendFinal, ReaderExit
  <2>2. Zip => UNCHANGED mainVars
    BY DEF Zip, ZipReceive, ZipOffer, ZipPublish, ZipSettle, ZipForward, ZipExit
  <2>3. Gzip => UNCHANGED mainVars
    BY DEF Gzip, GzipReceive, GzipOffer, GzipPublish, GzipSettle, GzipForward, GzipExit
  <2>4. Wallet \/ UNCHANGED vars => UNCHANGED mainVars
    BY DEF Wallet, WalletReceive, WalletReport, WalletExit, vars
  <2> QED
    BY <2>1, <2>2, <2>3, <2>4
<1> QED
  BY <1>2, <1>3, <1>4, <1>5 DEF Next, Returned

LEMMA StepKeepsWalletLeaves ==
  ASSUME WalletLeaves, [Next]_vars
  PROVE  WalletLeaves'
<1>1. CASE UNCHANGED <<wpc, signaled>>
  BY <1>1, ContextStaysDone, Zenon DEF WalletLeaves
<1>2. CASE WalletReceive
  <2>1. wpc' = "gone" => signaled'
    BY <1>2 DEF WalletReceive
  <2> QED
    BY <2>1, Zenon DEF WalletLeaves
<1>3. CASE WalletReport
  BY <1>3 DEF WalletReport, WalletLeaves
<1>4. CASE WalletExit
  <2>1. ctxDone
    BY <1>4 DEF WalletExit
  <2> QED
    BY <2>1, ContextStaysDone, Zenon DEF WalletLeaves
<1>5. Reader \/ Zip \/ Gzip \/ Main \/ Cancel \/ UNCHANGED vars => UNCHANGED <<wpc, signaled>>
  <2>1. Reader => UNCHANGED <<wpc, signaled>>
    BY DEF Reader, ReceiveTarget, OpenTarget, ReadBlock, SendBlock, DrainDone, SendBarrier, AwaitAck,
       CheckQuiet, FileFrontier, BankTarget, PushEOF, ReportRoot, SendFinal, ReaderExit,
       walletVars, signalVars
  <2>2. Zip => UNCHANGED <<wpc, signaled>>
    BY DEF Zip, ZipReceive, ZipOffer, ZipPublish, ZipSettle, ZipForward, ZipExit, walletVars, signalVars
  <2>3. Gzip => UNCHANGED <<wpc, signaled>>
    BY DEF Gzip, GzipReceive, GzipOffer, GzipPublish, GzipSettle, GzipForward, GzipExit, walletVars, signalVars
  <2>4. Main \/ Cancel \/ UNCHANGED vars => UNCHANGED <<wpc, signaled>>
    BY DEF Main, MainSignal, MainCancel, MainRoot, MainFail, MainComplete, Cancel, vars, walletVars, signalVars
  <2> QED
    BY <2>1, <2>2, <2>3, <2>4
<1> QED
  BY <1>1, <1>2, <1>3, <1>4, <1>5 DEF Next, Returned, Wallet

LEMMA InitWalletLeaves == AnyStart => WalletLeaves
BY DEF AnyStart, RunStarts, WalletLeaves

LEMMA LeavingSuffices ==
  ASSUME Shape, EOFFacts, WalletLeaves
  PROVE  AckNeverStrands
<1>1. FirstEOFIsLast
  BY EOFFactsSuffice
<1>2. rpc = "ack" => ~signaled
  BY <1>1, StackHeld DEF FirstEOFIsLast
<1> QED
  BY <1>2, Zenon DEF WalletLeaves, AckNeverStrands

\* A reader that waits for an acknowledgement is not left waiting by a wallet
\* stage that has gone: the stage leaves on the last EOF, which cannot have
\* come while the root is on the reader's stack, or with the context.
THEOREM AckIsForthcoming == Spec => []AckNeverStrands
<1>1. Shape /\ EOFFacts /\ WalletLeaves => AckNeverStrands
  BY LeavingSuffices
<1>2. Init => Shape /\ EOFFacts /\ WalletLeaves
  BY InitStarts, InitShape, InitEOFFacts, InitWalletLeaves
<1>3. Shape /\ EOFFacts /\ WalletLeaves /\ [Next]_vars => (Shape /\ EOFFacts /\ WalletLeaves)'
  BY StepKeepsShape, StepKeepsEOFFacts, StepKeepsWalletLeaves
<1> QED
  BY <1>1, <1>2, <1>3, PTL DEF Spec
-----------------------------------------------------------------------------
(* Blocks: each one is in the pool, a queue or a hand until the context    *)
(* ends, when the stages leave with what they hold.                        *)

LEMMA BlockCounts ==
  ASSUME Shape
  PROVE  /\ pool \in Nat /\ Loads(zipQ) \in Nat /\ Loads(gzipQ) \in Nat /\ Loads(walletQ) \in Nat
         /\ zipQ \in ItemQueue /\ gzipQ \in ItemQueue /\ walletQ \in ItemQueue
<1>1. pool \in Nat /\ zipQ \in ItemQueue /\ gzipQ \in ItemQueue /\ walletQ \in ItemQueue
  BY DEF Shape, TypeOK, QueueTypes
<1> QED
  BY <1>1, CountFinite DEF Loads

LEMMA LoadsAppend ==
  ASSUME NEW q \in ItemQueue, NEW x \in Item
  PROVE  Loads(Append(q, x)) = Loads(q) + One(x.kind = "block")
BY CountAppend DEF Loads

LEMMA LoadsTail ==
  ASSUME NEW q \in ItemQueue, q # <<>>
  PROVE  Loads(q) = Loads(Tail(q)) + One(Head(q).kind = "block") /\ Loads(Tail(q)) \in Nat
<1>1. Tail(q) \in ItemQueue
  BY HeadTailProperties, EmptySeq DEF ItemQueue
<1> QED
  BY <1>1, CountTail, CountFinite DEF Loads

\* The reader takes a block from the pool and hands it to the zip stage.
LEMMA ReaderKeepsBlocks ==
  ASSUME Shape, Reader, ~ctxDone
  PROVE  BlocksHeld' = BlocksHeld
<1> USE BlockCounts
<1>1. UNCHANGED <<zHand, gzipQ, gHand, walletQ, wpc>>
  BY DEF Reader, ReceiveTarget, OpenTarget, ReadBlock, SendBlock, DrainDone, SendBarrier, AwaitAck,
     CheckQuiet, FileFrontier, BankTarget, PushEOF, ReportRoot, SendFinal, ReaderExit,
     queueVars, zipVars, gzipVars, walletVars
<1>2. CASE UNCHANGED <<pool, zipQ>> /\ rpc # "send" /\ rpc' # "send"
  BY <1>1, <1>2 DEF BlocksHeld, One
<1>3. CASE ReadBlock
  BY <1>1, <1>3 DEF ReadBlock, BlocksHeld, One
<1>4. CASE SendBlock
  <2>1. Block(cur, pos[cur]) \in Item /\ Block(cur, pos[cur]).kind = "block"
    BY <1>4, StackCurrent, ItemKinds DEF SendBlock, Shape, TypeOK, ReaderTypes
  <2>2. Loads(zipQ') = Loads(zipQ) + 1
    BY <1>4, <2>1, LoadsAppend DEF SendBlock, One
  <2>3. rpc = "send" /\ rpc' # "send" /\ pool' = pool
    BY <1>4 DEF SendBlock, AfterBlock
  <2> QED
    BY <1>1, <2>2, <2>3 DEF BlocksHeld, One
<1>5. CASE SendBarrier \/ PushEOF
  <2>1. Loads(zipQ') = Loads(zipQ)
    <3>1. PICK x \in {EOF, Barrier} : zipQ' = Append(zipQ, x)
      BY <1>5 DEF SendBarrier, PushEOF
    <3>2. x \in Item /\ x.kind # "block"
      BY ItemKinds
    <3>3. Loads(zipQ') = Loads(zipQ) + One(x.kind = "block")
      BY <3>1, <3>2, LoadsAppend
    <3> QED
      BY <3>2, <3>3 DEF One
  <2>2. rpc # "send" /\ rpc' # "send" /\ pool' = pool
    BY <1>5 DEF SendBarrier, PushEOF
  <2> QED
    BY <1>1, <2>1, <2>2 DEF BlocksHeld, One
<1>6. ReceiveTarget \/ OpenTarget \/ DrainDone \/ AwaitAck \/ CheckQuiet \/ FileFrontier
        \/ BankTarget \/ ReportRoot \/ SendFinal
        => UNCHANGED <<pool, zipQ>> /\ rpc # "send" /\ rpc' # "send"
  BY DEF ReceiveTarget, OpenTarget, DrainDone, AwaitAck, CheckQuiet, FileFrontier, BankTarget,
     ReportRoot, SendFinal, AfterBlock, queueVars
<1>7. ~ReaderExit
  BY DEF ReaderExit
<1> QED
  BY <1>2, <1>3, <1>4, <1>5, <1>6, <1>7 DEF Reader

LEMMA ZipKeepsBlocks ==
  ASSUME Shape, Zip, ~ctxDone
  PROVE  BlocksHeld' = BlocksHeld
<1> USE BlockCounts
<1>1. UNCHANGED <<rpc, pool, gHand, walletQ, wpc>>
  BY DEF Zip, ZipReceive, ZipOffer, ZipPublish, ZipSettle, ZipForward, ZipExit,
     queueVars, readerVars, gzipVars, walletVars
<1>2. CASE ZipReceive
  <2>1. /\ zHand = Nothing /\ zHand' = Head(zipQ) /\ zipQ # <<>> /\ zipQ' = Tail(zipQ) /\ gzipQ' = gzipQ
    BY <1>2 DEF ZipReceive, Shape, StageShape
  <2>2. Loads(zipQ) = Loads(zipQ') + One(zHand'.kind = "block") /\ Loads(zipQ') \in Nat
    BY <2>1, LoadsTail
  <2>3. One(zHand.kind = "block") = 0 /\ One(zHand'.kind = "block") \in Nat
    BY <2>1, ItemKinds DEF One
  <2> QED
    BY <1>1, <2>1, <2>2, <2>3 DEF BlocksHeld
<1>3. CASE ZipForward
  <2>1. /\ zHand \in Item /\ zHand' = Nothing /\ gzipQ' = Append(gzipQ, zHand) /\ zipQ' = zipQ
    BY <1>3 DEF ZipForward, Shape, StageShape, TypeOK, ZipTypes, Nothing
  <2>2. Loads(gzipQ') = Loads(gzipQ) + One(zHand.kind = "block")
    BY <2>1, LoadsAppend
  <2>3. One(zHand.kind = "block") \in Nat /\ One(zHand'.kind = "block") = 0
    BY <2>1, ItemKinds DEF One
  <2> QED
    BY <1>1, <2>1, <2>2, <2>3 DEF BlocksHeld
<1>4. CASE ZipSettle
  <2>1. UNCHANGED <<zipQ, gzipQ>> /\ (zHand' = zHand \/ (zHand.kind = "eof" /\ zHand' = Nothing))
    BY <1>4 DEF ZipSettle, zSwallow, flushing, queueVars
  <2> QED
    BY <1>1, <2>1, ItemKinds DEF BlocksHeld, One
<1>5. CASE ZipPublish \/ \E m \in Nested : ZipOffer(m)
  <2>1. UNCHANGED <<zipQ, gzipQ, zHand>>
    BY <1>5 DEF ZipPublish, ZipOffer, queueVars
  <2> QED
    BY <1>1, <2>1 DEF BlocksHeld
<1>6. ~ZipExit
  BY DEF ZipExit
<1> QED
  BY <1>2, <1>3, <1>4, <1>5, <1>6 DEF Zip

LEMMA GzipKeepsBlocks ==
  ASSUME Shape, Gzip, ~ctxDone
  PROVE  BlocksHeld' = BlocksHeld
<1> USE BlockCounts
<1>1. UNCHANGED <<rpc, pool, zipQ, zHand, wpc>>
  BY DEF Gzip, GzipReceive, GzipOffer, GzipPublish, GzipSettle, GzipForward, GzipExit,
     queueVars, readerVars, zipVars, walletVars
<1>2. CASE GzipReceive
  <2>1. /\ gHand = Nothing /\ gHand' = Head(gzipQ) /\ gzipQ # <<>> /\ gzipQ' = Tail(gzipQ) /\ walletQ' = walletQ
    BY <1>2 DEF GzipReceive, Shape, StageShape
  <2>2. Loads(gzipQ) = Loads(gzipQ') + One(gHand'.kind = "block") /\ Loads(gzipQ') \in Nat
    BY <2>1, LoadsTail
  <2>3. One(gHand.kind = "block") = 0 /\ One(gHand'.kind = "block") \in Nat
    BY <2>1, ItemKinds DEF One
  <2> QED
    BY <1>1, <2>1, <2>2, <2>3 DEF BlocksHeld
<1>3. CASE GzipForward
  <2>1. /\ gHand \in Item /\ gHand' = Nothing /\ walletQ' = Append(walletQ, gHand) /\ gzipQ' = gzipQ
    BY <1>3 DEF GzipForward, Shape, StageShape, TypeOK, GzipTypes, Nothing
  <2>2. Loads(walletQ') = Loads(walletQ) + One(gHand.kind = "block")
    BY <2>1, LoadsAppend
  <2>3. One(gHand.kind = "block") \in Nat /\ One(gHand'.kind = "block") = 0
    BY <2>1, ItemKinds DEF One
  <2> QED
    BY <1>1, <2>1, <2>2, <2>3 DEF BlocksHeld
<1>4. CASE GzipSettle
  <2>1. UNCHANGED <<gzipQ, walletQ>> /\ (gHand' = gHand \/ (gHand.kind = "eof" /\ gHand' = Nothing))
    BY <1>4 DEF GzipSettle, gSwallow, queueVars
  <2> QED
    BY <1>1, <2>1, ItemKinds DEF BlocksHeld, One
<1>5. CASE GzipPublish \/ \E m \in Nested : GzipOffer(m)
  <2>1. UNCHANGED <<gzipQ, walletQ, gHand>>
    BY <1>5 DEF GzipPublish, GzipOffer, queueVars
  <2> QED
    BY <1>1, <2>1 DEF BlocksHeld
<1>6. ~GzipExit
  BY DEF GzipExit
<1> QED
  BY <1>2, <1>3, <1>4, <1>5, <1>6 DEF Gzip

\* The wallet stage gives back the block it has reported on.
LEMMA WalletKeepsBlocks ==
  ASSUME Shape, Wallet, ~ctxDone
  PROVE  BlocksHeld' = BlocksHeld
<1> USE BlockCounts
<1>1. UNCHANGED <<rpc, zipQ, zHand, gzipQ, gHand>>
  BY DEF Wallet, WalletReceive, WalletReport, WalletExit, queueVars, readerVars, zipVars, gzipVars
<1>2. CASE WalletReceive
  <2>1. Head(walletQ) \in Item /\ walletQ # <<>> /\ walletQ' = Tail(walletQ) /\ pool' = pool /\ wpc = "recv"
    BY <1>2, HeadTailProperties, EmptySeq DEF WalletReceive, Shape, TypeOK, QueueTypes, ItemQueue
  <2>2. wpc' = "report" <=> Head(walletQ).kind = "block"
    BY <1>2, <2>1, ItemKinds DEF WalletReceive
  <2>3. Loads(walletQ) = Loads(walletQ') + One(Head(walletQ).kind = "block") /\ Loads(walletQ') \in Nat
    BY <2>1, LoadsTail
  <2>4. One(wpc = "report") = 0 /\ One(wpc' = "report") = One(Head(walletQ).kind = "block")
    BY <2>1, <2>2, Zenon DEF One
  <2>5. One(Head(walletQ).kind = "block") \in Nat
    BY DEF One
  <2> QED
    BY <1>1, <2>1, <2>3, <2>4, <2>5 DEF BlocksHeld
<1>3. CASE WalletReport
  BY <1>1, <1>3 DEF WalletReport, BlocksHeld, One
<1>4. ~WalletExit
  BY DEF WalletExit
<1> QED
  BY <1>2, <1>3, <1>4 DEF Wallet

LEMMA StepKeepsBlocks ==
  ASSUME Shape, BlocksConserved, [Next]_vars
  PROVE  BlocksConserved'
<1> SUFFICES ASSUME ~ctxDone' PROVE BlocksHeld' = PoolSize
  BY DEF BlocksConserved
<1>1. ~ctxDone
  BY ContextStaysDone
<1>2. BlocksHeld = PoolSize
  BY <1>1 DEF BlocksConserved
<1>3. CASE Main \/ Cancel \/ UNCHANGED vars
  <2>1. UNCHANGED <<queueVars, rpc, zHand, gHand, wpc>>
    BY <1>3 DEF Main, MainSignal, MainCancel, MainRoot, MainFail, MainComplete, Cancel, vars,
       readerVars, zipVars, gzipVars, walletVars
  <2> QED
    BY <1>2, <2>1 DEF BlocksHeld, queueVars
<1> QED
  BY <1>1, <1>2, <1>3, ReaderKeepsBlocks, ZipKeepsBlocks, GzipKeepsBlocks, WalletKeepsBlocks
     DEF Next, Returned

LEMMA InitBlocks == AnyStart => BlocksConserved
<1> SUFFICES ASSUME AnyStart PROVE BlocksHeld = PoolSize
  BY DEF BlocksConserved
<1>1. Loads(zipQ) = 0 /\ Loads(gzipQ) = 0 /\ Loads(walletQ) = 0
  BY CountEmpty DEF AnyStart, RunStarts, Loads
<1> QED
  BY <1>1, ItemKinds, CapacityAssumption DEF AnyStart, RunStarts, BlocksHeld, One

\* Whatever the capacities, and whichever stage stalls, no block of the pool
\* is lost or handed to two stages while the scan runs: the early exits of
\* readTarget and the wallet stage give back what they took.
THEOREM BlocksReturn == Spec => []BlocksConserved
<1>1. Init => Shape /\ BlocksConserved
  BY InitStarts, InitShape, InitBlocks
<1>2. Shape /\ BlocksConserved /\ [Next]_vars => (Shape /\ BlocksConserved)'
  BY StepKeepsShape, StepKeepsBlocks
<1> QED
  BY <1>1, <1>2, PTL DEF Spec

-----------------------------------------------------------------------------
(* The inductive invariant: where a block, and a member it reveals, may be *)
(* on the way from the medium to the report.                               *)

In(x, q) == \E i \in 1 .. Len(q) : q[i] = x

\* Block n of t is still to be sent on by the reader, or its reader has left.
ToRead(t, n) ==
  \/ In(t, scanTargets) \/ t \in zSlot \cup gSlot
  \/ /\ In(t, stack)
     /\ \/ rpc = "gone"
        \/ t = cur /\ rpc = "open"
        \/ t = cur /\ rpc = "send" /\ n = pos[t]
        \/ n > pos[t] /\ (t # cur \/ rpc \notin {"eof", "push"})

BeforeZip(t, n)  == ToRead(t, n) \/ In(Block(t, n), zipQ)
BeforeGzip(t, n) == BeforeZip(t, n) \/ zHand = Block(t, n) \/ In(Block(t, n), gzipQ)
OnItsWay(t, n) ==
  \/ BeforeGzip(t, n) \/ gHand = Block(t, n)
  \/ In(Block(t, n), walletQ) \/ wHand = Block(t, n)

\* Every block due of a target taken on is reported or on its way.
Carried == \A t \in admitted : \A n \in DueBlocks(t) : <<t, n>> \in delivered \/ OnItsWay(t, n)

\* A member that is owed is taken on, refused, or has still to pass the
\* stage of its kind.
ToOffer(m) ==
  IF Kind[m] = "gzip" THEN m \in gTodo \/ BeforeGzip(Source[m], FoundAt[m])
  ELSE m \in zTodo \cup pending \/ BeforeZip(Source[m], FoundAt[m])
Offered ==
  \A m \in Nested : Source[m] \in admitted /\ Owed(m) => m \in admitted \cup refused \/ ToOffer(m)

\* Only what was taken on is read, banked by this run, or claims a range as
\* an entry.
Known ==
  /\ Root \in admitted /\ zSlot \cup gSlot \subseteq admitted
  /\ \A t \in Targets : In(t, stack) \/ In(t, scanTargets) => t \in admitted
  /\ covered \subseteq run.bank \cup admitted
  /\ \A r \in published : \E x \in Nested :
       r = Claim(x) /\ Kind[x] # "gzip" /\ (Kind[x] = "entry" => x \in admitted)

\* A stage has members to offer only while it publishes; candidates wait for
\* an EOF that is still to come.
StageEnds ==
  /\ zpc # "publish" => zTodo = {}
  /\ gpc # "publish" => gTodo = {}
  /\ wpc # "report" => wHand = Nothing
  /\ signaled => wpc = "gone"
  /\ \A m \in pending : Kind[m] = "entry"
  /\ flushing => \A m \in zTodo : Kind[m] = "entry"
  /\ pending # {} => Len(stack) >= 1 \/ NEnds(zipQ) >= 1

\* A read is never behind its start.
Past == \A t \in Targets : In(t, stack) /\ ~(t = cur /\ rpc = "open") => pos[t] >= ReadFrom(t)

\* The root is opened and has not broken off up to where its read is; when
\* the read is over, that is all of it.
Uncut(n) == \A i \in run.start + 1 .. n : i \notin Cut[Root]
RootRead == rootErr \/ (Root \notin Unopenable /\ pos[Root] = NBlocks[Root] /\ Uncut(pos[Root]))
RootInv ==
  /\ In(Root, stack) /\ ~(Root = cur /\ rpc = "open")
       => rootErr \/ (Root \notin Unopenable /\ Uncut(pos[Root]))
  /\ In(Root, stack) /\ Root = cur /\ rpc \in {"eof", "push"} => RootRead
  /\ rpc = "outcome" => RootRead
  /\ rootDone = "ok" => RootSound

\* Success is decided when nothing can change it any more.
Settled ==
  /\ mpc \in {"root", "fail", "final"} => signaled
  /\ mpc = "final" \/ outcome = "complete" => signaled /\ refused = {} /\ RootSound

CompletionInv == Carried /\ Offered /\ Known /\ StageEnds /\ Past /\ RootInv /\ Settled

-----------------------------------------------------------------------------
(* Membership in a queue.                                                  *)

LEMMA InAppend ==
  ASSUME NEW S, NEW q \in Seq(S), NEW x \in S, NEW y
  PROVE  In(y, Append(q, x)) <=> In(y, q) \/ y = x
<1> DEFINE p == Append(q, x)
<1>1. /\ Len(q) \in Nat /\ Len(p) = Len(q) + 1 /\ p[Len(q) + 1] = x
      /\ \A i \in 1 .. Len(q) : p[i] = q[i]
  BY AppendProperties
<1> HIDE DEF p
<1>2. In(y, p) <=> In(y, q) \/ y = x
  BY <1>1 DEF In
<1> QED
  BY <1>2 DEF p

LEMMA InTail ==
  ASSUME NEW S, NEW q \in Seq(S), q # <<>>, NEW y
  PROVE  In(y, q) <=> In(y, Tail(q)) \/ y = Head(q)
<1> DEFINE p == Tail(q)
<1>1. /\ Len(q) \in Nat /\ Len(q) >= 1 /\ Len(p) = Len(q) - 1 /\ Head(q) = q[1]
      /\ \A i \in 1 .. Len(p) : p[i] = q[i + 1]
  BY HeadTailProperties, EmptySeq
<1> HIDE DEF p
<1>2. ASSUME In(y, q) PROVE In(y, p) \/ y = Head(q)
  <2>1. PICK i \in 1 .. Len(q) : q[i] = y
    BY <1>2 DEF In
  <2>2. CASE i = 1
    BY <1>1, <2>1, <2>2
  <2>3. CASE i # 1
    <3>1. i - 1 \in 1 .. Len(p) /\ p[i - 1] = y
      BY <1>1, <2>1, <2>3
    <3> QED
      BY <3>1 DEF In
  <2> QED
    BY <2>2, <2>3
<1>3. ASSUME In(y, p) \/ y = Head(q) PROVE In(y, q)
  <2>1. CASE y = Head(q)
    <3>1. 1 \in 1 .. Len(q) /\ q[1] = y
      BY <1>1, <2>1
    <3> QED
      BY <3>1 DEF In
  <2>2. CASE In(y, p)
    <3>1. PICK i \in 1 .. Len(p) : p[i] = y
      BY <2>2 DEF In
    <3>2. i + 1 \in 1 .. Len(q) /\ q[i + 1] = y
      BY <1>1, <3>1
    <3> QED
      BY <3>2 DEF In
  <2> QED
    BY <1>3, <2>1, <2>2
<1> QED
  BY <1>2, <1>3 DEF p

LEMMA InNone == \A y : ~In(y, <<>>)
BY DEF In

LEMMA InOne == \A a, y : In(y, <<a>>) <=> y = a
<1> SUFFICES ASSUME NEW a, NEW y PROVE In(y, <<a>>) <=> y = a
  OBVIOUS
<1>1. Len(<<a>>) = 1 /\ <<a>>[1] = a
  OBVIOUS
<1> QED
  BY <1>1 DEF In

LEMMA InTwo == \A a, b, y : In(y, <<a, b>>) <=> y \in {a, b}
<1> SUFFICES ASSUME NEW a, NEW b, NEW y PROVE In(y, <<a, b>>) <=> y \in {a, b}
  OBVIOUS
<1>1. Len(<<a, b>>) = 2 /\ <<a, b>>[1] = a /\ <<a, b>>[2] = b
  OBVIOUS
<1>2. 1 \in 1 .. 2 /\ 2 \in 1 .. 2 /\ \A i \in 1 .. 2 : i = 1 \/ i = 2
  OBVIOUS
<1> QED
  BY <1>1, <1>2 DEF In

\* The reads under way: none, one, or the root's and that of a nested target.
LEMMA StackCases ==
  ASSUME Shape
  PROVE  \/ stack = <<>> /\ rpc \in {"recv", "outcome", "final", "gone"} /\ \A t : ~In(t, stack)
         \/ \E m \in Targets : /\ stack = <<m>> /\ cur = m /\ Len(stack) = 1
                               /\ rpc \notin {"recv", "outcome", "final"}
                               /\ m # Root => rpc \in {"open", "take", "send", "eof", "push", "gone"}
                               /\ \A t : In(t, stack) <=> t = m
         \/ \E m \in Nested : /\ stack = <<Root, m>> /\ cur = m /\ Len(stack) = 2
                              /\ rpc \in {"open", "take", "send", "eof", "push", "gone"}
                              /\ \A t : In(t, stack) <=> t \in {Root, m}
<1> USE InputAssumption
<1>1. CASE stack = <<>> /\ rpc \in {"recv", "outcome", "final", "gone"}
  BY <1>1, InNone
<1>2. ASSUME NEW m \in Targets, stack = <<m>>, rpc \notin {"recv", "outcome", "final"},
             m # Root => rpc \in {"open", "take", "send", "eof", "push", "gone"}
      PROVE  \E x \in Targets : /\ stack = <<x>> /\ cur = x /\ Len(stack) = 1
                                /\ rpc \notin {"recv", "outcome", "final"}
                                /\ x # Root => rpc \in {"open", "take", "send", "eof", "push", "gone"}
                                /\ \A t : In(t, stack) <=> t = x
  <2>1. cur = m /\ Len(stack) = 1
    BY <1>2 DEF cur
  <2> QED
    BY <1>2, <2>1, InOne
<1>3. ASSUME NEW m \in Nested, stack = <<Root, m>>,
             rpc \in {"open", "take", "send", "eof", "push", "gone"}
      PROVE  \E x \in Nested : /\ stack = <<Root, x>> /\ cur = x /\ Len(stack) = 2
                               /\ rpc \in {"open", "take", "send", "eof", "push", "gone"}
                               /\ \A t : In(t, stack) <=> t \in {Root, x}
  <2>1. cur = m /\ Len(stack) = 2
    BY <1>3 DEF cur
  <2> QED
    BY <1>3, <2>1, InTwo
<1> QED
  BY <1>1, <1>2, <1>3 DEF Shape, ReaderShape, StackShape

-----------------------------------------------------------------------------
(* What the run must read does not change while it runs.                   *)

LEMMA RunFixed == ASSUME [Next]_vars PROVE run' = run
<1>1. ASSUME Reader PROVE run' = run
  BY <1>1 DEF Reader, ReceiveTarget, OpenTarget, ReadBlock, SendBlock, DrainDone, SendBarrier,
     AwaitAck, CheckQuiet, FileFrontier, BankTarget, PushEOF, ReportRoot, SendFinal, ReaderExit, fileVars
<1>2. ASSUME Zip PROVE run' = run
  BY <1>2 DEF Zip, ZipReceive, ZipOffer, ZipPublish, ZipSettle, ZipForward, ZipExit, fileVars
<1>3. ASSUME Gzip PROVE run' = run
  BY <1>3 DEF Gzip, GzipReceive, GzipOffer, GzipPublish, GzipSettle, GzipForward, GzipExit, fileVars
<1>4. ASSUME Wallet \/ Main \/ Cancel PROVE run' = run
  BY <1>4 DEF Wallet, WalletReceive, WalletReport, WalletExit, Main, MainSignal, MainCancel, MainRoot,
     MainFail, MainComplete, Cancel, fileVars
<1>5. ASSUME UNCHANGED vars PROVE run' = run
  BY <1>5 DEF vars, fileVars
<1> QED
  BY <1>1, <1>2, <1>3, <1>4, <1>5 DEF Next, Returned

LEMMA DueFixed ==
  ASSUME run' = run
  PROVE  /\ \A t \in Targets : DueBlocks(t)' = DueBlocks(t)
         /\ \A m \in Nested : Owed(m)' <=> Owed(m)
<1>1. \A t \in Targets : ReadFrom(t)' = ReadFrom(t)
  BY DEF ReadFrom
<1>2. \A t \in Targets : DueBlocks(t)' = DueBlocks(t)
  BY <1>1 DEF DueBlocks
<1>3. \A m \in Nested : Source[m] \in Targets
  BY InputAssumption
<1> QED
  BY <1>2, <1>3 DEF Owed

LEMMA DueFacts ==
  ASSUME Shape, NEW t \in Targets, NEW n \in DueBlocks(t)
  PROVE  /\ n \in Nat /\ ReadFrom(t) \in Nat /\ NBlocks[t] \in Nat
         /\ n > ReadFrom(t) /\ n <= NBlocks[t] /\ t \notin Unopenable /\ n \notin Bad[t]
         /\ \A i \in Nat : i > ReadFrom(t) /\ i <= n => i \notin Cut[t]
<1>1. ReadFrom(t) \in Nat /\ NBlocks[t] \in Nat
  BY InputAssumption DEF ReadFrom, Shape, TypeOK, FileTypes, Run
<1>2. t \notin Unopenable /\ n \in ReadFrom(t) + 1 .. NBlocks[t] /\ Readable(t, ReadFrom(t), n)
  BY DEF DueBlocks
<1> QED
  BY <1>1, <1>2 DEF Readable

-----------------------------------------------------------------------------
(* The reader.                                                             *)

\* What a step of the reader leaves alone.
LEMMA ReaderLeaves ==
  ASSUME Reader
  PROVE  /\ UNCHANGED <<zipVars, gzipVars, walletVars, mainVars, run, histVars>>
         /\ UNCHANGED <<gzipQ, walletQ, signaled, refused>>
BY DEF Reader, ReceiveTarget, OpenTarget, ReadBlock, SendBlock, DrainDone, SendBarrier,
   AwaitAck, CheckQuiet, FileFrontier, BankTarget, PushEOF, ReportRoot, SendFinal, ReaderExit,
   queueVars, signalVars, gateVars, fileVars

\* The next target: the head of the channel goes on the stack.
LEMMA Receiving ==
  ASSUME Shape, ReceiveTarget
  PROVE  /\ cur' = Head(scanTargets) /\ Head(scanTargets) \in Targets /\ rpc' = "open"
         /\ \A t : In(t, scanTargets) <=> In(t, scanTargets') \/ t = Head(scanTargets)
         /\ \A t : In(t, stack') <=> In(t, stack) \/ t = Head(scanTargets)
         /\ UNCHANGED pos
<1>1. scanTargets \in Seq(Targets) /\ scanTargets # <<>> /\ stack \in Seq(Targets)
  BY DEF ReceiveTarget, Shape, TypeOK, QueueTypes, ReaderTypes
<1>2. Head(scanTargets) \in Targets
  BY <1>1, HeadTailProperties, EmptySeq
<1>3. /\ stack' = Append(stack, Head(scanTargets)) /\ scanTargets' = Tail(scanTargets)
      /\ rpc' = "open" /\ UNCHANGED pos
  BY DEF ReceiveTarget
<1>4. cur' = Head(scanTargets)
  <2>1. Len(stack') = Len(stack) + 1 /\ stack'[Len(stack) + 1] = Head(scanTargets)
    BY <1>1, <1>2, <1>3, AppendProperties
  <2> QED
    BY <2>1 DEF cur
<1>5. \A t : In(t, scanTargets) <=> In(t, scanTargets') \/ t = Head(scanTargets)
  BY <1>1, <1>3, InTail
<1>6. \A t : In(t, stack') <=> In(t, stack) \/ t = Head(scanTargets)
  BY <1>1, <1>2, <1>3, InAppend
<1> QED
  BY <1>2, <1>3, <1>4, <1>5, <1>6

\* The end of a read: below it is at most the root's, in its drain.
LEMMA Popping ==
  ASSUME Shape, PushEOF
  PROVE  /\ \A t : In(t, stack') => In(t, stack) /\ t # cur /\ t = Root /\ t = cur' /\ rpc' = "drain"
         /\ cur # Root => rpc' \in {"drain", "recv"}
         /\ UNCHANGED pos
<1>1. /\ rpc = "push" /\ stack' = SubSeq(stack, 1, Len(stack) - 1) /\ UNCHANGED pos
      /\ rpc' = IF Len(stack) = 2 THEN "drain" ELSE IF cur = Root THEN "outcome" ELSE "recv"
  BY DEF PushEOF
<1>2. ASSUME NEW m \in Targets, stack = <<m>>, cur = m, Len(stack) = 1
      PROVE  (\A t : ~In(t, stack')) /\ (cur # Root => rpc' = "recv")
  <2>1. stack' = <<>>
    BY <1>1, <1>2
  <2>2. \A t : ~In(t, stack')
    BY <2>1, InNone
  <2>3. cur # Root => rpc' = "recv"
    BY <1>1, <1>2
  <2> QED
    BY <2>2, <2>3
<1>3. ASSUME NEW m \in Nested, stack = <<Root, m>>, cur = m, Len(stack) = 2
      PROVE  rpc' = "drain" /\ cur' = Root /\ \A t : In(t, stack') <=> t = Root
  <2>1. stack \in Seq(Targets) /\ stack[1] = Root
    BY <1>3, InputAssumption
  <2>2. stack' = <<Root>>
    <3>1. SubSeq(stack, 1, 1) = <<stack[1]>>
      BY <1>3, <2>1, FrontOfTwo
    <3>2. Len(stack) - 1 = 1
      BY <1>3
    <3>3. stack' = SubSeq(stack, 1, 1)
      BY <1>1, <3>2
    <3> QED
      BY <2>1, <3>1, <3>3
  <2>3. cur' = Root
    BY <2>2 DEF cur
  <2> QED
    BY <1>1, <1>3, <2>2, <2>3, InOne
<1> QED
  BY <1>1, <1>2, <1>3, StackCases

\* A step of the reader that leaves the stack alone leaves cur alone.
LEMMA SameCur == ASSUME UNCHANGED stack PROVE cur' = cur
BY DEF cur

\* A read is on no block yet, or on one at or before its end.
LEMMA Reading ==
  ASSUME Shape, Reader, rpc \in {"drain", "barrier", "ack", "quiet", "file"}, ~ReceiveTarget
  PROVE  /\ stack = <<Root>> /\ cur = Root /\ \A t : In(t, stack) <=> t = Root
         /\ UNCHANGED <<stack, pos, scanTargets>>
         /\ rpc' \in {"drain", "barrier", "ack", "quiet", "file", "gone"} \/ rpc' = AfterBlock
<1>1. stack = <<Root>> /\ cur = Root /\ \A t : In(t, stack) <=> t = Root
  BY StackCases, InputAssumption
<1>2. /\ UNCHANGED <<stack, pos, scanTargets>>
      /\ rpc' \in {"drain", "barrier", "ack", "quiet", "file", "gone"} \/ rpc' = AfterBlock
  BY DEF Reader, OpenTarget, ReadBlock, SendBlock, DrainDone, SendBarrier,
     AwaitAck, CheckQuiet, FileFrontier, BankTarget, PushEOF, ReportRoot, SendFinal, ReaderExit, queueVars
<1> QED
  BY <1>1, <1>2

LEMMA AfterBlockPlace ==
  AfterBlock = "take" \/ (AfterBlock = "eof" /\ pos[cur] = NBlocks[cur])
BY DEF AfterBlock

\* The channel of blocks only gains items from the reader.
LEMMA ReaderFills ==
  ASSUME Shape, Reader, NEW x, In(x, zipQ)
  PROVE  In(x, zipQ')
<1>1. zipQ \in Seq(Item)
  BY DEF Shape, TypeOK, QueueTypes, ItemQueue
<1>2. CASE UNCHANGED zipQ
  BY <1>2
<1>3. ASSUME NEW y \in Item, zipQ' = Append(zipQ, y) PROVE In(x, zipQ')
  BY <1>1, <1>3, InAppend
<1>4. CASE SendBlock
  <2>1. cur \in Targets /\ pos[cur] \in Nat
    BY <1>4, StackCases DEF SendBlock, Shape, TypeOK, ReaderTypes
  <2> QED
    BY <1>3, <1>4, <2>1, ItemKinds DEF SendBlock
<1>5. CASE SendBarrier
  BY <1>3, <1>5, ItemKinds DEF SendBarrier
<1>6. CASE PushEOF
  BY <1>3, <1>6, ItemKinds DEF PushEOF
<1> QED
  BY <1>2, <1>4, <1>5, <1>6 DEF Reader, ReceiveTarget, OpenTarget, ReadBlock, DrainDone,
     AwaitAck, CheckQuiet, FileFrontier, BankTarget, ReportRoot, SendFinal, ReaderExit, queueVars

\* What is still to be read stays so, or is on its way to the zip stage.
LEMMA ReaderReads ==
  ASSUME Shape, Past, Reader, NEW t \in Targets, NEW n \in DueBlocks(t), ToRead(t, n)
  PROVE  BeforeZip(t, n)'
<1> USE DueFacts
<1>1. UNCHANGED <<zSlot, gSlot>>
  BY ReaderLeaves DEF zipVars, gzipVars
<1>2. SUFFICES ASSUME t \notin zSlot \cup gSlot, ~In(Block(t, n), zipQ')
               PROVE  \/ In(t, scanTargets')
                      \/ /\ In(t, stack')
                         /\ \/ rpc' = "gone"
                            \/ t = cur' /\ rpc' = "open"
                            \/ t = cur' /\ rpc' = "send" /\ n = pos'[t]
                            \/ n > pos'[t] /\ (t # cur' \/ rpc' \notin {"eof", "push"})
  BY <1>1 DEF BeforeZip, ToRead
<1>3. n \in Nat /\ pos \in [Targets -> Nat] /\ run.start \in Nat
  BY DEF Shape, TypeOK, ReaderTypes, FileTypes, Run
<1>4. \/ In(t, scanTargets)
      \/ /\ In(t, stack)
         /\ \/ rpc = "gone"
            \/ t = cur /\ rpc = "open"
            \/ t = cur /\ rpc = "send" /\ n = pos[t]
            \/ n > pos[t] /\ (t # cur \/ rpc \notin {"eof", "push"})
  BY <1>2 DEF ToRead
<1>5. CASE ReceiveTarget
  <2>1. rpc \in {"recv", "drain"}
    BY <1>5 DEF ReceiveTarget
  <2> QED
    BY <1>4, <1>5, <2>1, Receiving
<1>6. CASE PushEOF
  <2>1. rpc = "push" /\ UNCHANGED <<scanTargets, pos>>
    BY <1>6 DEF PushEOF
  <2>2. CASE In(t, scanTargets)
    BY <2>1, <2>2
  <2>3. CASE ~In(t, scanTargets)
    <3>1. In(t, stack) /\ n > pos[t] /\ t # cur
      BY <1>4, <2>1, <2>3
    <3>2. PICK m \in Nested : stack = <<Root, m>> /\ cur = m /\ Len(stack) = 2
                              /\ \A x : In(x, stack) <=> x \in {Root, m}
      BY <2>1, <3>1, StackCases
    <3>3. t = Root /\ stack' = SubSeq(stack, 1, Len(stack) - 1) /\ rpc' = "drain"
      BY <1>6, <3>1, <3>2 DEF PushEOF
    <3>4. stack' = <<Root>>
      <4>1. stack \in Seq(Targets) /\ stack[1] = Root
        BY <3>2, InputAssumption
      <4>2. SubSeq(stack, 1, 1) = <<stack[1]>>
        BY <3>2, <4>1, FrontOfTwo
      <4>3. Len(stack) - 1 = 1
        BY <3>2
      <4> QED
        BY <3>3, <4>1, <4>2, <4>3
    <3>5. In(t, stack')
      BY ZenonT(30), <3>3, <3>4, InOne
    <3> QED
      BY <2>1, <3>1, <3>3, <3>5
  <2> QED
    BY <2>2, <2>3
<1>7. CASE UNCHANGED <<stack, scanTargets>> /\ In(t, scanTargets)
  BY <1>7
<1>8. CASE UNCHANGED <<stack, scanTargets>> /\ ~In(t, scanTargets) /\ ~ReceiveTarget /\ ~PushEOF
  <2>1. cur' = cur /\ In(t, stack) /\ In(t, stack')
    BY <1>4, <1>8, SameCur
  <2>2. SUFFICES \/ rpc' = "gone"
                 \/ t = cur /\ rpc' = "open"
                 \/ t = cur /\ rpc' = "send" /\ n = pos'[t]
                 \/ n > pos'[t] /\ (t # cur \/ rpc' \notin {"eof", "push"})
    BY <2>1
  <2>3. \/ rpc = "gone"
        \/ t = cur /\ rpc = "open"
        \/ t = cur /\ rpc = "send" /\ n = pos[t]
        \/ n > pos[t] /\ (t # cur \/ rpc \notin {"eof", "push"})
    BY <1>4, <1>8
  <2>4. CASE OpenTarget
    <3>1. rpc = "open" /\ pos' = [pos EXCEPT ![cur] = ReadFrom(cur)]
          /\ (cur \notin Unopenable => rpc' = "take")
      BY <2>4 DEF OpenTarget
    <3> QED
      BY <1>3, <2>3, <3>1
  <2>5. CASE ReadBlock
    <3>1. rpc = "take" /\ n > pos[t]
      BY <1>3, <2>3, <2>5 DEF ReadBlock
    <3>2. CASE t # cur
      BY <1>3, <2>5, <3>1, <3>2 DEF ReadBlock
    <3>3. CASE t = cur
      <4> DEFINE k == pos[cur] + 1
      <4>1. k \in Nat /\ k > ReadFrom(t) /\ k <= n
        BY <1>3, <2>1, <3>1, <3>3 DEF Past
      <4>2. pos[cur] < NBlocks[cur] /\ k \notin Cut[cur]
        BY <1>3, <3>1, <3>3, <4>1
      <4>3. \/ k \in Bad[cur] /\ pos' = [pos EXCEPT ![cur] = k] /\ rpc' = rpc
            \/ rpc' = "send" /\ pos' = [pos EXCEPT ![cur] = k]
        BY <1>3, <2>5, <3>3, <4>2 DEF ReadBlock
      <4>4. pos'[t] = k
        BY <1>3, <3>3, <4>3
      <4> HIDE DEF k
      <4>5. CASE k \in Bad[cur] /\ rpc' = rpc
        BY <1>3, <3>1, <3>3, <4>1, <4>4, <4>5
      <4>6. CASE rpc' = "send"
        BY <1>3, <3>1, <3>3, <4>1, <4>4, <4>6
      <4> QED
        BY <4>3, <4>5, <4>6
    <3> QED
      BY <3>2, <3>3
  <2>6. CASE SendBlock
    <3>1. /\ rpc = "send" /\ zipQ' = Append(zipQ, Block(cur, pos[cur])) /\ UNCHANGED pos
          /\ rpc' = "drain" \/ rpc' = AfterBlock
      BY <2>6 DEF SendBlock
    <3>2. cur \in Targets /\ pos[cur] \in Nat /\ zipQ \in Seq(Item)
      BY <1>3, <3>1, StackCases DEF Shape, TypeOK, QueueTypes, ItemQueue
    <3>3. In(Block(cur, pos[cur]), zipQ')
      BY <3>1, <3>2, ItemKinds, InAppend
    <3>4. n > pos[t]
      BY <1>2, <1>3, <2>3, <3>1, <3>3
    <3> QED
      BY <1>3, <3>1, <3>4, AfterBlockPlace
  <2>7. CASE BankTarget
    <3>1. rpc = "eof" /\ UNCHANGED pos
      BY <2>7 DEF BankTarget
    <3>2. n > pos[t] /\ t # cur
      BY <2>3, <3>1
    <3>3. n > pos'[t]
      BY <3>1, <3>2
    <3> QED
      BY <3>2, <3>3
  <2>8. CASE ReaderExit
    BY <2>8 DEF ReaderExit
  <2>9. CASE rpc \in {"drain", "barrier", "ack", "quiet", "file"} /\ ~ReceiveTarget
    <3>1. UNCHANGED pos /\ n > pos[t]
          /\ (rpc' \in {"drain", "barrier", "ack", "quiet", "file", "gone"} \/ rpc' = AfterBlock)
      BY <1>3, <2>3, <2>9, Reading
    <3> QED
      BY <1>3, <3>1, AfterBlockPlace
  <2>10. ~ReportRoot /\ ~SendFinal
    BY <2>1, StackCases DEF ReportRoot, SendFinal
  <2>11. DrainDone \/ SendBarrier \/ AwaitAck \/ CheckQuiet \/ FileFrontier
           => rpc \in {"drain", "barrier", "ack", "quiet", "file"}
    BY DEF DrainDone, SendBarrier, AwaitAck, CheckQuiet, FileFrontier
  <2> QED
    BY <1>8, <2>4, <2>5, <2>6, <2>7, <2>8, <2>9, <2>10, <2>11 DEF Reader
<1> QED
  BY <1>5, <1>6, <1>7, <1>8 DEF Reader, OpenTarget, ReadBlock, SendBlock, DrainDone, SendBarrier,
     AwaitAck, CheckQuiet, FileFrontier, BankTarget, ReportRoot, SendFinal, ReaderExit, queueVars

LEMMA ReaderPast ==
  ASSUME Shape, Past, Reader
  PROVE  Past'
<1>1. pos \in [Targets -> Nat] /\ run' = run /\ \A t \in Targets : ReadFrom(t) \in Nat
  BY ReaderLeaves, InputAssumption DEF Shape, TypeOK, ReaderTypes, FileTypes, Run, ReadFrom
<1>2. SUFFICES ASSUME NEW t \in Targets, In(t, stack'), ~(t = cur' /\ rpc' = "open")
               PROVE  pos'[t] >= ReadFrom(t)
  BY <1>1 DEF Past, ReadFrom
<1>3. CASE ReceiveTarget
  <2>1. rpc # "open"
    BY <1>3 DEF ReceiveTarget
  <2> QED
    BY <1>2, <1>3, <2>1, Receiving DEF Past
<1>4. CASE PushEOF
  BY <1>2, <1>4, Popping DEF Past
<1>5. CASE UNCHANGED stack
  <2>1. cur' = cur /\ In(t, stack) /\ ~(t = cur /\ rpc' = "open")
    BY <1>2, <1>5, SameCur
  <2>2. ~(t = cur /\ rpc = "open") => pos[t] >= ReadFrom(t)
    BY <2>1 DEF Past
  <2>3. CASE OpenTarget
    <3>1. pos' = [pos EXCEPT ![cur] = ReadFrom(cur)]
      BY <2>3 DEF OpenTarget
    <3> QED
      BY <1>1, <2>2, <3>1
  <2>4. CASE ReadBlock
    <3>1. rpc = "take" /\ (pos' = pos \/ pos' = [pos EXCEPT ![cur] = pos[cur] + 1])
      BY <2>4 DEF ReadBlock
    <3> QED
      BY <1>1, <2>2, <3>1
  <2>5. CASE UNCHANGED pos /\ rpc # "open"
    BY <2>2, <2>5
  <2> QED
    BY <1>5, <2>3, <2>4, <2>5 DEF Reader, ReceiveTarget, SendBlock, DrainDone, SendBarrier,
       AwaitAck, CheckQuiet, FileFrontier, BankTarget, PushEOF, ReportRoot, SendFinal, ReaderExit
<1> QED
  BY <1>3, <1>4, <1>5 DEF Reader, OpenTarget, ReadBlock, SendBlock, DrainDone, SendBarrier,
     AwaitAck, CheckQuiet, FileFrontier, BankTarget, ReportRoot, SendFinal, ReaderExit, queueVars

LEMMA ReaderRoot ==
  ASSUME Shape, Past, RootInv, Reader
  PROVE  RootInv'
<1> DEFINE Kept == rootErr \/ (Root \notin Unopenable /\ Uncut(pos[Root]))
           Kept1 == rootErr' \/ (Root \notin Unopenable /\ Uncut(pos'[Root]))
           Read1 == rootErr' \/ (Root \notin Unopenable /\ pos'[Root] = NBlocks[Root] /\ Uncut(pos'[Root]))
<1> USE InputAssumption
<1>1. /\ pos \in [Targets -> Nat] /\ run' = run /\ run.start \in Nat
      /\ In(Root, stack) /\ ~(Root = cur /\ rpc = "open") => Kept
      /\ In(Root, stack) /\ Root = cur /\ rpc \in {"eof", "push"} => RootRead
      /\ rpc = "outcome" => RootRead
      /\ rootDone = "ok" => RootSound
  BY ReaderLeaves DEF Shape, TypeOK, ReaderTypes, FileTypes, Run, RootInv
<1>2. (Kept1 <=> (rootErr \/ (Root \notin Unopenable /\ Uncut(pos[Root])))')
      /\ (Read1 <=> RootRead') /\ (RootSound' <=> RootSound)
  <2>1. \A n : Uncut(n)' <=> Uncut(n)
    BY <1>1 DEF Uncut
  <2>2. RootSound' <=> RootSound
    BY <1>1, DueFixed DEF RootSound
  <2> QED
    BY <1>1, <2>1, <2>2 DEF RootRead, Uncut
<1>4. SUFFICES /\ In(Root, stack') /\ ~(Root = cur' /\ rpc' = "open") => Kept1
               /\ In(Root, stack') /\ Root = cur' /\ rpc' \in {"eof", "push"} => Read1
               /\ rpc' = "outcome" => Read1
               /\ rootDone' = "ok" => RootSound
  BY <1>2 DEF RootInv
<1>5. CASE ReceiveTarget
  <2>1. /\ rpc # "open" /\ UNCHANGED <<rootErr, pos, rootDone>> /\ rpc' = "open"
        /\ cur' = Head(scanTargets) /\ (In(Root, stack') => In(Root, stack) \/ Root = cur')
    BY <1>5, Receiving DEF ReceiveTarget, signalVars
  <2>2. Kept => Kept1
    BY <2>1
  <2> HIDE DEF Kept, Kept1, Read1
  <2> QED
    BY <1>1, <2>1, <2>2
<1>6. CASE PushEOF
  <2>1. /\ rpc = "push" /\ UNCHANGED <<rootErr, pos, rootDone>> /\ rpc' \notin {"open", "eof", "push"}
        /\ rpc' = "outcome" => cur = Root
    BY <1>6 DEF PushEOF, signalVars
  <2>2. In(Root, stack') => In(Root, stack)
    BY <1>6, Popping
  <2>3. cur = Root => In(Root, stack)
    BY <2>1, StackCases
  <2>4. (Kept => Kept1) /\ (RootRead => Read1)
    BY <2>1 DEF RootRead
  <2> HIDE DEF Kept, Kept1, Read1
  <2> QED
    BY <1>1, <2>1, <2>2, <2>3, <2>4
<1>7. CASE OpenTarget
  <2>1. /\ rpc = "open" /\ UNCHANGED <<stack, rootDone>> /\ cur' = cur
        /\ pos' = [pos EXCEPT ![cur] = ReadFrom(cur)]
        /\ IF cur \in Unopenable
             THEN rpc' = "push" /\ rootErr' = (rootErr \/ cur = Root)
             ELSE rpc' = "take" /\ UNCHANGED rootErr
    BY <1>7, SameCur DEF OpenTarget, signalVars
  <2>2. CASE cur = Root
    <3>1. Root \in Unopenable => rootErr'
      BY <2>1, <2>2, Zenon
    <3>2. Uncut(pos'[Root])
      BY <1>1, <2>1, <2>2 DEF Uncut, ReadFrom
    <3>3. Kept1 /\ (rpc' = "push" => Read1)
      BY <2>1, <2>2, <3>1, <3>2
    <3> HIDE DEF Kept, Kept1, Read1
    <3> QED
      BY <1>1, <2>1, <3>3
  <2>3. CASE cur # Root
    <3>1. rootErr => rootErr'
      BY <2>1, Zenon
    <3>2. pos'[Root] = pos[Root]
      BY <1>1, <2>1, <2>3
    <3>3. Kept => Kept1
      BY <3>1, <3>2
    <3> HIDE DEF Kept, Kept1, Read1
    <3> QED
      BY <1>1, <2>1, <2>3, <3>3
  <2> QED
    BY <2>2, <2>3
<1>8. CASE ReadBlock
  <2>1. rpc = "take" /\ UNCHANGED <<stack, rootDone>> /\ cur' = cur /\ cur \in Targets
    BY <1>8, SameCur, StackCases DEF ReadBlock, signalVars
  <2> DEFINE k == pos[cur] + 1
  <2>2. \/ pos[cur] = NBlocks[cur] /\ rpc' = "eof" /\ UNCHANGED <<pos, rootErr>>
        \/ k \in Cut[cur] /\ rpc' = "eof" /\ rootErr' = (rootErr \/ cur = Root) /\ UNCHANGED pos
        \/ k \notin Cut[cur] /\ pos' = [pos EXCEPT ![cur] = k] /\ rpc' \in {"take", "send"}
           /\ UNCHANGED rootErr
    BY <1>8 DEF ReadBlock
  <2>3. rootErr => rootErr'
    BY <2>2, Zenon
  <2>4. k \in Nat
    BY <1>1, <2>1
  <2>5. CASE cur # Root
    <3>1. pos'[Root] = pos[Root] /\ rpc' \in {"eof", "take", "send"}
      BY <1>1, <2>2, <2>5
    <3>2. Kept => Kept1
      BY <2>3, <3>1
    <3> HIDE DEF Kept, Kept1, Read1, k
    <3> QED
      BY <1>1, <2>1, <2>5, <3>1, <3>2
  <2>6. CASE cur = Root
    <3>1. In(Root, stack) /\ Kept
      BY <1>1, <2>1, <2>6, StackCases
    <3>2. CASE pos[cur] = NBlocks[cur] /\ rpc' = "eof" /\ UNCHANGED <<pos, rootErr>>
      <4>1. Kept1 /\ Read1
        BY <2>6, <3>1, <3>2
      <4> HIDE DEF Kept, Kept1, Read1, k
      <4> QED
        BY <1>1, <2>1, <3>2, <4>1
    <3>3. CASE rpc' = "eof" /\ rootErr' = (rootErr \/ cur = Root)
      <4>1. rootErr'
        BY <2>6, <3>3, Zenon
      <4>2. Kept1 /\ Read1
        BY <4>1
      <4> HIDE DEF Kept, Kept1, Read1, k
      <4> QED
        BY <1>1, <2>1, <3>3, <4>2
    <3>4. CASE k \notin Cut[cur] /\ pos' = [pos EXCEPT ![cur] = k] /\ rpc' \in {"take", "send"}
               /\ UNCHANGED rootErr
      <4>1. pos'[Root] = k
        BY <1>1, <2>6, <3>4
      <4>2. Uncut(pos[Root]) => Uncut(k)
        BY <1>1, <2>6, <3>4 DEF Uncut
      <4>3. Kept1
        BY <2>6, <3>1, <3>4, <4>1, <4>2
      <4> HIDE DEF Kept, Kept1, Read1, k
      <4> QED
        BY <1>1, <2>1, <3>4, <4>3
    <3> HIDE DEF Kept, Kept1, Read1, k
    <3> QED
      BY <2>2, <3>2, <3>3, <3>4
  <2> QED
    BY <2>5, <2>6
<1>9. CASE SendBlock \/ (rpc \in {"drain", "barrier", "ack", "quiet", "file"} /\ ~ReceiveTarget /\ Reader)
  <2>1. /\ rpc \notin {"open", "outcome"} /\ UNCHANGED <<stack, pos, rootErr, rootDone>> /\ cur' = cur
        /\ rpc' \in {"drain", "barrier", "ack", "quiet", "file", "gone", "take"}
           \/ (rpc' = "eof" /\ pos[cur] = NBlocks[cur])
    <3>1. CASE SendBlock
      BY <3>1, SameCur, AfterBlockPlace DEF SendBlock, signalVars
    <3>2. CASE rpc \in {"drain", "barrier", "ack", "quiet", "file"} /\ ~ReceiveTarget /\ Reader
      <4>1. UNCHANGED <<rootErr, rootDone>>
        BY <3>2 DEF Reader, OpenTarget, ReadBlock, SendBlock, DrainDone, SendBarrier,
           AwaitAck, CheckQuiet, FileFrontier, BankTarget, PushEOF, ReportRoot, SendFinal, ReaderExit,
           signalVars
      <4> QED
        BY <3>2, <4>1, SameCur, AfterBlockPlace, Reading
    <3> QED
      BY <1>9, <3>1, <3>2
  <2>2. (Kept => Kept1) /\ (Kept /\ cur = Root /\ pos[cur] = NBlocks[cur] => Read1)
    BY <2>1
  <2> HIDE DEF Kept, Kept1, Read1
  <2> QED
    BY <1>1, <2>1, <2>2
<1>10. CASE BankTarget
  <2>1. rpc = "eof" /\ rpc' = "push" /\ UNCHANGED <<stack, pos, rootErr, rootDone>> /\ cur' = cur
    BY <1>10, SameCur DEF BankTarget, signalVars
  <2>2. (Kept => Kept1) /\ (RootRead => Read1)
    BY <2>1 DEF RootRead
  <2> HIDE DEF Kept, Kept1, Read1
  <2> QED
    BY <1>1, <2>1, <2>2
<1>11. CASE ReportRoot
  <2>1. /\ rpc = "outcome" /\ UNCHANGED stack /\ rpc' \in {"final", "recv"}
        /\ rootDone' = IF rootFailed THEN "failed" ELSE "ok"
    BY <1>11 DEF ReportRoot
  <2>2. ~In(Root, stack')
    BY <2>1, StackCases
  <2>3. ASSUME rootDone' = "ok" PROVE RootSound
    <3>1. ~rootErr /\ ~YieldedNothing
      BY <2>1, <2>3 DEF rootFailed
    <3>2. Root \notin Unopenable /\ pos[Root] = NBlocks[Root] /\ Uncut(NBlocks[Root])
      BY <1>1, <2>1, <3>1 DEF RootRead
    <3>3. ASSUME NBlocks[Root] > run.start PROVE DueBlocks(Root) # {}
      <4>1. PICK n \in run.start + 1 .. NBlocks[Root] : n \notin Bad[Root]
        BY <3>1, <3>2, <3>3 DEF YieldedNothing
      <4>2. NBlocks[Root] \in Nat
        OBVIOUS
      <4>3. \A i \in run.start + 1 .. n : i \notin Cut[Root]
        BY <1>1, <3>2, <4>1, <4>2 DEF Uncut
      <4>4. n \in DueBlocks(Root)
        BY <3>2, <4>1, <4>3 DEF DueBlocks, Readable, ReadFrom
      <4> QED
        BY <4>4
    <3> QED
      BY <3>2, <3>3 DEF RootSound, Uncut
  <2> HIDE DEF Kept, Kept1, Read1
  <2> QED
    BY <2>1, <2>2, <2>3
<1>12. CASE SendFinal \/ ReaderExit
  <2>1. rpc \notin {"open", "outcome"} /\ rpc' \in {"recv", "gone"}
        /\ UNCHANGED <<stack, pos, rootErr, rootDone>> /\ cur' = cur
    BY <1>12, SameCur DEF SendFinal, ReaderExit, signalVars
  <2>2. Kept => Kept1
    BY <2>1
  <2> HIDE DEF Kept, Kept1, Read1
  <2> QED
    BY <1>1, <2>1, <2>2
<1>13. DrainDone \/ SendBarrier \/ AwaitAck \/ CheckQuiet \/ FileFrontier
         => rpc \in {"drain", "barrier", "ack", "quiet", "file"}
  BY DEF DrainDone, SendBarrier, AwaitAck, CheckQuiet, FileFrontier
<1> HIDE DEF Kept, Kept1, Read1
<1> QED
  BY <1>5, <1>6, <1>7, <1>8, <1>9, <1>10, <1>11, <1>12, <1>13 DEF Reader

-----------------------------------------------------------------------------
(* The stages pass a block on, or let a later one have it.                 *)

\* The block n of t names itself: no EOF, barrier or nothing is one.
LEMMA BlockNames ==
  ASSUME NEW t \in Targets, NEW n \in Nat
  PROVE  /\ Block(t, n) \in Item /\ Block(t, n).kind = "block"
         /\ Block(t, n).src = t /\ Block(t, n).n = n /\ Block(t, n) # Nothing
BY DEF Block, Item, Nothing

LEMMA QueueTypesUsed ==
  ASSUME Shape
  PROVE  /\ scanTargets \in Seq(Targets)
         /\ zipQ \in Seq(Item) /\ gzipQ \in Seq(Item) /\ walletQ \in Seq(Item)
BY DEF Shape, TypeOK, QueueTypes, ItemQueue

\* ToRead speaks of the reader, its channel and the slots of the stages.
LEMMA ToReadStays ==
  ASSUME NEW t, NEW n, ToRead(t, n), UNCHANGED <<rpc, stack, pos>>,
         In(t, scanTargets) => In(t, scanTargets'),
         t \in zSlot \cup gSlot => t \in (zSlot \cup gSlot)' \/ In(t, scanTargets')
  PROVE  ToRead(t, n)'
BY SameCur DEF ToRead, In

LEMMA ZipCarries ==
  ASSUME Shape, Zip, NEW t \in Targets, NEW n \in Nat
  PROVE  /\ ToRead(t, n) => ToRead(t, n)'
         /\ BeforeZip(t, n) => BeforeZip(t, n)' \/ (ZipReceive /\ Head(zipQ) = Block(t, n))
         /\ BeforeGzip(t, n) => BeforeGzip(t, n)'
<1> USE QueueTypesUsed, BlockNames
<1>1. UNCHANGED <<rpc, stack, pos, gSlot, walletQ>>
  BY DEF Zip, ZipReceive, ZipOffer, ZipPublish, ZipSettle, ZipForward, ZipExit,
     readerVars, gzipVars, queueVars
<1>2. ToRead(t, n) => ToRead(t, n)'
  <2>1. CASE ZipPublish
    <3>1. PICK m \in zSlot : scanTargets' = Append(scanTargets, m)
      BY <2>1 DEF ZipPublish
    <3>2. m \in Targets /\ (t \in zSlot => t = m)
      BY <3>1 DEF Shape, TypeOK, ZipTypes, StageShape
    <3>3. \A x : In(x, scanTargets') <=> In(x, scanTargets) \/ x = m
      BY <3>1, <3>2, InAppend
    <3> QED
      BY <1>1, <3>2, <3>3, ToReadStays
  <2>2. CASE UNCHANGED scanTargets /\ (zSlot = {} \/ UNCHANGED zSlot)
    BY <1>1, <2>2, ToReadStays
  <2> QED
    BY <2>1, <2>2 DEF Zip, ZipReceive, ZipOffer, ZipSettle, ZipForward, ZipExit, queueVars
<1>3. In(Block(t, n), zipQ) => In(Block(t, n), zipQ') \/ (ZipReceive /\ Head(zipQ) = Block(t, n))
  <2>1. CASE ZipReceive
    <3>1. zipQ # <<>> /\ zipQ' = Tail(zipQ)
      BY <2>1 DEF ZipReceive
    <3> QED
      BY <2>1, <3>1, InTail
  <2>2. CASE UNCHANGED zipQ
    BY <2>2
  <2> QED
    BY <2>1, <2>2 DEF Zip, ZipOffer, ZipPublish, ZipSettle, ZipForward, ZipExit, queueVars
<1>4. zHand = Block(t, n) \/ In(Block(t, n), gzipQ)
        => (zHand = Block(t, n))' \/ In(Block(t, n), gzipQ')
  <2>1. CASE ZipForward
    <3>1. gzipQ' = Append(gzipQ, zHand) /\ zpc = "send"
      BY <2>1 DEF ZipForward
    <3>2. zHand \in Item
      BY <3>1, ItemKinds DEF Shape, StageShape, TypeOK, ZipTypes
    <3> QED
      BY <3>1, <3>2, InAppend
  <2>2. CASE ZipReceive
    BY <2>2 DEF ZipReceive, Shape, StageShape
  <2>3. CASE ZipSettle
    BY <2>3 DEF ZipSettle, zSwallow, flushing, queueVars
  <2>4. CASE UNCHANGED <<zHand, gzipQ>>
    BY <2>4 DEF Block
  <2> QED
    BY <2>1, <2>2, <2>3, <2>4 DEF Zip, ZipOffer, ZipPublish, ZipExit, queueVars
<1>5. ZipReceive /\ Head(zipQ) = Block(t, n) => (zHand = Block(t, n))'
  BY DEF ZipReceive, Block
<1> QED
  BY <1>2, <1>3, <1>4, <1>5 DEF BeforeZip, BeforeGzip, In, Block

LEMMA GzipCarries ==
  ASSUME Shape, Gzip, NEW t \in Targets, NEW n \in Nat
  PROVE  /\ ToRead(t, n) => ToRead(t, n)'
         /\ BeforeZip(t, n) => BeforeZip(t, n)'
         /\ BeforeGzip(t, n) => BeforeGzip(t, n)' \/ (GzipReceive /\ Head(gzipQ) = Block(t, n))
         /\ OnItsWay(t, n) => OnItsWay(t, n)'
<1> USE QueueTypesUsed, BlockNames
<1>1. UNCHANGED <<rpc, stack, pos, zSlot, zipQ, zHand, wHand>>
  BY DEF Gzip, GzipReceive, GzipOffer, GzipPublish, GzipSettle, GzipForward, GzipExit,
     readerVars, zipVars, walletVars, queueVars
<1>2. ToRead(t, n) => ToRead(t, n)'
  <2>1. CASE GzipPublish
    <3>1. PICK m \in gSlot : scanTargets' = Append(scanTargets, m)
      BY <2>1 DEF GzipPublish
    <3>2. m \in Targets /\ (t \in gSlot => t = m)
      BY <3>1 DEF Shape, TypeOK, GzipTypes, StageShape
    <3>3. \A x : In(x, scanTargets') <=> In(x, scanTargets) \/ x = m
      BY <3>1, <3>2, InAppend
    <3> QED
      BY <1>1, <3>2, <3>3, ToReadStays
  <2>2. CASE UNCHANGED scanTargets /\ (gSlot = {} \/ UNCHANGED gSlot)
    BY <1>1, <2>2, ToReadStays
  <2> QED
    BY <2>1, <2>2 DEF Gzip, GzipReceive, GzipOffer, GzipSettle, GzipForward, GzipExit, queueVars
<1>3. In(Block(t, n), gzipQ) => In(Block(t, n), gzipQ') \/ (GzipReceive /\ Head(gzipQ) = Block(t, n))
  <2>1. CASE GzipReceive
    <3>1. gzipQ # <<>> /\ gzipQ' = Tail(gzipQ)
      BY <2>1 DEF GzipReceive
    <3> QED
      BY <2>1, <3>1, InTail
  <2>2. CASE UNCHANGED gzipQ
    BY <2>2
  <2> QED
    BY <2>1, <2>2 DEF Gzip, GzipOffer, GzipPublish, GzipSettle, GzipForward, GzipExit, queueVars
<1>4. gHand = Block(t, n) \/ In(Block(t, n), walletQ)
        => (gHand = Block(t, n))' \/ In(Block(t, n), walletQ')
  <2>1. CASE GzipForward
    <3>1. walletQ' = Append(walletQ, gHand) /\ gpc = "send"
      BY <2>1 DEF GzipForward
    <3>2. gHand \in Item
      BY <3>1, ItemKinds DEF Shape, StageShape, TypeOK, GzipTypes
    <3> QED
      BY <3>1, <3>2, InAppend
  <2>2. CASE GzipReceive
    BY <2>2 DEF GzipReceive, Shape, StageShape
  <2>3. CASE GzipSettle
    BY <2>3 DEF GzipSettle, gSwallow, queueVars
  <2>4. CASE UNCHANGED <<gHand, walletQ>>
    BY <2>4 DEF Block
  <2> QED
    BY <2>1, <2>2, <2>3, <2>4 DEF Gzip, GzipOffer, GzipPublish, GzipExit, queueVars
<1>5. GzipReceive /\ Head(gzipQ) = Block(t, n) => (gHand = Block(t, n))'
  BY DEF GzipReceive, Block
<1>6. BeforeZip(t, n) => BeforeZip(t, n)'
  BY <1>1, <1>2 DEF BeforeZip, In, Block
<1>7. BeforeGzip(t, n) => BeforeGzip(t, n)' \/ (GzipReceive /\ Head(gzipQ) = Block(t, n))
  BY <1>1, <1>3, <1>6 DEF BeforeGzip, In, Block
<1> QED
  BY <1>1, <1>2, <1>4, <1>5, <1>6, <1>7 DEF OnItsWay, In, Block

\* The wallet stage, runPipeline and the caller touch nothing upstream.
LEMMA OthersCarry ==
  ASSUME Wallet \/ Main \/ Cancel \/ UNCHANGED vars, NEW t, NEW n
  PROVE  /\ UNCHANGED <<scanTargets, zipQ, gzipQ, readerVars, zipVars, gzipVars, admitted,
                        refused, covered, run>>
         /\ ToRead(t, n) => ToRead(t, n)'
         /\ BeforeZip(t, n) => BeforeZip(t, n)'
         /\ BeforeGzip(t, n) => BeforeGzip(t, n)'
<1>1. UNCHANGED <<scanTargets, zipQ, gzipQ, readerVars, zipVars, gzipVars, admitted,
                  refused, covered, run>>
  <2>1. CASE Wallet
    BY <2>1 DEF Wallet, WalletReceive, WalletReport, WalletExit, queueVars, gateVars, histVars, fileVars
  <2>2. CASE Main \/ Cancel
    BY <2>2 DEF Main, MainSignal, MainCancel, MainRoot, MainFail, MainComplete, Cancel,
       queueVars, gateVars, histVars, fileVars
  <2>3. CASE UNCHANGED vars
    BY <2>3 DEF vars, queueVars, gateVars, histVars, fileVars
  <2> QED
    BY <2>1, <2>2, <2>3
<1>2. UNCHANGED <<rpc, stack, pos, zSlot, gSlot, zHand>>
  BY <1>1 DEF readerVars, zipVars, gzipVars
<1>3. ToRead(t, n) => ToRead(t, n)'
  BY <1>1, <1>2, ToReadStays
<1>4. BeforeZip(t, n) => BeforeZip(t, n)'
  BY <1>1, <1>3 DEF BeforeZip, In, Block
<1>5. BeforeGzip(t, n) => BeforeGzip(t, n)'
  BY <1>1, <1>2, <1>4 DEF BeforeGzip, In, Block
<1> QED
  BY <1>1, <1>3, <1>4, <1>5

LEMMA WalletCarries ==
  ASSUME Shape, StageEnds, Wallet, NEW t \in Targets, NEW n \in Nat,
         <<t, n>> \in delivered \/ OnItsWay(t, n)
  PROVE  (<<t, n>> \in delivered \/ OnItsWay(t, n))'
<1> USE QueueTypesUsed, BlockNames
<1>1. UNCHANGED gHand /\ (BeforeGzip(t, n) => BeforeGzip(t, n)')
  BY OthersCarry DEF gzipVars
<1>2. CASE WalletReceive
  <2>1. /\ wpc = "recv" /\ walletQ # <<>> /\ walletQ' = Tail(walletQ) /\ delivered' = delivered
        /\ Head(walletQ).kind = "block" => wHand' = Head(walletQ)
    BY <1>2 DEF WalletReceive, histVars
  <2>2. wHand = Nothing
    BY <2>1 DEF StageEnds
  <2>3. In(Block(t, n), walletQ) => In(Block(t, n), walletQ') \/ wHand' = Block(t, n)
    BY <2>1, InTail
  <2> QED
    BY <1>1, <2>1, <2>2, <2>3 DEF OnItsWay, In, Block
<1>3. CASE WalletReport
  <2>1. delivered' = delivered \cup {<<wHand.src, wHand.n>>} /\ UNCHANGED walletQ
    BY <1>3 DEF WalletReport
  <2> QED
    BY <1>1, <2>1 DEF OnItsWay, In, Block
<1>4. CASE WalletExit
  <2>1. UNCHANGED <<delivered, walletQ, wHand>>
    BY <1>4 DEF WalletExit, queueVars, histVars
  <2> QED
    BY <1>1, <2>1 DEF OnItsWay, In, Block
<1> QED
  BY <1>2, <1>3, <1>4 DEF Wallet

-----------------------------------------------------------------------------
(* The invariant holds and is kept, part by part.                          *)

LEMMA InitCompletion == AnyStart => CompletionInv
<1> SUFFICES ASSUME AnyStart PROVE CompletionInv
  OBVIOUS
<1> USE InputAssumption
<1>1. In(Root, scanTargets) /\ \A t : In(t, scanTargets) => t = Root
  <2>1. scanTargets = <<Root>>
    BY DEF AnyStart, RunStarts
  <2> QED
    BY <2>1, InOne
<1>2. \A t : ~In(t, stack)
  BY InNone DEF AnyStart, RunStarts
<1>3. admitted = {Root}
  BY DEF AnyStart, RunStarts
<1>4. Carried
  BY <1>1, <1>3 DEF Carried, OnItsWay, BeforeGzip, BeforeZip, ToRead
<1>5. Offered
  BY <1>1, <1>3 DEF Offered, ToOffer, BeforeGzip, BeforeZip, ToRead
<1>6. Known
  BY <1>1, <1>2, <1>3 DEF AnyStart, RunStarts, Known
<1>7. StageEnds
  BY ItemKinds DEF AnyStart, RunStarts, StageEnds, flushing
<1>8. Past
  BY <1>2 DEF Past
<1>9. RootInv
  BY <1>2 DEF RootInv, AnyStart, RunStarts
<1>10. Settled
  BY DEF Settled, AnyStart, RunStarts
<1> QED
  BY <1>4, <1>5, <1>6, <1>7, <1>8, <1>9, <1>10 DEF CompletionInv

\* Who is taken on has a place in a slot, and stays taken on.
LEMMA AdmittedGrows ==
  ASSUME Next \/ UNCHANGED vars
  PROVE  /\ admitted \subseteq admitted' /\ refused \subseteq refused' /\ delivered \subseteq delivered'
         /\ \A t \in admitted' : t \in admitted \/ t \in (zSlot \cup gSlot)'
<1>1. CASE Reader
  BY <1>1, ReaderLeaves DEF histVars
<1>2. CASE Zip
  BY <1>2 DEF Zip, ZipReceive, ZipOffer, ZipPublish, ZipSettle, ZipForward, ZipExit,
     notePolicySkip, GateRefuse, GateAdmit, gateVars, histVars
<1>3. CASE Gzip
  BY <1>3 DEF Gzip, GzipReceive, GzipOffer, GzipPublish, GzipSettle, GzipForward, GzipExit,
     notePolicySkip, GateRefuse, GateAdmit, gateVars, histVars
<1>4. CASE Wallet
  BY <1>4 DEF Wallet, WalletReceive, WalletReport, WalletExit, gateVars, histVars
<1>5. CASE Main \/ Cancel
  BY <1>5 DEF Main, MainSignal, MainCancel, MainRoot, MainFail, MainComplete, Cancel, gateVars, histVars
<1>6. CASE UNCHANGED vars
  BY <1>6 DEF vars, gateVars, histVars
<1> QED
  BY <1>1, <1>2, <1>3, <1>4, <1>5, <1>6 DEF Next, Returned

\* No block due is lost between the medium and the report.
LEMMA StepCarries ==
  ASSUME Shape, StageEnds, Past, Carried, [Next]_vars
  PROVE  Carried'
<1> USE DueFacts
<1>1. SUFFICES ASSUME NEW t \in admitted', NEW n \in DueBlocks(t)
               PROVE  (<<t, n>> \in delivered \/ OnItsWay(t, n))'
  <2>1. admitted' \subseteq Targets
    BY StepKeepsShape DEF Shape, TypeOK, HistTypes
  <2>2. \A t \in Targets : DueBlocks(t)' = DueBlocks(t)
    BY RunFixed, DueFixed
  <2>3. \A t \in admitted' : \A n \in DueBlocks(t) : (<<t, n>> \in delivered)' \/ OnItsWay(t, n)'
    BY <1>1
  <2> QED
    BY <2>1, <2>2, <2>3 DEF Carried
<1>2. t \in Targets /\ n \in Nat
  BY StepKeepsShape DEF Shape, TypeOK, HistTypes
<1>3. CASE t \notin admitted
  BY <1>3, AdmittedGrows DEF OnItsWay, BeforeGzip, BeforeZip, ToRead
<1>4. CASE t \in admitted
  <2>1. <<t, n>> \in delivered \/ OnItsWay(t, n)
    BY <1>4 DEF Carried
  <2>2. CASE <<t, n>> \in delivered
    BY <2>2, AdmittedGrows
  <2>3. CASE OnItsWay(t, n) /\ Reader
    <3>1. UNCHANGED <<zHand, gHand, wHand, gzipQ, walletQ>>
      BY <2>3, ReaderLeaves DEF zipVars, gzipVars, walletVars
    <3>2. BeforeZip(t, n) => BeforeZip(t, n)'
      BY <1>2, <2>3, ReaderReads, ReaderFills DEF BeforeZip, Block
    <3> QED
      BY <2>3, <3>1, <3>2 DEF OnItsWay, BeforeGzip, In, Block
  <2>4. CASE OnItsWay(t, n) /\ Zip
    <3>1. UNCHANGED <<gHand, wHand, walletQ>>
      BY <2>4 DEF Zip, ZipReceive, ZipOffer, ZipPublish, ZipSettle, ZipForward, ZipExit,
         queueVars, gzipVars, walletVars
    <3> QED
      BY <1>2, <2>4, <3>1, ZipCarries DEF OnItsWay, In, Block
  <2>5. CASE OnItsWay(t, n) /\ Gzip
    BY <1>2, <2>5, GzipCarries
  <2>6. CASE OnItsWay(t, n) /\ Wallet
    BY <1>2, <2>6, WalletCarries
  <2>7. CASE OnItsWay(t, n) /\ (Main \/ Cancel \/ UNCHANGED vars)
    <3>1. UNCHANGED <<gHand, wHand, walletQ>>
      BY <2>7 DEF Main, MainSignal, MainCancel, MainRoot, MainFail, MainComplete, Cancel, vars,
         queueVars, gzipVars, walletVars
    <3> QED
      BY <2>7, <3>1, OthersCarry DEF OnItsWay, In, Block
  <2> QED
    BY <2>1, <2>2, <2>3, <2>4, <2>5, <2>6, <2>7 DEF Next, Returned
<1> QED
  BY <1>3, <1>4

\* What is dropped at the flush, or as banked, was taken on before.
LEMMA OfferDecides ==
  ASSUME Shape, StageEnds, Known, NEW m \in Nested, Owed(m),
         ZipOffer(m) \/ GzipOffer(m)
  PROVE  m \in admitted' \cup refused'
<1>1. ~TooDeep(m) /\ m \notin TooBig /\ m \notin run.bank /\ (Kind[m] = "entry" => Orphan(m))
  BY DEF Owed
<1>2. admitted \subseteq admitted'
  BY DEF ZipOffer, GzipOffer, GateAdmit
<1>3. m \in covered => m \in admitted
  BY <1>1 DEF Known
<1>4. ASSUME ZipOffer(m), flushing, Claimed(m) PROVE m \in admitted
  <2>1. Kind[m] = "entry"
    BY <1>4 DEF ZipOffer, StageEnds
  <2>2. PICK r \in published : /\ r.src = Source[m]
                               /\ r.lo <= Extent[m].lo /\ Extent[m].hi <= r.hi
    BY <1>4 DEF Claimed
  <2>3. PICK x \in Nested : r = Claim(x) /\ Kind[x] # "gzip" /\ (Kind[x] = "entry" => x \in admitted)
    BY DEF Known
  <2>4. Source[x] = Source[m] /\ Extent[x].lo <= Extent[m].lo /\ Extent[m].hi <= Extent[x].hi
    BY <2>2, <2>3 DEF Claim
  <2>5. x = m
    BY <1>1, <2>1, <2>3, <2>4 DEF Orphan
  <2> QED
    BY <2>1, <2>3, <2>5
<1>5. CASE ZipOffer(m)
  BY <1>1, <1>2, <1>3, <1>4, <1>5 DEF ZipOffer, GateRefuse, GateAdmit
<1>6. CASE GzipOffer(m)
  BY <1>1, <1>2, <1>3, <1>6 DEF GzipOffer, GateRefuse, GateAdmit
<1> QED
  BY <1>5, <1>6

\* No member owed is forgotten between its block and its gate.
LEMMA StepOffers ==
  ASSUME Shape, StageEnds, Known, Past, Offered, [Next]_vars
  PROVE  Offered'
<1> USE InputAssumption
<1>1. SUFFICES ASSUME NEW m \in Nested, Source[m] \in admitted', Owed(m),
                      m \notin admitted' \cup refused'
               PROVE  ToOffer(m)'
  BY RunFixed, DueFixed DEF Offered
<1> DEFINE s == Source[m]
           f == FoundAt[m]
<1>2. s \in Targets /\ f \in DueBlocks(s) /\ f \in Nat
  BY <1>1 DEF Owed
<1>3. CASE s \notin admitted
  BY <1>1, <1>3, AdmittedGrows DEF ToOffer, BeforeGzip, BeforeZip, ToRead
<1>4. CASE s \in admitted
  <2>1. ToOffer(m)
    BY <1>1, <1>4, AdmittedGrows DEF Offered
  <2>2. CASE Reader
    <3>1. UNCHANGED <<zTodo, pending, gTodo, zHand, gzipQ>>
      BY <2>2, ReaderLeaves DEF zipVars, gzipVars
    <3>2. BeforeZip(s, f) => BeforeZip(s, f)'
      BY <1>2, <2>2, ReaderReads, ReaderFills DEF BeforeZip, Block
    <3>3. BeforeGzip(s, f) => BeforeGzip(s, f)'
      BY <3>1, <3>2 DEF BeforeGzip, In, Block
    <3> HIDE DEF s, f
    <3> QED
      BY <2>1, <3>1, <3>2, <3>3 DEF ToOffer, s, f
  <2>3. CASE Zip
    <3>1. UNCHANGED gTodo
      BY <2>3 DEF Zip, ZipReceive, ZipOffer, ZipPublish, ZipSettle, ZipForward, ZipExit, gzipVars
    <3>2. BeforeGzip(s, f) => BeforeGzip(s, f)'
      BY <1>2, <2>3, ZipCarries
    <3>3. BeforeZip(s, f) => BeforeZip(s, f)' \/ (ZipReceive /\ Head(zipQ) = Block(s, f))
      BY <1>2, <2>3, ZipCarries
    <3>4. CASE Kind[m] = "gzip"
      BY <2>1, <3>1, <3>2, <3>4 DEF ToOffer
    <3>5. ASSUME Kind[m] # "gzip", m \in zTodo \cup pending \/ (ZipReceive /\ Head(zipQ) = Block(s, f))
          PROVE  m \in zTodo' \cup pending'
      <4>1. CASE ZipReceive
        <5>1. zTodo = {}
          BY <4>1 DEF ZipReceive, StageEnds
        <5>2. CASE Head(zipQ) = Block(s, f)
          <6>1. /\ Head(zipQ).kind = "block" /\ Head(zipQ).src = s /\ Head(zipQ).n = f
            BY <1>2, <5>2, BlockNames
          <6>2. /\ zTodo' = Found("zip", s, f)
                /\ pending' = pending \cup Found("entry", s, f)
            BY <4>1, <6>1 DEF ZipReceive
          <6>3. Kind[m] = "zip" \/ Kind[m] = "entry"
            BY <3>5
          <6> QED
            BY <6>2, <6>3 DEF Found
        <5>3. CASE m \in pending
          BY <4>1, <5>3 DEF ZipReceive
        <5> QED
          BY <3>5, <5>1, <5>2, <5>3
      <4>2. ASSUME NEW x \in Nested, ZipOffer(x) PROVE m \in zTodo' \cup pending'
        <5>1. zTodo' = zTodo \ {x} /\ UNCHANGED pending /\ ~ZipReceive
          BY <4>2 DEF ZipOffer, ZipReceive
        <5>2. m # x
          BY <1>1, <4>2, OfferDecides
        <5> QED
          BY <3>5, <5>1, <5>2
      <4>3. CASE UNCHANGED <<zTodo, pending>> /\ ~ZipReceive
        BY <3>5, <4>3
      <4>4. ZipPublish \/ ZipSettle \/ ZipForward \/ ZipExit => UNCHANGED <<zTodo, pending>>
        BY DEF ZipPublish, ZipSettle, ZipForward, ZipExit
      <4> QED
        BY <2>3, <4>1, <4>2, <4>3, <4>4 DEF Zip
    <3> HIDE DEF s, f
    <3> QED
      BY <2>1, <3>3, <3>4, <3>5 DEF ToOffer, s, f
  <2>4. CASE Gzip
    <3>1. UNCHANGED <<zTodo, pending>>
      BY <2>4 DEF Gzip, GzipReceive, GzipOffer, GzipPublish, GzipSettle, GzipForward, GzipExit, zipVars
    <3>2. BeforeZip(s, f) => BeforeZip(s, f)'
      BY <1>2, <2>4, GzipCarries
    <3>3. BeforeGzip(s, f) => BeforeGzip(s, f)' \/ (GzipReceive /\ Head(gzipQ) = Block(s, f))
      BY <1>2, <2>4, GzipCarries
    <3>4. CASE Kind[m] # "gzip"
      BY <2>1, <3>1, <3>2, <3>4 DEF ToOffer
    <3>5. ASSUME Kind[m] = "gzip", m \in gTodo \/ (GzipReceive /\ Head(gzipQ) = Block(s, f))
          PROVE  m \in gTodo'
      <4>1. CASE GzipReceive
        <5>1. gTodo = {}
          BY <4>1 DEF GzipReceive, StageEnds
        <5>2. /\ Head(gzipQ).kind = "block" /\ Head(gzipQ).src = s /\ Head(gzipQ).n = f
          BY <1>2, <3>5, <5>1, BlockNames
        <5>3. gTodo' = Found("gzip", s, f)
          BY <4>1, <5>2 DEF GzipReceive
        <5> QED
          BY <3>5, <5>3 DEF Found
      <4>2. ASSUME NEW x \in Nested, GzipOffer(x) PROVE m \in gTodo'
        <5>1. gTodo' = gTodo \ {x} /\ ~GzipReceive
          BY <4>2 DEF GzipOffer, GzipReceive
        <5>2. m # x
          BY <1>1, <4>2, OfferDecides
        <5> QED
          BY <3>5, <5>1, <5>2
      <4>3. CASE UNCHANGED gTodo /\ ~GzipReceive
        BY <3>5, <4>3
      <4>4. GzipPublish \/ GzipSettle \/ GzipForward \/ GzipExit => UNCHANGED gTodo
        BY DEF GzipPublish, GzipSettle, GzipForward, GzipExit
      <4> QED
        BY <2>4, <4>1, <4>2, <4>3, <4>4 DEF Gzip
    <3> HIDE DEF s, f
    <3> QED
      BY <2>1, <3>3, <3>4, <3>5 DEF ToOffer, s, f
  <2>5. CASE Wallet \/ Main \/ Cancel \/ UNCHANGED vars
    <3>1. UNCHANGED <<zTodo, pending, gTodo>>
      BY <2>5, OthersCarry DEF zipVars, gzipVars
    <3> HIDE DEF s, f
    <3>2. BeforeZip(s, f) => BeforeZip(s, f)'
      BY <2>5, OthersCarry
    <3>3. BeforeGzip(s, f) => BeforeGzip(s, f)'
      BY <2>5, OthersCarry
    <3> QED
      BY <2>1, <3>1, <3>2, <3>3 DEF ToOffer, s, f
  <2> QED
    BY <2>2, <2>3, <2>4, <2>5 DEF Next, Returned
<1> QED
  BY <1>3, <1>4

\* What is under way was taken on.
LEMMA StepKnows ==
  ASSUME Shape, StageEnds, Known, [Next]_vars
  PROVE  Known'
<1> USE InputAssumption
<1>1. admitted \subseteq admitted' /\ run' = run
  BY AdmittedGrows, RunFixed
<1>2. /\ Root \in admitted /\ zSlot \cup gSlot \subseteq admitted
      /\ \A t \in Targets : In(t, stack) \/ In(t, scanTargets) => t \in admitted
      /\ covered \subseteq run.bank \cup admitted
      /\ \A r \in published : \E x \in Nested :
           r = Claim(x) /\ Kind[x] # "gzip" /\ (Kind[x] = "entry" => x \in admitted)
  BY DEF Known
<1>3. CASE Reader
  <2>1. UNCHANGED <<zSlot, gSlot, published, admitted>>
    BY <1>3, ReaderLeaves DEF zipVars, gzipVars, histVars
  <2>2. \A t \in Targets : In(t, stack') \/ In(t, scanTargets') => t \in admitted
    <3>1. CASE ReceiveTarget
      BY <1>2, <3>1, Receiving
    <3>2. CASE PushEOF
      BY <1>2, <3>2, Popping DEF PushEOF
    <3>3. CASE UNCHANGED <<stack, scanTargets>>
      BY <1>2, <3>3
    <3> QED
      BY <1>3, <3>1, <3>2, <3>3 DEF Reader, OpenTarget, ReadBlock, SendBlock, DrainDone, SendBarrier,
         AwaitAck, CheckQuiet, FileFrontier, BankTarget, ReportRoot, SendFinal, ReaderExit, queueVars
  <2>3. covered' \subseteq run.bank \cup admitted
    <3>1. CASE BankTarget
      <4>1. covered' \subseteq covered \cup {cur} /\ rpc = "eof"
        BY <3>1 DEF BankTarget
      <4>2. cur \in Targets /\ In(cur, stack)
        BY <4>1, StackCases
      <4> QED
        BY <1>2, <4>1, <4>2
    <3>2. CASE UNCHANGED covered
      BY <1>2, <3>2
    <3> QED
      BY <1>3, <3>1, <3>2 DEF Reader, ReceiveTarget, OpenTarget, ReadBlock, SendBlock, DrainDone, SendBarrier,
         AwaitAck, CheckQuiet, FileFrontier, PushEOF, ReportRoot, SendFinal, ReaderExit, gateVars
  <2> QED
    BY <1>1, <1>2, <2>1, <2>2, <2>3 DEF Known
<1>4. CASE Zip
  <2>1. UNCHANGED <<stack, gSlot>>
    BY <1>4 DEF Zip, ZipReceive, ZipOffer, ZipPublish, ZipSettle, ZipForward, ZipExit, readerVars, gzipVars
  <2>2. /\ zSlot' \subseteq admitted' /\ covered' = covered
    BY <1>1, <1>2, <1>4 DEF Zip, ZipReceive, ZipOffer, ZipPublish, ZipSettle, ZipForward, ZipExit,
       notePolicySkip, GateRefuse, GateAdmit, gateVars
  <2>3. \A t \in Targets : In(t, scanTargets') => t \in admitted
    <3>1. CASE ZipPublish
      <4>1. PICK m \in zSlot : scanTargets' = Append(scanTargets, m)
        BY <3>1 DEF ZipPublish
      <4>2. m \in Targets /\ m \in admitted
        BY <1>2, <4>1 DEF Shape, TypeOK, ZipTypes
      <4> QED
        BY <1>2, <4>1, <4>2, QueueTypesUsed, InAppend
    <3>2. CASE UNCHANGED scanTargets
      BY <1>2, <3>2
    <3> QED
      BY <1>4, <3>1, <3>2 DEF Zip, ZipReceive, ZipOffer, ZipSettle, ZipForward, ZipExit, queueVars
  <2>4. \A r \in published' : \E x \in Nested :
           r = Claim(x) /\ Kind[x] # "gzip" /\ (Kind[x] = "entry" => x \in admitted')
    <3>1. CASE ZipReceive
      <4>1. published' \subseteq published \cup {Claim(x) : x \in Found("zip", Head(zipQ).src, Head(zipQ).n)}
        BY <3>1 DEF ZipReceive
      <4> QED
        BY <1>1, <1>2, <4>1 DEF Found
    <3>2. ASSUME NEW m \in Nested, ZipOffer(m)
          PROVE  \A r \in published' : \E x \in Nested :
                   r = Claim(x) /\ Kind[x] # "gzip" /\ (Kind[x] = "entry" => x \in admitted')
      <4>1. \/ published' = published
            \/ flushing /\ m \in admitted' /\ published' = published \cup {Claim(m)}
        BY <3>2 DEF ZipOffer, GateAdmit
      <4>2. flushing => Kind[m] = "entry"
        BY <3>2 DEF ZipOffer, StageEnds
      <4> QED
        BY <1>1, <1>2, <4>1, <4>2
    <3>3. CASE UNCHANGED published
      BY <1>1, <1>2, <3>3
    <3> QED
      BY <1>4, <3>1, <3>2, <3>3 DEF Zip, ZipPublish, ZipSettle, ZipForward, ZipExit
  <2> QED
    BY <1>1, <1>2, <2>1, <2>2, <2>3, <2>4 DEF Known
<1>5. CASE Gzip
  <2>1. UNCHANGED <<stack, zSlot, published>>
    BY <1>5 DEF Gzip, GzipReceive, GzipOffer, GzipPublish, GzipSettle, GzipForward, GzipExit, readerVars, zipVars
  <2>2. /\ gSlot' \subseteq admitted' /\ covered' = covered
    BY <1>1, <1>2, <1>5 DEF Gzip, GzipReceive, GzipOffer, GzipPublish, GzipSettle, GzipForward, GzipExit,
       notePolicySkip, GateRefuse, GateAdmit, gateVars
  <2>3. \A t \in Targets : In(t, scanTargets') => t \in admitted
    <3>1. CASE GzipPublish
      <4>1. PICK m \in gSlot : scanTargets' = Append(scanTargets, m)
        BY <3>1 DEF GzipPublish
      <4>2. m \in Targets /\ m \in admitted
        BY <1>2, <4>1 DEF Shape, TypeOK, GzipTypes
      <4> QED
        BY <1>2, <4>1, <4>2, QueueTypesUsed, InAppend
    <3>2. CASE UNCHANGED scanTargets
      BY <1>2, <3>2
    <3> QED
      BY <1>5, <3>1, <3>2 DEF Gzip, GzipReceive, GzipOffer, GzipSettle, GzipForward, GzipExit, queueVars
  <2> QED
    BY <1>1, <1>2, <2>1, <2>2, <2>3 DEF Known
<1>6. CASE Wallet \/ Main \/ Cancel \/ UNCHANGED vars
  <2>1. UNCHANGED <<scanTargets, stack, zSlot, gSlot, published, admitted, covered>>
    BY <1>6, OthersCarry DEF readerVars, zipVars, gzipVars
  <2> QED
    BY <1>1, <1>2, <2>1 DEF Known
<1> QED
  BY <1>3, <1>4, <1>5, <1>6 DEF Next, Returned

LEMMA StepStageEnds ==
  ASSUME Shape, EOFFacts, StageEnds, [Next]_vars
  PROVE  StageEnds'
<1> USE ItemKinds
<1>1. /\ zpc # "publish" => zTodo = {}
      /\ gpc # "publish" => gTodo = {}
      /\ wpc # "report" => wHand = Nothing
      /\ signaled => wpc = "gone"
      /\ \A m \in pending : Kind[m] = "entry"
      /\ zHand.kind = "eof" => \A m \in zTodo : Kind[m] = "entry"
      /\ pending # {} => Len(stack) >= 1 \/ NEnds(zipQ) >= 1
  BY DEF StageEnds, flushing
<1>2. zipQ \in ItemQueue /\ NEnds(zipQ) \in Nat /\ Len(stack) \in Nat
  BY CountTypes, EndsFinite
<1>3. CASE Reader
  <2>1. UNCHANGED <<zpc, zTodo, gpc, gTodo, wpc, wHand, signaled, pending, zHand>>
    BY <1>3, ReaderLeaves DEF zipVars, gzipVars, walletVars
  <2>2. Len(stack) >= 1 \/ NEnds(zipQ) >= 1 => Len(stack') >= 1 \/ NEnds(zipQ') >= 1
    <3>1. CASE ReceiveTarget
      <4>1. Len(stack') = Len(stack) + 1
        BY <3>1, AppendProperties, HeadTailProperties, EmptySeq
           DEF ReceiveTarget, Shape, TypeOK, QueueTypes, ReaderTypes
      <4> QED
        BY <1>2, <4>1
    <3>2. CASE PushEOF
      <4>1. NEnds(zipQ') = NEnds(zipQ) + One(EOF.kind = "eof")
        BY <1>2, <3>2, EndsAppend DEF PushEOF
      <4> QED
        BY <1>2, <4>1 DEF One
    <3>3. CASE UNCHANGED stack /\ (UNCHANGED zipQ \/ \E x \in Item : zipQ' = Append(zipQ, x))
      <4>1. CASE UNCHANGED zipQ
        BY <3>3, <4>1
      <4>2. ASSUME NEW x \in Item, zipQ' = Append(zipQ, x) PROVE NEnds(zipQ') >= NEnds(zipQ)
        <5>1. NEnds(zipQ') = NEnds(zipQ) + One(x.kind = "eof")
          BY <1>2, <4>2, EndsAppend
        <5> QED
          BY <1>2, <5>1 DEF One
      <4>3. UNCHANGED zipQ \/ NEnds(zipQ') >= NEnds(zipQ)
        BY <3>3, <4>2
      <4>4. CASE NEnds(zipQ') >= NEnds(zipQ)
        <5>1. zipQ' \in ItemQueue /\ NEnds(zipQ') \in Nat
          BY StepKeepsShape, EndsFinite DEF Shape, TypeOK, QueueTypes
        <5> QED
          BY <1>2, <3>3, <4>4, <5>1
      <4> QED
        BY <4>1, <4>3, <4>4
    <3>4. CASE SendBlock
      <4>1. cur \in Targets /\ pos[cur] \in Nat
        BY <3>4, StackCases DEF SendBlock, Shape, TypeOK, ReaderTypes
      <4> QED
        BY <3>3, <3>4, <4>1 DEF SendBlock
    <3>5. CASE SendBarrier
      BY <3>3, <3>5 DEF SendBarrier
    <3> QED
      BY <1>3, <3>1, <3>2, <3>3, <3>4, <3>5 DEF Reader, OpenTarget, ReadBlock, DrainDone,
         AwaitAck, CheckQuiet, FileFrontier, BankTarget, ReportRoot, SendFinal, ReaderExit, queueVars
  <2> QED
    BY <1>1, <2>1, <2>2 DEF StageEnds, flushing
<1>4. CASE Zip
  <2>1. UNCHANGED <<gpc, gTodo, wpc, wHand, signaled, stack>>
    BY <1>4 DEF Zip, ZipReceive, ZipOffer, ZipPublish, ZipSettle, ZipForward, ZipExit,
       readerVars, gzipVars, walletVars, signalVars
  <2>2. CASE ZipReceive
    <3> DEFINE item == Head(zipQ)
    <3>1. /\ zpc = "recv" /\ zipQ # <<>> /\ zipQ' = Tail(zipQ) /\ zHand' = item /\ item \in Item
      BY <1>2, <2>2, HeadTailProperties, EmptySeq DEF ZipReceive, ItemQueue
    <3>2. zTodo = {}
      BY <1>1, <3>1
    <3>3. Tail(zipQ) \in ItemQueue /\ NEnds(Tail(zipQ)) \in Nat
          /\ NEnds(zipQ) = NEnds(Tail(zipQ)) + One(item.kind = "eof")
      <4>1. Tail(zipQ) \in ItemQueue
        BY <1>2, <3>1, HeadTailProperties, EmptySeq DEF ItemQueue
      <4> QED
        BY <1>2, <3>1, <4>1, EndsTail, EndsFinite
    <3>4. item.kind # "eof" => Len(stack) >= 1 \/ NEnds(zipQ') >= 1
      <4>1. Len(stack) >= 1 \/ EndsWithEOF(zipQ)
        BY <3>1 DEF EOFFacts, ZipFollowed
      <4>2. EndsWithEOF(zipQ) => NEnds(zipQ) >= 1
        BY <1>2, EndsLast
      <4> QED
        BY <3>1, <3>3, <4>1, <4>2 DEF One
    <3> HIDE DEF item
    <3>5. CASE item.kind = "barrier"
      <4>1. zpc' = "send" /\ UNCHANGED <<zTodo, pending>>
        BY <2>2, <3>5 DEF ZipReceive, item
      <4> QED
        BY <1>1, <2>1, <3>1, <3>2, <3>4, <3>5, <4>1 DEF StageEnds, flushing
    <3>6. CASE item.kind = "eof"
      <4>1. zpc' = "publish" /\ zTodo' = pending /\ pending' = {}
        BY <2>2, <3>6 DEF ZipReceive, item
      <4> QED
        BY <1>1, <2>1, <3>1, <3>6, <4>1 DEF StageEnds, flushing
    <3>7. CASE item.kind = "block"
      <4>1. zpc' = "publish" /\ pending' = pending \cup Found("entry", item.src, item.n)
        BY <2>2, <3>7 DEF ZipReceive, item
      <4>2. \A m \in pending' : Kind[m] = "entry"
        BY <1>1, <4>1 DEF Found
      <4> QED
        BY <1>1, <2>1, <3>1, <3>4, <3>7, <4>1, <4>2 DEF StageEnds, flushing
    <3> QED
      BY <3>1, <3>5, <3>6, <3>7
  <2>3. ASSUME NEW m \in Nested, ZipOffer(m) PROVE StageEnds'
    <3>1. zpc = "publish" /\ zTodo' = zTodo \ {m} /\ UNCHANGED <<zpc, zHand, pending, zipQ>>
      BY <2>3 DEF ZipOffer, queueVars
    <3> QED
      BY <1>1, <2>1, <3>1 DEF StageEnds, flushing
  <2>4. CASE ZipSettle
    <3>1. zpc = "publish" /\ zTodo = {} /\ UNCHANGED <<zTodo, pending, zipQ>>
      BY <2>4 DEF ZipSettle, queueVars
    <3> QED
      BY <1>1, <2>1, <3>1 DEF StageEnds, flushing
  <2>5. CASE ZipPublish
    <3>1. UNCHANGED <<zpc, zHand, zTodo, pending, zipQ>>
      BY <2>5 DEF ZipPublish
    <3> QED
      BY <1>1, <2>1, <3>1 DEF StageEnds, flushing
  <2>6. CASE ZipForward \/ ZipExit
    <3>1. zpc # "publish" /\ UNCHANGED <<zTodo, pending, zipQ>>
      BY <2>6 DEF ZipForward, ZipExit, queueVars
    <3> QED
      BY <1>1, <2>1, <3>1 DEF StageEnds, flushing
  <2> QED
    BY <1>4, <2>2, <2>3, <2>4, <2>5, <2>6 DEF Zip
<1>5. CASE Gzip
  <2>1. UNCHANGED <<zpc, zTodo, zHand, pending, wpc, wHand, signaled, stack, zipQ>>
    BY <1>5 DEF Gzip, GzipReceive, GzipOffer, GzipPublish, GzipSettle, GzipForward, GzipExit,
       readerVars, zipVars, walletVars, signalVars, queueVars
  <2>2. gpc' # "publish" => gTodo' = {}
    <3>1. CASE GzipReceive
      <4>1. Head(gzipQ).kind = "barrier" => Head(gzipQ).kind # "block"
        OBVIOUS
      <4> QED
        BY <3>1, <4>1 DEF GzipReceive
    <3>2. ASSUME NEW m \in Nested, GzipOffer(m) PROVE gpc' = "publish"
      BY <3>2 DEF GzipOffer
    <3> QED
      BY <1>1, <1>5, <3>1, <3>2 DEF Gzip, GzipPublish, GzipSettle, GzipForward, GzipExit
  <2> QED
    BY <1>1, <2>1, <2>2 DEF StageEnds, flushing
<1>6. CASE Wallet
  <2>1. UNCHANGED <<zpc, zTodo, zHand, pending, gpc, gTodo, stack, zipQ>>
    BY <1>6, OthersCarry DEF readerVars, zipVars, gzipVars
  <2>2. /\ wpc' # "report" => wHand' = Nothing
        /\ signaled' => wpc' = "gone"
    <3>1. CASE WalletReceive
      <4>1. \/ wpc' = "gone" /\ UNCHANGED wHand
            \/ UNCHANGED <<wpc, wHand, signaled>>
            \/ wpc' = "report" /\ UNCHANGED signaled
        BY <3>1 DEF WalletReceive
      <4>2. wpc = "recv"
        BY <3>1 DEF WalletReceive
      <4> QED
        BY <1>1, <4>1, <4>2
    <3>2. CASE WalletReport
      BY <1>1, <3>2 DEF WalletReport, signalVars
    <3>3. CASE WalletExit
      BY <1>1, <3>3 DEF WalletExit, signalVars
    <3> QED
      BY <1>6, <3>1, <3>2, <3>3 DEF Wallet
  <2> QED
    BY <1>1, <2>1, <2>2 DEF StageEnds, flushing
<1>7. CASE Main \/ Cancel \/ UNCHANGED vars
  <2>1. UNCHANGED <<zpc, zTodo, zHand, pending, gpc, gTodo, stack, zipQ>>
    BY <1>7, OthersCarry DEF readerVars, zipVars, gzipVars
  <2>2. UNCHANGED <<wpc, wHand, signaled>>
    BY <1>7 DEF Main, MainSignal, MainCancel, MainRoot, MainFail, MainComplete, Cancel, vars,
       walletVars, signalVars
  <2> QED
    BY <1>1, <2>1, <2>2 DEF StageEnds, flushing
<1> QED
  BY <1>3, <1>4, <1>5, <1>6, <1>7 DEF Next, Returned

\* The last EOF stays reported, and only runPipeline decides how the scan ends.
LEMMA SignalStays == ASSUME Next \/ UNCHANGED vars, signaled PROVE signaled'
<1>1. CASE Wallet
  BY <1>1 DEF Wallet, WalletReceive, WalletReport, WalletExit, signalVars
<1>2. CASE Zip
  BY <1>2 DEF Zip, ZipReceive, ZipOffer, ZipPublish, ZipSettle, ZipForward, ZipExit, signalVars
<1>3. CASE Gzip
  BY <1>3 DEF Gzip, GzipReceive, GzipOffer, GzipPublish, GzipSettle, GzipForward, GzipExit, signalVars
<1>4. CASE Main \/ Cancel \/ UNCHANGED vars
  BY <1>4 DEF Main, MainSignal, MainCancel, MainRoot, MainFail, MainComplete, Cancel, vars, signalVars
<1> QED
  BY <1>1, <1>2, <1>3, <1>4, ReaderLeaves DEF Next, Returned

LEMMA MainDecides == ASSUME Next \/ UNCHANGED vars, ~Main PROVE UNCHANGED <<mpc, outcome>>
<1>1. CASE Reader
  BY <1>1, ReaderLeaves DEF mainVars
<1>2. CASE Zip
  BY <1>2 DEF Zip, ZipReceive, ZipOffer, ZipPublish, ZipSettle, ZipForward, ZipExit, mainVars
<1>3. CASE Gzip
  BY <1>3 DEF Gzip, GzipReceive, GzipOffer, GzipPublish, GzipSettle, GzipForward, GzipExit, mainVars
<1>4. CASE Wallet \/ Cancel \/ UNCHANGED vars
  BY <1>4 DEF Wallet, WalletReceive, WalletReport, WalletExit, Cancel, vars, mainVars
<1> QED
  BY <1>1, <1>2, <1>3, <1>4 DEF Next, Returned

\* Once the last EOF is reported, no stage has anything to refuse.
LEMMA StepSettles ==
  ASSUME Shape, FirstEOFIsLast, RootInv, Settled, [Next]_vars
  PROVE  Settled'
<1>1. RootSound' <=> RootSound
  BY RunFixed, DueFixed, InputAssumption DEF RootSound
<1>2. signaled => signaled'
  BY SignalStays
<1>3. signaled => refused' = refused
  <2>1. SUFFICES ASSUME signaled PROVE refused' = refused
    OBVIOUS
  <2>2. zpc # "publish" /\ gpc # "publish"
    BY <2>1, ItemKinds DEF FirstEOFIsLast, Shape, StageShape
  <2>3. CASE Zip
    BY <2>2, <2>3 DEF Zip, ZipReceive, ZipOffer, ZipPublish, ZipSettle, ZipForward, ZipExit, gateVars
  <2>4. CASE Gzip
    BY <2>2, <2>4 DEF Gzip, GzipReceive, GzipOffer, GzipPublish, GzipSettle, GzipForward, GzipExit, gateVars
  <2> QED
    BY <2>3, <2>4, ReaderLeaves, OthersCarry DEF Next, Returned
<1>4. CASE Main
  <2>1. UNCHANGED <<signaled, refused>>
    BY <1>4 DEF Main, MainSignal, MainCancel, MainRoot, MainFail, MainComplete, signalVars, gateVars
  <2>2. CASE MainSignal
    BY <1>1, <2>1, <2>2 DEF MainSignal, Settled
  <2>3. CASE MainCancel
    BY <2>3 DEF MainCancel, Settled
  <2>4. CASE MainRoot
    <3>1. mpc' = "final" => RootSound /\ refused = {}
      BY <2>4 DEF MainRoot, RootInv, Shape, TypeOK, SignalTypes
    <3> QED
      BY <1>1, <2>1, <2>4, <3>1 DEF MainRoot, Settled
  <2>5. CASE MainFail
    BY <2>5 DEF MainFail, Settled
  <2>6. CASE MainComplete
    BY <1>1, <2>1, <2>6 DEF MainComplete, Settled
  <2> QED
    BY <1>4, <2>2, <2>3, <2>4, <2>5, <2>6 DEF Main
<1>5. CASE UNCHANGED <<mpc, outcome>>
  BY <1>1, <1>2, <1>3, <1>5 DEF Settled
<1> QED
  BY <1>4, <1>5, MainDecides

LEMMA StepKeepsRoot ==
  ASSUME Shape, Past, RootInv, [Next]_vars
  PROVE  Past' /\ RootInv'
<1>1. CASE Reader
  BY <1>1, ReaderPast, ReaderRoot
<1>2. CASE UNCHANGED <<readerVars, rootDone>>
  <2>1. UNCHANGED <<rpc, stack, pos, rootErr, rootDone>> /\ cur' = cur /\ run' = run
    BY <1>2, SameCur, RunFixed DEF readerVars
  <2>2. Past'
    BY <2>1 DEF Past, ReadFrom, In
  <2>3. (RootSound' <=> RootSound) /\ (\A n : Uncut(n)' <=> Uncut(n)) /\ (RootRead' <=> RootRead)
    BY <2>1, DueFixed, InputAssumption DEF RootSound, Uncut, RootRead
  <2>4. RootInv'
    BY <2>1, <2>3 DEF RootInv, In
  <2> QED
    BY <2>2, <2>4
<1>3. ASSUME ~Reader PROVE UNCHANGED <<readerVars, rootDone>>
  <2>1. CASE Zip
    BY <2>1 DEF Zip, ZipReceive, ZipOffer, ZipPublish, ZipSettle, ZipForward, ZipExit, signalVars
  <2>2. CASE Gzip
    BY <2>2 DEF Gzip, GzipReceive, GzipOffer, GzipPublish, GzipSettle, GzipForward, GzipExit, signalVars
  <2>3. CASE Wallet
    BY <2>3 DEF Wallet, WalletReceive, WalletReport, WalletExit, signalVars
  <2>4. CASE Main \/ Cancel \/ UNCHANGED vars
    BY <2>4 DEF Main, MainSignal, MainCancel, MainRoot, MainFail, MainComplete, Cancel, vars, signalVars
  <2> QED
    BY <1>3, <2>1, <2>2, <2>3, <2>4 DEF Next, Returned
<1> QED
  BY <1>1, <1>2, <1>3

-----------------------------------------------------------------------------
(* The theorem.                                                            *)

\* Once the last EOF is reported, what was taken on has been read, and what it
\* owes was taken on or refused.
LEMMA SignaledMeansRead ==
  ASSUME Shape, EOFFacts, CompletionInv, signaled
  PROVE  /\ Root \in admitted /\ \A t \in admitted : Read(t)
         /\ \A m \in Nested : Source[m] \in admitted /\ Owed(m) => m \in admitted \cup refused
<1>2. /\ scanTargets = <<>> /\ stack = <<>> /\ zSlot = {} /\ gSlot = {}
      /\ zipQ = <<>> /\ gzipQ = <<>> /\ walletQ = <<>> /\ zHand = Nothing /\ gHand = Nothing
  BY EOFFactsSuffice DEF FirstEOFIsLast
<1>3. zpc # "publish" /\ gpc # "publish"
  BY <1>2, ItemKinds DEF Shape, StageShape
<1>4. zTodo = {} /\ gTodo = {} /\ wHand = Nothing /\ pending = {}
  <2>1. NEnds(zipQ) = 0 /\ Len(stack) = 0
    BY <1>2, EndsEmpty
  <2>2. wpc = "gone"
    BY DEF CompletionInv, StageEnds
  <2> QED
    BY <1>3, <2>1, <2>2 DEF CompletionInv, StageEnds
<1>5. ASSUME NEW t \in Targets, NEW n \in Nat PROVE ~OnItsWay(t, n)
  BY <1>2, <1>4, InNone, BlockNames DEF OnItsWay, BeforeGzip, BeforeZip, ToRead
<1>6. \A t \in admitted : Read(t)
  <2>1. ASSUME NEW t \in admitted, NEW n \in DueBlocks(t) PROVE <<t, n>> \in delivered
    <3>1. t \in Targets
      BY DEF Shape, TypeOK, HistTypes
    <3>2. n \in Nat
      BY <3>1, DueFacts
    <3> QED
      BY <1>5, <3>1, <3>2 DEF CompletionInv, Carried
  <2> QED
    BY <2>1 DEF Read
<1>7. ASSUME NEW m \in Nested, Source[m] \in admitted, Owed(m) PROVE m \in admitted \cup refused
  <2>1. Source[m] \in Targets /\ FoundAt[m] \in Nat
    BY InputAssumption
  <2>2. ~ToOffer(m)
    BY <1>4, <1>5, <2>1 DEF ToOffer, OnItsWay, BeforeGzip
  <2> QED
    BY <1>7, <2>2 DEF CompletionInv, Offered
<1>8. Root \in admitted
  BY DEF CompletionInv, Known
<1> QED
  BY <1>6, <1>7, <1>8

LEMMA CompletionSuffices ==
  ASSUME Shape, EOFFacts, CompletionInv
  PROVE  CompleteMeansRead
<1>1. ASSUME outcome = "complete" PROVE signaled /\ refused = {} /\ RootSound
  BY <1>1 DEF CompletionInv, Settled
<1> QED
  BY <1>1, SignaledMeansRead DEF CompleteMeansRead

LEMMA StepKeepsCompletion ==
  ASSUME Shape, EOFFacts, CompletionInv, [Next]_vars
  PROVE  CompletionInv'
<1>1. Carried /\ Offered /\ Known /\ StageEnds /\ Past /\ RootInv /\ Settled
  BY DEF CompletionInv
<1>2. Carried' /\ Offered' /\ Known'
  BY <1>1, StepCarries, StepOffers, StepKnows
<1>3. StageEnds' /\ Past' /\ RootInv'
  BY <1>1, StepStageEnds, StepKeepsRoot
<1>4. Settled'
  BY <1>1, EOFFactsSuffice, StepSettles
<1> QED
  BY <1>2, <1>3, <1>4 DEF CompletionInv

\* Whatever the input and however the four goroutines interleave, a scan that
\* runPipeline calls complete had a sound root, reported every readable block
\* of every target it took on, and took on every member that such a block
\* reveals and no policy, archive or earlier run spares: nothing waits in a
\* queue, a hand or the candidates of the zip stage when success is decided.
THEOREM CompletionIsReading == Spec => []CompleteMeansRead
<1>1. Init => Shape /\ EOFFacts /\ CompletionInv
  BY InitStarts, InitShape, InitEOFFacts, InitCompletion
<1>2. Shape /\ EOFFacts /\ CompletionInv /\ [Next]_vars => (Shape /\ EOFFacts /\ CompletionInv)'
  BY StepKeepsShape, StepKeepsEOFFacts, StepKeepsCompletion
<1>3. Shape /\ EOFFacts /\ CompletionInv => CompleteMeansRead
  BY CompletionSuffices
<1> QED
  BY <1>1, <1>2, <1>3, PTL DEF Spec
=============================================================================
