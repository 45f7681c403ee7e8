--------------------------- MODULE FrontierProofs ---------------------------
(* For every tree of targets and every capacity: a point that is filed passes *)
(* nothing that was due and not reported, and an error leaves a journal from  *)
(* which a retry reaches what was refused; over many runs, killed and         *)
(* retried, nothing is lost; and a scan keeps ScanContract, its contract. The *)
(* recursive definitions over the tree come first, then the barrier that a    *)
(* drain sends, then what a step that writes the journal strands, then the    *)
(* runs, then the order of the blocks on their way to the report.             *)
EXTENDS PipelineProofs, Resume

USE DEF Nested

-----------------------------------------------------------------------------
(* The tree of targets.                                                    *)

\* What holds of the root, and of a target when it holds of its source, holds
\* of every target.
LEMMA TreeInduction ==
  ASSUME NEW S, Root \in S, \A m \in Nested : Source[m] \in S => m \in S
  PROVE  Targets \subseteq S
<1> DEFINE R == Targets \ S
<1>1. R \in SUBSET Nested OBVIOUS
<1>2. \A m \in R : Source[m] \in R BY <1>1, InputAssumption
<1>3. R = {} BY <1>1, <1>2, SourceAssumption
<1> QED BY <1>3

\* A function over the tree is given by its value at the root and its value at
\* a target in terms of that at the source.
LEMMA TreeRecursion ==
  ASSUME NEW V, NEW a \in V, NEW G \in [Nested -> [V -> V]]
  PROVE  \E f \in [Targets -> V] : f[Root] = a /\ \A m \in Nested : f[m] = G[m][f[Source[m]]]
<1> USE InputAssumption
<1> DEFINE Down(S) == S \subseteq Targets /\ Root \in S /\ \A m \in S \ {Root} : Source[m] \in S
           Sat(S, f) == f \in [S -> V] /\ f[Root] = a /\ \A m \in S \ {Root} : f[m] = G[m][f[Source[m]]]
<1>1. ASSUME NEW S, NEW f, NEW T, NEW g, Down(S), Sat(S, f), Down(T), Sat(T, g)
      PROVE  \A t \in S \cap T : f[t] = g[t]
  <2> DEFINE E == {t \in Targets : t \in S \cap T => f[t] = g[t]}
  <2>1. Root \in E BY <1>1
  <2>2. ASSUME NEW m \in Nested, Source[m] \in E PROVE m \in E
    BY <1>1, <2>2
  <2>3. Targets \subseteq E BY <2>1, <2>2, TreeInduction
  <2> QED BY <2>3, <1>1
<1>2. ASSUME NEW t \in Targets PROVE \E S, f : Down(S) /\ t \in S /\ Sat(S, f)
  <2> DEFINE E == {u \in Targets : \E S, f : Down(S) /\ u \in S /\ Sat(S, f)}
  <2>1. Root \in E
    <3>1. Down({Root}) /\ Sat({Root}, [x \in {Root} |-> a]) OBVIOUS
    <3> HIDE DEF Down, Sat
    <3> QED BY <3>1
  <2>2. ASSUME NEW m \in Nested, Source[m] \in E PROVE m \in E
    <3>1. PICK S, f : Down(S) /\ Source[m] \in S /\ Sat(S, f) BY <2>2
    <3>2. CASE m \in S
      <4> HIDE DEF Down, Sat
      <4> QED BY <3>1, <3>2
    <3>3. CASE m \notin S
      <4> DEFINE h == [x \in S \cup {m} |-> IF x = m THEN G[m][f[Source[m]]] ELSE f[x]]
      <4>1. Down(S \cup {m}) BY <3>1
      <4>2. f[Source[m]] \in V BY <3>1
      <4>3. G[m][f[Source[m]]] \in V BY <4>2
      <4>4. h \in [S \cup {m} -> V] BY <3>1, <4>3
      <4>5. h[Root] = a BY <3>1, <3>3
      <4>6. ASSUME NEW x \in (S \cup {m}) \ {Root} PROVE h[x] = G[x][h[Source[x]]]
        <5>1. CASE x = m
          <6>1. h[m] = G[m][f[Source[m]]] OBVIOUS
          <6>2. h[Source[m]] = f[Source[m]] BY <3>1, <3>3
          <6> QED BY <5>1, <6>1, <6>2
        <5>2. CASE x # m
          <6>1. x \in S /\ Source[x] \in S /\ Source[x] # m BY <3>1, <3>3, <5>2
          <6>2. h[x] = f[x] /\ h[Source[x]] = f[Source[x]] BY <5>2, <6>1
          <6> QED BY <3>1, <6>1, <6>2
        <5> QED BY <5>1, <5>2
      <4> HIDE DEF h
      <4>7. Sat(S \cup {m}, h) BY <4>4, <4>5, <4>6
      <4>8. m \in S \cup {m} OBVIOUS
      <4> HIDE DEF Down, Sat
      <4> QED BY <4>1, <4>7, <4>8
    <3> QED BY <3>2, <3>3
  <2> HIDE DEF E
  <2>3. Targets \subseteq E BY <2>1, <2>2, TreeInduction
  <2> USE DEF E
  <2> HIDE DEF Down, Sat
  <2> QED BY <2>3
<1> DEFINE Value(t, v) == \E S, f : Down(S) /\ t \in S /\ Sat(S, f) /\ v = f[t]
           H(t) == CHOOSE v : Value(t, v)
           F == [t \in Targets |-> H(t)]
<1>3. ASSUME NEW t \in Targets, NEW S, NEW f, Down(S), t \in S, Sat(S, f)
      PROVE  F[t] = f[t]
  <2> HIDE DEF Down, Sat
  <2>1. Value(t, f[t]) BY <1>3
  <2>2. \A v : Value(t, v) => v = f[t] BY <1>1, <1>3
  <2> HIDE DEF Value
  <2>3. H(t) = f[t] BY <2>1, <2>2
  <2> QED BY <2>3
<1> HIDE DEF H
<1> HIDE DEF F
<1>4. ASSUME NEW t \in Targets PROVE F[t] \in V
  <2>1. PICK S, f : Down(S) /\ t \in S /\ Sat(S, f) BY <1>2
  <2>2. F[t] = f[t] BY <1>3, <2>1
  <2>3. f[t] \in V BY <2>1
  <2> QED BY <2>2, <2>3
<1>5. F[Root] = a
  <2>1. PICK S, f : Down(S) /\ Root \in S /\ Sat(S, f) BY <1>2
  <2>2. F[Root] = f[Root] BY <1>3, <2>1
  <2>3. f[Root] = a BY <2>1
  <2> QED BY <2>2, <2>3
<1>6. ASSUME NEW m \in Nested PROVE F[m] = G[m][F[Source[m]]]
  <2>1. PICK S, f : Down(S) /\ m \in S /\ Sat(S, f) BY <1>2
  <2>2. Source[m] \in S /\ Source[m] \in Targets BY <2>1
  <2>3. F[m] = f[m] BY <1>3, <2>1
  <2>4. F[Source[m]] = f[Source[m]] BY <1>3, <2>1, <2>2
  <2>5. f[m] = G[m][f[Source[m]]] BY <2>1
  <2> QED BY <2>3, <2>4, <2>5
<1>7. F \in [Targets -> V]
  <2>1. ASSUME NEW t \in Targets PROVE H(t) \in V BY <1>4 DEF F
  <2> QED BY <2>1 DEF F
<1> QED BY <1>5, <1>6, <1>7

\* The recursive functions of the model, unfolded once.
LEMMA AncestorsUnfold ==
  /\ Ancestors \in [Targets -> SUBSET Targets]
  /\ Ancestors[Root] = {}
  /\ \A m \in Nested : Ancestors[m] = {Source[m]} \cup Ancestors[Source[m]]
<1> DEFINE P(f) == f = [t \in Targets |-> IF t = Root THEN {} ELSE {Source[t]} \cup f[Source[t]]]
           G == [m \in Nested |-> [v \in SUBSET Targets |-> {Source[m]} \cup v]]
<1>1. G \in [Nested -> [SUBSET Targets -> SUBSET Targets]] BY InputAssumption
<1>2. PICK f \in [Targets -> SUBSET Targets] :
        f[Root] = {} /\ \A m \in Nested : f[m] = G[m][f[Source[m]]]
  <2> DEFINE V == SUBSET Targets
             a == {}
  <2>1. a \in V OBVIOUS
  <2>2. G \in [Nested -> [V -> V]] BY <1>1
  <2> HIDE DEF G, V, a, Nested
  <2>3. ASSUME NEW g \in [Nested -> [V -> V]]
        PROVE  \E f \in [Targets -> V] : f[Root] = a /\ \A m \in Nested : f[m] = g[m][f[Source[m]]]
    BY <2>1, TreeRecursion
  <2> QED BY <2>2, <2>3 DEF V, a
<1> USE InputAssumption
<1>3. \A m \in Nested : f[m] = {Source[m]} \cup f[Source[m]] BY <1>2
<1>4. P(f) BY <1>2, <1>3
<1>5. Ancestors = CHOOSE g : P(g) BY DEF Ancestors
<1>6. P(Ancestors)
  <2> HIDE DEF P
  <2> QED BY <1>4, <1>5
<1>7. \A t \in Targets : Ancestors[t] = IF t = Root THEN {} ELSE {Source[t]} \cup Ancestors[Source[t]]
  BY <1>6
<1> DEFINE E == {t \in Targets : Ancestors[t] \subseteq Targets}
<1>8. Root \in E BY <1>7
<1>9. ASSUME NEW m \in Nested, Source[m] \in E PROVE m \in E BY <1>7, <1>9
<1>10. Targets \subseteq E BY <1>8, <1>9, TreeInduction
<1>11. Ancestors \in [Targets -> SUBSET Targets]
  <2>1. DOMAIN Ancestors = Targets BY <1>6
  <2>2. Ancestors = [t \in Targets |-> Ancestors[t]] BY <1>6
  <2> QED BY <1>10, <2>2
<1> QED BY <1>7, <1>11

LEMMA RootBlockUnfold ==
  /\ \A m \in Nested : RootBlock[m] \in Nat
  /\ \A m \in Nested : RootBlock[m] = IF Source[m] = Root THEN FoundAt[m] ELSE RootBlock[Source[m]]
<1> DEFINE P(f) == f = [t \in Targets |-> IF t = Root THEN 0 ELSE IF Source[t] = Root THEN FoundAt[t]
                                          ELSE f[Source[t]]]
           G == [m \in Nested |-> [v \in Nat |-> IF Source[m] = Root THEN FoundAt[m] ELSE v]]
<1>1. G \in [Nested -> [Nat -> Nat]] BY InputAssumption
<1>2. PICK f \in [Targets -> Nat] : f[Root] = 0 /\ \A m \in Nested : f[m] = G[m][f[Source[m]]]
  <2> DEFINE V == Nat
             a == 0
  <2>1. a \in V OBVIOUS
  <2>2. G \in [Nested -> [V -> V]] BY <1>1
  <2> HIDE DEF G, V, a, Nested
  <2>3. ASSUME NEW g \in [Nested -> [V -> V]]
        PROVE  \E f \in [Targets -> V] : f[Root] = a /\ \A m \in Nested : f[m] = g[m][f[Source[m]]]
    BY <2>1, TreeRecursion
  <2> QED BY <2>2, <2>3 DEF V, a
<1> USE InputAssumption
<1>3. \A m \in Nested : f[m] = IF Source[m] = Root THEN FoundAt[m] ELSE f[Source[m]] BY <1>2
<1>4. P(f) BY <1>2, <1>3
<1>5. RootBlock = CHOOSE g : P(g) BY DEF RootBlock
<1>6. P(RootBlock)
  <2> HIDE DEF P
  <2> QED BY <1>4, <1>5
<1>7. \A t \in Targets : RootBlock[t] = IF t = Root THEN 0 ELSE IF Source[t] = Root THEN FoundAt[t]
                                          ELSE RootBlock[Source[t]]
  BY <1>6
<1> DEFINE E == {t \in Targets : RootBlock[t] \in Nat}
<1>8. Root \in E BY <1>7
<1>9. ASSUME NEW m \in Nested, Source[m] \in E PROVE m \in E BY <1>7, <1>9
<1>10. Targets \subseteq E BY <1>8, <1>9, TreeInduction
<1> QED BY <1>7, <1>10

\* What is due is due from its source.
DueSpreads ==
  /\ \A t \in Targets : Due[t] \in BOOLEAN
  /\ Due[Root]
  /\ \A m \in Nested : Due[m] <=> Due[Source[m]] /\ Owed(m)

LEMMA DueUnfold == DueSpreads
<1> DEFINE O(m) == Owed(m)
           P(f) == f = [t \in Targets |-> t = Root \/ (f[Source[t]] /\ O(t))]
           G == [m \in Nested |-> [v \in BOOLEAN |-> v /\ O(m)]]
<1>1. Due = CHOOSE g : P(g) BY DEF Due
<1> HIDE DEF O
<1>2. G \in [Nested -> [BOOLEAN -> BOOLEAN]] OBVIOUS
<1>3. PICK f \in [Targets -> BOOLEAN] : f[Root] = TRUE /\ \A m \in Nested : f[m] = G[m][f[Source[m]]]
  <2> DEFINE V == BOOLEAN
             a == TRUE
  <2>1. a \in V OBVIOUS
  <2>2. G \in [Nested -> [V -> V]] BY <1>2
  <2> HIDE DEF G, V, a, Nested
  <2>3. ASSUME NEW g \in [Nested -> [V -> V]]
        PROVE  \E f \in [Targets -> V] : f[Root] = a /\ \A m \in Nested : f[m] = g[m][f[Source[m]]]
    BY <2>1, TreeRecursion
  <2> QED BY <2>2, <2>3 DEF V, a
<1> USE InputAssumption
<1>4. \A m \in Nested : f[m] = (f[Source[m]] /\ O(m)) BY <1>3
<1>5. P(f) BY <1>3, <1>4
<1>6. P(Due)
  <2> HIDE DEF P
  <2> QED BY <1>1, <1>5
<1>7. \A t \in Targets : Due[t] = (t = Root \/ (Due[Source[t]] /\ O(t)))
  BY <1>6
<1> QED BY <1>7 DEF O, DueSpreads

-----------------------------------------------------------------------------
(* Why a mid-root point strands nothing: the parts of the invariant.       *)

\* A queue holds a barrier only behind everything else in it.
OnlyLast(q) == \A i \in 1 .. Len(q) : q[i].kind = "barrier" => i = Len(q)
EndsWithBarrier(q) == q # <<>> /\ q[Len(q)].kind = "barrier"

Waiting   == rpc = "ack" /\ ~acked
ZipClear  == zipQ = <<>> /\ zHand = Nothing
GzipClear == ZipClear /\ gzipQ = <<>> /\ gHand = Nothing
AllClear  == GzipClear /\ walletQ = <<>> /\ wHand = Nothing

\* While the reader lives, a barrier is under way only while it waits, and
\* everything the barrier has passed is empty.
BarrierInv ==
  rpc # "gone" =>
    /\ OnlyLast(zipQ) /\ OnlyLast(gzipQ) /\ OnlyLast(walletQ)
    /\ EndsWithBarrier(zipQ) => Waiting
    /\ zHand.kind = "barrier" => Waiting /\ zipQ = <<>>
    /\ EndsWithBarrier(gzipQ) => Waiting /\ ZipClear
    /\ gHand.kind = "barrier" => Waiting /\ ZipClear /\ gzipQ = <<>>
    /\ EndsWithBarrier(walletQ) => Waiting /\ GzipClear
    /\ acked => rpc = "ack"
    /\ acked \/ rpc \in {"quiet", "file"} => AllClear
    /\ rpc = "file" => scanTargets = <<>> /\ refused = {}

\* Blocks of a nested target, and candidates found in one, are followed by an
\* EOF, in the queue or still to be pushed.
NestedRead  == \E m \in Nested : In(m, stack)
EOFAfter(q, i) == \E j \in i + 1 .. Len(q) : q[j].kind = "eof"
NestedFollowed ==
  /\ \A i \in 1 .. Len(zipQ) :
       zipQ[i].kind = "block" /\ zipQ[i].src # Root => NestedRead \/ EOFAfter(zipQ, i)
  /\ \A m \in pending : Source[m] # Root => NestedRead \/ EOFAfter(zipQ, 0)

\* What was refused left its mark at the gate.
RefusalMarked ==
  /\ \A m \in zTodo : Kind[m] = "entry" => flushing
  /\ \A m \in gTodo : Kind[m] = "gzip"
  /\ \A m \in refused : Lineage(m) \subseteq poisoned /\ (Kind[m] = "entry" => deferredSkipped)

\* All due up to block "at" of the root has been reported.
Passed(at) ==
  /\ \A n \in DueBlocks(Root) : n <= at => <<Root, n>> \in delivered
  /\ \A t \in Nested \ RootEntries : Due[t] /\ RootBlock[t] <= at => Read(t)
PointProven == lastFiled > 0 => Passed(lastFiled)

ErrorSettled == outcome = "error" => mpc = "done" /\ signaled

FrontierInv ==
  /\ BarrierInv /\ NestedFollowed /\ RefusalMarked
  /\ PointProven /\ ErrorSettled /\ FrontierProven /\ ErrorKeepsRefusedReachable

-----------------------------------------------------------------------------
(* The barrier.                                                            *)

LEMMA BarrierAppended ==
  ASSUME NEW q \in Seq(Item), NEW x \in Item, OnlyLast(q), ~EndsWithBarrier(q)
  PROVE  OnlyLast(Append(q, x)) /\ (EndsWithBarrier(Append(q, x)) <=> x.kind = "barrier")
<1> DEFINE p == Append(q, x)
<1>1. /\ Len(q) \in Nat /\ Len(p) = Len(q) + 1 /\ p[Len(q) + 1] = x /\ p # <<>>
      /\ \A i \in 1 .. Len(q) : p[i] = q[i]
  BY AppendProperties
<1>2. \A i \in 1 .. Len(q) : q[i].kind # "barrier"
  BY <1>1, EmptySeq DEF OnlyLast, EndsWithBarrier
<1> HIDE DEF p
<1>3. OnlyLast(p)
  BY <1>1, <1>2 DEF OnlyLast
<1>4. EndsWithBarrier(p) <=> x.kind = "barrier"
  BY <1>1 DEF EndsWithBarrier
<1> QED
  BY <1>3, <1>4 DEF p

LEMMA BarrierTail ==
  ASSUME NEW q \in Seq(Item), q # <<>>, OnlyLast(q)
  PROVE  /\ OnlyLast(Tail(q)) /\ (EndsWithBarrier(Tail(q)) => EndsWithBarrier(q))
         /\ Head(q).kind = "barrier" => EndsWithBarrier(q) /\ Tail(q) = <<>>
<1> DEFINE p == Tail(q)
<1>1. /\ p \in Seq(Item) /\ Len(q) \in Nat /\ Len(q) >= 1 /\ Len(p) = Len(q) - 1 /\ Head(q) = q[1]
      /\ \A i \in 1 .. Len(p) : p[i] = q[i + 1]
  BY HeadTailProperties, EmptySeq
<1>2. Len(p) = 0 => p = <<>>
  BY <1>1, EmptySeq
<1> HIDE DEF p
<1>3. OnlyLast(p)
  BY <1>1 DEF OnlyLast
<1>4. ASSUME EndsWithBarrier(p) PROVE EndsWithBarrier(q)
  <2>1. p # <<>> /\ p[Len(p)].kind = "barrier"
    BY <1>4 DEF EndsWithBarrier
  <2>2. Len(p) \in 1 .. Len(p)
    <3>1. Len(p) # 0
      BY <1>2, <2>1
    <3> QED
      BY <1>1, <3>1
  <2>3. p[Len(p)] = q[Len(q)]
    BY <1>1, <2>2
  <2> QED
    BY <2>1, <2>3 DEF EndsWithBarrier
<1>5. ASSUME Head(q).kind = "barrier" PROVE EndsWithBarrier(q) /\ p = <<>>
  <2>1. Len(q) = 1
    BY <1>1, <1>5 DEF OnlyLast
  <2>2. p = <<>>
    BY <1>1, <1>2, <2>1
  <2> QED
    BY <1>1, <1>5, <2>1, <2>2 DEF EndsWithBarrier
<1> QED
  BY <1>3, <1>4, <1>5 DEF p

\* No barrier is under way but while the reader waits for one.
LEMMA NoBarrier ==
  ASSUME BarrierInv, rpc # "gone", rpc # "ack" \/ acked
  PROVE  /\ OnlyLast(zipQ) /\ OnlyLast(gzipQ) /\ OnlyLast(walletQ)
         /\ ~EndsWithBarrier(zipQ) /\ ~EndsWithBarrier(gzipQ) /\ ~EndsWithBarrier(walletQ)
         /\ zHand.kind # "barrier" /\ gHand.kind # "barrier"
         /\ (acked => rpc = "ack")
BY DEF BarrierInv, Waiting

LEMMA ReaderKeepsBarriers ==
  ASSUME Shape, BarrierInv, Reader
  PROVE  BarrierInv'
<1> USE ItemKinds
<1>1. SUFFICES ASSUME rpc' # "gone" PROVE BarrierInv'
  BY DEF BarrierInv
<1>2. rpc # "gone"
  BY DEF Reader, ReceiveTarget, OpenTarget, ReadBlock, SendBlock, DrainDone, SendBarrier,
     AwaitAck, CheckQuiet, FileFrontier, BankTarget, PushEOF, ReportRoot, SendFinal, ReaderExit
<1>3. UNCHANGED <<zHand, gHand, wHand, gzipQ, walletQ, refused>>
  BY ReaderLeaves DEF zipVars, gzipVars, walletVars
<1>4. zipQ \in Seq(Item)
  BY QueueTypesUsed
<1>5. ASSUME rpc' \notin {"ack", "quiet", "file"}, rpc # "ack", UNCHANGED <<zipQ, acked>>
      PROVE  BarrierInv'
  BY <1>1, <1>2, <1>3, <1>5, NoBarrier DEF BarrierInv
<1>6. ASSUME NEW x \in Item, x.kind # "barrier", zipQ' = Append(zipQ, x), UNCHANGED acked,
             rpc' \notin {"ack", "quiet", "file"}, rpc # "ack"
      PROVE  BarrierInv'
  <2>1. OnlyLast(zipQ') /\ ~EndsWithBarrier(zipQ')
    BY <1>2, <1>4, <1>6, NoBarrier, BarrierAppended
  <2> QED
    BY <1>1, <1>2, <1>3, <1>6, <2>1, NoBarrier DEF BarrierInv
<1>7. CASE SendBlock
  <2>1. cur \in Targets /\ pos[cur] \in Nat
    BY <1>7, StackCases DEF SendBlock, Shape, TypeOK, ReaderTypes
  <2> QED
    BY <1>6, <1>7, <2>1 DEF SendBlock, AfterBlock, signalVars
<1>8. CASE PushEOF
  BY <1>6, <1>8 DEF PushEOF, signalVars
<1>9. CASE SendBarrier
  <2>1. rpc = "barrier" /\ rpc' = "ack" /\ zipQ' = Append(zipQ, Barrier) /\ UNCHANGED acked
    BY <1>9 DEF SendBarrier, signalVars
  <2>2. OnlyLast(zipQ') /\ EndsWithBarrier(zipQ') /\ ~acked
    BY <1>2, <1>4, <2>1, NoBarrier, BarrierAppended
  <2> QED
    BY <1>2, <1>3, <2>1, <2>2, NoBarrier DEF BarrierInv, Waiting
<1>10. CASE AwaitAck
  <2>1. rpc' = "quiet" /\ acked /\ ~acked' /\ UNCHANGED zipQ
    BY <1>10 DEF AwaitAck, queueVars
  <2> QED
    BY <1>2, <1>3, <2>1, NoBarrier DEF BarrierInv, AllClear, GzipClear, ZipClear
<1>11. CASE CheckQuiet
  <2>1. rpc = "quiet" /\ UNCHANGED <<zipQ, acked, scanTargets>>
    BY <1>11 DEF CheckQuiet, queueVars, signalVars
  <2>2. rpc' # "file" => rpc' \notin {"ack", "quiet", "file"}
    BY <1>11 DEF CheckQuiet, AfterBlock
  <2>3. CASE rpc' = "file"
    <3>1. scanTargets = <<>> /\ refused = {}
      BY <1>11, <2>3 DEF CheckQuiet, quiet, AfterBlock
    <3> QED
      BY <1>2, <1>3, <2>1, <2>3, <3>1, NoBarrier DEF BarrierInv, AllClear, GzipClear, ZipClear
  <2> QED
    BY <1>5, <2>1, <2>2, <2>3
<1>12. CASE ReceiveTarget \/ OpenTarget \/ ReadBlock \/ DrainDone \/ FileFrontier \/ BankTarget
            \/ ReportRoot \/ SendFinal
  <2>1. rpc' \notin {"ack", "quiet", "file"} /\ rpc # "ack"
    BY <1>12 DEF ReceiveTarget, OpenTarget, ReadBlock, DrainDone, FileFrontier, BankTarget,
       ReportRoot, SendFinal, AfterBlock
  <2>2. UNCHANGED <<zipQ, acked>>
    BY <1>12 DEF ReceiveTarget, OpenTarget, ReadBlock, DrainDone, FileFrontier, BankTarget,
       ReportRoot, SendFinal, queueVars, signalVars
  <2> QED
    BY <1>5, <2>1, <2>2
<1>13. ~ReaderExit
  BY <1>1 DEF ReaderExit
<1> QED
  BY <1>7, <1>8, <1>9, <1>10, <1>11, <1>12, <1>13 DEF Reader

LEMMA ZipKeepsBarriers ==
  ASSUME Shape, BarrierInv, Zip
  PROVE  BarrierInv'
<1> USE ItemKinds
<1>1. UNCHANGED <<rpc, acked, gHand, wHand, walletQ>>
  BY DEF Zip, ZipReceive, ZipOffer, ZipPublish, ZipSettle, ZipForward, ZipExit,
     queueVars, readerVars, gzipVars, walletVars, signalVars
<1>2. SUFFICES ASSUME rpc # "gone" PROVE BarrierInv'
  BY <1>1 DEF BarrierInv
<1>3. /\ OnlyLast(zipQ) /\ OnlyLast(gzipQ) /\ OnlyLast(walletQ)
      /\ EndsWithBarrier(zipQ) => Waiting
      /\ zHand.kind = "barrier" => Waiting /\ zipQ = <<>>
      /\ EndsWithBarrier(gzipQ) => Waiting /\ ZipClear
      /\ gHand.kind = "barrier" => Waiting /\ ZipClear /\ gzipQ = <<>>
      /\ EndsWithBarrier(walletQ) => Waiting /\ GzipClear
      /\ acked => rpc = "ack"
      /\ acked \/ rpc \in {"quiet", "file"} => AllClear
      /\ rpc = "file" => scanTargets = <<>> /\ refused = {}
  BY <1>2 DEF BarrierInv
<1>4. zipQ \in Seq(Item) /\ gzipQ \in Seq(Item)
  BY QueueTypesUsed
<1>5. CASE ZipReceive
  <2>1. /\ zipQ # <<>> /\ zipQ' = Tail(zipQ) /\ zHand' = Head(zipQ) /\ UNCHANGED <<gzipQ, scanTargets, refused>>
    BY <1>5 DEF ZipReceive, gateVars
  <2>2. ~EndsWithBarrier(gzipQ) /\ gHand.kind # "barrier" /\ ~EndsWithBarrier(walletQ)
        /\ ~acked /\ rpc \notin {"quiet", "file"}
    BY <1>3, <2>1 DEF ZipClear, GzipClear, AllClear
  <2>3. /\ OnlyLast(zipQ') /\ (EndsWithBarrier(zipQ') => Waiting)
        /\ zHand'.kind = "barrier" => Waiting /\ zipQ' = <<>>
    BY <1>3, <1>4, <2>1, BarrierTail
  <2> QED
    BY <1>1, <1>3, <2>1, <2>2, <2>3 DEF BarrierInv, Waiting
<1>6. CASE ZipForward
  <2>1. /\ zpc = "send" /\ gzipQ' = Append(gzipQ, zHand) /\ zHand' = Nothing
        /\ UNCHANGED <<zipQ, scanTargets, refused>>
    BY <1>6 DEF ZipForward, gateVars
  <2>2. zHand.kind # "none" /\ zHand \in Item
    BY <2>1 DEF Shape, StageShape, TypeOK, ZipTypes
  <2>3. ~EndsWithBarrier(gzipQ) /\ gHand.kind # "barrier" /\ ~EndsWithBarrier(walletQ)
        /\ ~acked /\ rpc \notin {"quiet", "file"}
    BY <1>3, <2>2 DEF ZipClear, GzipClear, AllClear
  <2>4. OnlyLast(gzipQ') /\ (EndsWithBarrier(gzipQ') <=> zHand.kind = "barrier")
    BY <1>3, <1>4, <2>1, <2>2, <2>3, BarrierAppended
  <2> QED
    BY <1>1, <1>3, <2>1, <2>3, <2>4 DEF BarrierInv, Waiting, ZipClear
<1>7. CASE ZipSettle
  <2>1. /\ zpc = "publish" /\ UNCHANGED <<zipQ, gzipQ, scanTargets, refused>>
        /\ zHand' = zHand \/ zHand' = Nothing
    BY <1>7 DEF ZipSettle, queueVars, gateVars
  <2>2. zHand.kind # "none"
    BY <2>1 DEF Shape, StageShape
  <2>3. ~EndsWithBarrier(gzipQ) /\ gHand.kind # "barrier" /\ ~EndsWithBarrier(walletQ)
        /\ ~acked /\ rpc \notin {"quiet", "file"}
    BY <1>3, <2>2 DEF ZipClear, GzipClear, AllClear
  <2> QED
    BY <1>1, <1>3, <2>1, <2>3 DEF BarrierInv, Waiting
<1>8. CASE (\E m \in Nested : ZipOffer(m)) \/ ZipPublish
  <2>1. zpc = "publish" /\ UNCHANGED <<zipQ, zHand, gzipQ>>
    BY <1>8 DEF ZipOffer, ZipPublish, queueVars
  <2>2. zHand # Nothing
    BY <2>1 DEF Shape, StageShape
  <2>3. rpc # "file"
    BY <1>3, <2>2 DEF ZipClear, GzipClear, AllClear
  <2> QED
    BY <1>1, <1>3, <2>1, <2>3 DEF BarrierInv, Waiting, ZipClear, GzipClear, AllClear
<1>9. CASE ZipExit
  <2>1. UNCHANGED <<zipQ, zHand, gzipQ, scanTargets, refused>>
    BY <1>9 DEF ZipExit, queueVars, gateVars
  <2> QED
    BY <1>1, <1>3, <2>1 DEF BarrierInv, Waiting, ZipClear, GzipClear, AllClear
<1> QED
  BY <1>5, <1>6, <1>7, <1>8, <1>9 DEF Zip

LEMMA GzipKeepsBarriers ==
  ASSUME Shape, BarrierInv, Gzip
  PROVE  BarrierInv'
<1> USE ItemKinds
<1>1. UNCHANGED <<rpc, acked, zHand, wHand, zipQ>>
  BY DEF Gzip, GzipReceive, GzipOffer, GzipPublish, GzipSettle, GzipForward, GzipExit,
     queueVars, readerVars, zipVars, walletVars, signalVars
<1>2. SUFFICES ASSUME rpc # "gone" PROVE BarrierInv'
  BY <1>1 DEF BarrierInv
<1>3. /\ OnlyLast(zipQ) /\ OnlyLast(gzipQ) /\ OnlyLast(walletQ)
      /\ EndsWithBarrier(zipQ) => Waiting
      /\ zHand.kind = "barrier" => Waiting /\ zipQ = <<>>
      /\ EndsWithBarrier(gzipQ) => Waiting /\ ZipClear
      /\ gHand.kind = "barrier" => Waiting /\ ZipClear /\ gzipQ = <<>>
      /\ EndsWithBarrier(walletQ) => Waiting /\ GzipClear
      /\ acked => rpc = "ack"
      /\ acked \/ rpc \in {"quiet", "file"} => AllClear
      /\ rpc = "file" => scanTargets = <<>> /\ refused = {}
  BY <1>2 DEF BarrierInv
<1>4. gzipQ \in Seq(Item) /\ walletQ \in Seq(Item)
  BY QueueTypesUsed
<1>5. CASE GzipReceive
  <2>1. /\ gzipQ # <<>> /\ gzipQ' = Tail(gzipQ) /\ gHand' = Head(gzipQ)
        /\ UNCHANGED <<walletQ, scanTargets, refused>>
    BY <1>5 DEF GzipReceive, gateVars
  <2>2. gHand.kind # "barrier" /\ ~EndsWithBarrier(walletQ) /\ ~acked /\ rpc \notin {"quiet", "file"}
    BY <1>3, <2>1 DEF ZipClear, GzipClear, AllClear
  <2>3. /\ OnlyLast(gzipQ') /\ (EndsWithBarrier(gzipQ') => Waiting /\ ZipClear)
        /\ gHand'.kind = "barrier" => Waiting /\ ZipClear /\ gzipQ' = <<>>
    BY <1>3, <1>4, <2>1, BarrierTail
  <2> QED
    BY <1>1, <1>3, <2>1, <2>2, <2>3 DEF BarrierInv, Waiting, ZipClear
<1>6. CASE GzipForward
  <2>1. /\ gpc = "send" /\ walletQ' = Append(walletQ, gHand) /\ gHand' = Nothing
        /\ UNCHANGED <<gzipQ, scanTargets, refused>>
    BY <1>6 DEF GzipForward, gateVars
  <2>2. gHand.kind # "none" /\ gHand \in Item
    BY <2>1 DEF Shape, StageShape, TypeOK, GzipTypes
  <2>3. ~EndsWithBarrier(walletQ) /\ ~acked /\ rpc \notin {"quiet", "file"}
    BY <1>3, <2>2 DEF GzipClear, AllClear
  <2>4. OnlyLast(walletQ') /\ (EndsWithBarrier(walletQ') <=> gHand.kind = "barrier")
    BY <1>3, <1>4, <2>1, <2>2, <2>3, BarrierAppended
  <2> QED
    BY <1>1, <1>3, <2>1, <2>3, <2>4 DEF BarrierInv, Waiting, ZipClear, GzipClear
<1>7. CASE GzipSettle
  <2>1. /\ gpc = "publish" /\ UNCHANGED <<gzipQ, walletQ, scanTargets, refused>>
        /\ gHand' = gHand \/ gHand' = Nothing
    BY <1>7 DEF GzipSettle, queueVars, gateVars
  <2>2. gHand.kind # "none"
    BY <2>1 DEF Shape, StageShape
  <2>3. ~EndsWithBarrier(walletQ) /\ ~acked /\ rpc \notin {"quiet", "file"}
    BY <1>3, <2>2 DEF GzipClear, AllClear
  <2> QED
    BY <1>1, <1>3, <2>1, <2>3 DEF BarrierInv, Waiting, ZipClear
<1>8. CASE (\E m \in Nested : GzipOffer(m)) \/ GzipPublish
  <2>1. gpc = "publish" /\ UNCHANGED <<gzipQ, gHand, walletQ>>
    BY <1>8 DEF GzipOffer, GzipPublish, queueVars
  <2>2. gHand # Nothing
    BY <2>1 DEF Shape, StageShape
  <2>3. rpc # "file"
    BY <1>3, <2>2 DEF GzipClear, AllClear
  <2> QED
    BY <1>1, <1>3, <2>1, <2>3 DEF BarrierInv, Waiting, ZipClear, GzipClear, AllClear
<1>9. CASE GzipExit
  <2>1. UNCHANGED <<gzipQ, gHand, walletQ, scanTargets, refused>>
    BY <1>9 DEF GzipExit, queueVars, gateVars
  <2> QED
    BY <1>1, <1>3, <2>1 DEF BarrierInv, Waiting, ZipClear, GzipClear, AllClear
<1> QED
  BY <1>5, <1>6, <1>7, <1>8, <1>9 DEF Gzip

LEMMA WalletKeepsBarriers ==
  ASSUME Shape, StageEnds, BarrierInv, Wallet
  PROVE  BarrierInv'
<1> USE ItemKinds
<1>1. UNCHANGED <<rpc, zHand, gHand, zipQ, gzipQ, scanTargets, refused>>
  BY DEF Wallet, WalletReceive, WalletReport, WalletExit, queueVars, readerVars, zipVars, gzipVars, gateVars
<1>2. SUFFICES ASSUME rpc # "gone" PROVE BarrierInv'
  BY <1>1 DEF BarrierInv
<1>3. /\ OnlyLast(zipQ) /\ OnlyLast(gzipQ) /\ OnlyLast(walletQ)
      /\ EndsWithBarrier(zipQ) => Waiting
      /\ zHand.kind = "barrier" => Waiting /\ zipQ = <<>>
      /\ EndsWithBarrier(gzipQ) => Waiting /\ ZipClear
      /\ gHand.kind = "barrier" => Waiting /\ ZipClear /\ gzipQ = <<>>
      /\ EndsWithBarrier(walletQ) => Waiting /\ GzipClear
      /\ acked => rpc = "ack"
      /\ acked \/ rpc \in {"quiet", "file"} => AllClear
      /\ rpc = "file" => scanTargets = <<>> /\ refused = {}
  BY <1>2 DEF BarrierInv
<1>4. walletQ \in Seq(Item) /\ acked \in BOOLEAN
  BY QueueTypesUsed DEF Shape, TypeOK, FlagTypes
<1>5. CASE WalletReceive
  <2>1. walletQ # <<>> /\ walletQ' = Tail(walletQ) /\ wpc = "recv"
    BY <1>5 DEF WalletReceive
  <2>2. ~acked /\ rpc \notin {"quiet", "file"} /\ wHand = Nothing
    BY <1>3, <2>1 DEF AllClear, StageEnds
  <2>3. /\ OnlyLast(walletQ') /\ (EndsWithBarrier(walletQ') => Waiting /\ GzipClear)
        /\ Head(walletQ).kind = "barrier" => Waiting /\ GzipClear /\ walletQ' = <<>>
    BY <1>3, <1>4, <2>1, BarrierTail
  <2>4. CASE Head(walletQ).kind = "barrier"
    <3>1. acked' /\ UNCHANGED wHand
      BY <1>5, <2>4 DEF WalletReceive
    <3>2. /\ rpc = "ack" /\ GzipClear /\ walletQ' = <<>> /\ ~EndsWithBarrier(zipQ) /\ ~EndsWithBarrier(gzipQ)
          /\ ~EndsWithBarrier(walletQ')
      BY <2>3, <2>4 DEF Waiting, GzipClear, ZipClear, EndsWithBarrier
    <3> QED
      BY <1>1, <1>3, <2>2, <2>3, <3>1, <3>2 DEF BarrierInv, AllClear, GzipClear, ZipClear
  <2>5. CASE Head(walletQ).kind # "barrier"
    <3>1. UNCHANGED acked
      BY <1>5, <2>5 DEF WalletReceive
    <3> QED
      BY <1>1, <1>3, <2>2, <2>3, <3>1 DEF BarrierInv, Waiting, GzipClear, ZipClear
  <2> QED
    BY <2>4, <2>5
<1>6. CASE WalletReport
  <2>1. wHand' = Nothing /\ UNCHANGED <<walletQ, acked>>
    BY <1>6 DEF WalletReport, signalVars
  <2> QED
    BY <1>1, <1>3, <2>1 DEF BarrierInv, Waiting, AllClear, GzipClear, ZipClear
<1>7. CASE WalletExit
  <2>1. UNCHANGED <<walletQ, acked, wHand>>
    BY <1>7 DEF WalletExit, signalVars, queueVars
  <2> QED
    BY <1>1, <1>3, <2>1 DEF BarrierInv, Waiting, AllClear, GzipClear, ZipClear
<1> QED
  BY <1>5, <1>6, <1>7 DEF Wallet

LEMMA StepKeepsBarriers ==
  ASSUME Shape, StageEnds, BarrierInv, [Next]_vars
  PROVE  BarrierInv'
<1>1. ASSUME Main \/ Cancel \/ UNCHANGED vars PROVE BarrierInv'
  <2>1. UNCHANGED <<scanTargets, zipQ, gzipQ, readerVars, zipVars, gzipVars, refused>>
    BY <1>1, OthersCarry
  <2>2. UNCHANGED <<walletQ, wHand, acked>>
    BY <1>1 DEF Main, MainSignal, MainCancel, MainRoot, MainFail, MainComplete, Cancel, vars,
       queueVars, walletVars, signalVars
  <2> QED
    BY <2>1, <2>2 DEF BarrierInv, Waiting, AllClear, GzipClear, ZipClear, readerVars, zipVars, gzipVars
<1> QED
  BY <1>1, ReaderKeepsBarriers, ZipKeepsBarriers, GzipKeepsBarriers, WalletKeepsBarriers DEF Next, Returned

-----------------------------------------------------------------------------
(* Candidates found in a nested target are gone by the time of a barrier.  *)

LEMMA EOFAfterAppend ==
  ASSUME NEW q \in Seq(Item), NEW x \in Item
  PROVE  /\ Len(q) \in Nat /\ Len(Append(q, x)) = Len(q) + 1 /\ Append(q, x)[Len(q) + 1] = x
         /\ \A i \in 1 .. Len(q) : Append(q, x)[i] = q[i]
         /\ \A i \in Nat : EOFAfter(q, i) => EOFAfter(Append(q, x), i)
         /\ x.kind = "eof" => \A i \in 0 .. Len(q) : EOFAfter(Append(q, x), i)
<1> DEFINE p == Append(q, x)
<1>1. /\ Len(q) \in Nat /\ Len(p) = Len(q) + 1 /\ p[Len(q) + 1] = x
      /\ \A i \in 1 .. Len(q) : p[i] = q[i]
  BY AppendProperties
<1> HIDE DEF p
<1>2. \A i \in Nat : EOFAfter(q, i) => EOFAfter(p, i)
  BY <1>1 DEF EOFAfter
<1>3. ASSUME x.kind = "eof", NEW i \in 0 .. Len(q) PROVE EOFAfter(p, i)
  <2>1. Len(q) + 1 \in i + 1 .. Len(p)
    BY <1>1
  <2> QED
    BY <1>1, <1>3, <2>1 DEF EOFAfter
<1> QED
  BY <1>1, <1>2, <1>3 DEF p

LEMMA EOFAfterTail ==
  ASSUME NEW q \in Seq(Item), q # <<>>
  PROVE  /\ Len(q) \in Nat /\ Len(q) >= 1 /\ Len(Tail(q)) = Len(q) - 1 /\ Head(q) = q[1]
         /\ \A i \in 1 .. Len(Tail(q)) : Tail(q)[i] = q[i + 1]
         /\ \A i \in Nat : EOFAfter(q, i + 1) => EOFAfter(Tail(q), i)
         /\ EOFAfter(q, 0) => Head(q).kind = "eof" \/ EOFAfter(Tail(q), 0)
<1> DEFINE p == Tail(q)
<1>1. /\ Len(q) \in Nat /\ Len(q) >= 1 /\ Len(p) = Len(q) - 1 /\ Head(q) = q[1]
      /\ \A i \in 1 .. Len(p) : p[i] = q[i + 1]
  BY HeadTailProperties, EmptySeq
<1> HIDE DEF p
<1>2. ASSUME NEW i \in Nat, NEW j \in i + 1 .. Len(q), j > 1, q[j].kind = "eof"
      PROVE  j - 1 \in 1 .. Len(p) /\ p[j - 1].kind = "eof"
  <2>1. j - 1 \in 1 .. Len(p)
    BY <1>1, <1>2
  <2>2. p[j - 1] = q[j]
    BY <1>1, <2>1
  <2> QED
    BY <1>2, <2>1, <2>2
<1>3. ASSUME NEW i \in Nat, EOFAfter(q, i + 1) PROVE EOFAfter(p, i)
  <2>1. PICK j \in i + 1 + 1 .. Len(q) : q[j].kind = "eof"
    BY <1>3 DEF EOFAfter
  <2>2. j - 1 \in i + 1 .. Len(p)
    BY <1>1, <2>1
  <2>3. p[j - 1].kind = "eof"
    BY <1>1, <2>1, <2>2
  <2> QED
    BY <2>2, <2>3 DEF EOFAfter
<1>4. ASSUME EOFAfter(q, 0), Head(q).kind # "eof" PROVE EOFAfter(p, 0)
  <2>1. PICK j \in 1 .. Len(q) : q[j].kind = "eof"
    BY <1>4 DEF EOFAfter
  <2>2. j - 1 \in 1 .. Len(p)
    BY <1>1, <1>4, <2>1
  <2>3. p[j - 1].kind = "eof"
    BY <1>1, <2>1, <2>2
  <2> QED
    BY <2>2, <2>3 DEF EOFAfter
<1> QED
  BY <1>1, <1>3, <1>4 DEF p

LEMMA ReaderKeepsFollowed ==
  ASSUME Shape, NestedFollowed, Reader
  PROVE  NestedFollowed'
<1> USE ItemKinds
<1>1. UNCHANGED pending /\ zipQ \in Seq(Item)
  BY ReaderLeaves, QueueTypesUsed DEF zipVars
<1>2. CASE UNCHANGED zipQ /\ (NestedRead => NestedRead')
  BY <1>1, <1>2 DEF NestedFollowed
<1>3. ASSUME NEW x \in Item, zipQ' = Append(zipQ, x), UNCHANGED stack,
             x.kind = "block" /\ x.src # Root => NestedRead
      PROVE  NestedFollowed'
  <2>1. NestedRead' <=> NestedRead
    BY <1>3 DEF NestedRead, In
  <2>2. ASSUME NEW i \in 1 .. Len(zipQ'), zipQ'[i].kind = "block", zipQ'[i].src # Root
        PROVE  NestedRead \/ EOFAfter(zipQ', i)
    <3>1. CASE i \in 1 .. Len(zipQ)
      <4>1. zipQ'[i] = zipQ[i] /\ i \in Nat
        BY <1>1, <1>3, <3>1, EOFAfterAppend
      <4>2. NestedRead \/ EOFAfter(zipQ, i)
        BY <2>2, <3>1, <4>1 DEF NestedFollowed
      <4> QED
        BY <1>1, <1>3, <4>1, <4>2, EOFAfterAppend
    <3>2. CASE i \notin 1 .. Len(zipQ)
      <4>1. i = Len(zipQ) + 1 /\ zipQ'[i] = x
        BY <1>1, <1>3, <2>2, <3>2, EOFAfterAppend
      <4> QED
        BY <1>3, <2>2, <4>1
    <3> QED
      BY <3>1, <3>2
  <2>3. ASSUME NEW m \in pending, Source[m] # Root PROVE NestedRead \/ EOFAfter(zipQ', 0)
    BY <1>1, <1>3, <2>3, EOFAfterAppend DEF NestedFollowed
  <2> QED
    BY <1>1, <2>1, <2>2, <2>3 DEF NestedFollowed
<1>4. CASE SendBlock
  <2>1. cur \in Targets /\ pos[cur] \in Nat /\ In(cur, stack)
    BY <1>4, StackCases DEF SendBlock, Shape, TypeOK, ReaderTypes
  <2>2. Block(cur, pos[cur]).src = cur
    BY DEF Block
  <2>3. cur # Root => NestedRead
    BY <2>1 DEF NestedRead
  <2> QED
    BY <1>3, <1>4, <2>1, <2>2, <2>3 DEF SendBlock
<1>5. CASE SendBarrier
  BY <1>3, <1>5 DEF SendBarrier
<1>6. CASE PushEOF
  <2>1. zipQ' = Append(zipQ, EOF)
    BY <1>6 DEF PushEOF
  <2>2. ASSUME NEW i \in 0 .. Len(zipQ) PROVE EOFAfter(zipQ', i)
    BY <1>1, <2>1, EOFAfterAppend
  <2>3. ASSUME NEW i \in 1 .. Len(zipQ'), zipQ'[i].kind = "block" PROVE EOFAfter(zipQ', i)
    <3>1. Len(zipQ) \in Nat /\ Len(zipQ') = Len(zipQ) + 1 /\ zipQ'[Len(zipQ) + 1] = EOF
      BY <1>1, <2>1, EOFAfterAppend
    <3>2. i \in 0 .. Len(zipQ)
      BY <2>3, <3>1
    <3> QED
      BY <2>2, <3>2
  <2>4. EOFAfter(zipQ', 0)
    <3>1. 0 \in 0 .. Len(zipQ)
      BY <1>1, EOFAfterAppend
    <3> QED
      BY <2>2, <3>1
  <2> QED
    BY <2>3, <2>4 DEF NestedFollowed
<1>7. CASE ReceiveTarget
  <2>1. NestedRead => NestedRead'
    BY <1>7, Receiving DEF NestedRead
  <2> QED
    BY <1>2, <1>7, <2>1 DEF ReceiveTarget
<1>8. CASE UNCHANGED <<zipQ, stack>>
  BY <1>2, <1>8 DEF NestedRead, In
<1> QED
  BY <1>4, <1>5, <1>6, <1>7, <1>8 DEF Reader, OpenTarget, ReadBlock, DrainDone,
     AwaitAck, CheckQuiet, FileFrontier, BankTarget, ReportRoot, SendFinal, ReaderExit, queueVars

LEMMA StepKeepsFollowed ==
  ASSUME Shape, NestedFollowed, [Next]_vars
  PROVE  NestedFollowed'
<1> USE ItemKinds
<1>1. CASE ZipReceive
  <2>1. /\ zipQ \in Seq(Item) /\ zipQ # <<>> /\ zipQ' = Tail(zipQ) /\ UNCHANGED stack
    BY <1>1, QueueTypesUsed DEF ZipReceive, readerVars
  <2>2. NestedRead' <=> NestedRead
    BY <2>1 DEF NestedRead, In
  <2>3. Head(zipQ) \in Item
    BY <2>1, HeadTailProperties, EmptySeq
  <2>4. ASSUME NEW i \in 1 .. Len(zipQ'), zipQ'[i].kind = "block", zipQ'[i].src # Root
        PROVE  NestedRead \/ EOFAfter(zipQ', i)
    <3>1. i \in Nat /\ i + 1 \in 1 .. Len(zipQ) /\ zipQ'[i] = zipQ[i + 1]
      BY <2>1, EOFAfterTail
    <3>2. NestedRead \/ EOFAfter(zipQ, i + 1)
      BY <2>4, <3>1 DEF NestedFollowed
    <3> QED
      BY <2>1, <3>1, <3>2, EOFAfterTail
  <2>5. ASSUME NEW m \in pending', Source[m] # Root
        PROVE  NestedRead \/ EOFAfter(zipQ', 0)
    <3>1. Head(zipQ).kind # "eof"
      BY <1>1, <2>5 DEF ZipReceive
    <3>2. CASE m \in pending
      BY <2>1, <2>5, <3>1, <3>2, EOFAfterTail DEF NestedFollowed
    <3>3. CASE m \notin pending
      <4>1. Head(zipQ).kind = "block" /\ m \in Found("entry", Head(zipQ).src, Head(zipQ).n)
        BY <1>1, <2>3, <2>5, <3>1, <3>3 DEF ZipReceive
      <4>2. zipQ[1].kind = "block" /\ zipQ[1].src # Root /\ 1 \in 1 .. Len(zipQ)
        BY <2>1, <2>5, <4>1, EOFAfterTail DEF Found
      <4>3. NestedRead \/ EOFAfter(zipQ, 0 + 1)
        BY <4>2 DEF NestedFollowed
      <4> QED
        BY <2>1, <4>3, EOFAfterTail
    <3> QED
      BY <3>2, <3>3
  <2> QED
    BY <2>2, <2>4, <2>5 DEF NestedFollowed
<1>2. CASE UNCHANGED <<zipQ, stack, pending>>
  BY <1>2 DEF NestedFollowed, NestedRead, In
<1>3. Zip => ZipReceive \/ UNCHANGED <<zipQ, stack, pending>>
  BY DEF Zip, ZipOffer, ZipPublish, ZipSettle, ZipForward, ZipExit, queueVars, readerVars
<1>4. Gzip => UNCHANGED <<zipQ, stack, pending>>
  BY DEF Gzip, GzipReceive, GzipOffer, GzipPublish, GzipSettle, GzipForward, GzipExit,
     queueVars, readerVars, zipVars
<1>5. Wallet \/ Main \/ Cancel \/ UNCHANGED vars => UNCHANGED <<zipQ, stack, pending>>
  BY OthersCarry DEF readerVars, zipVars
<1> QED
  BY <1>1, <1>2, <1>3, <1>4, <1>5, ReaderKeepsFollowed DEF Next, Returned

-----------------------------------------------------------------------------
(* What was refused left its mark.                                         *)

LEMMA StepMarks ==
  ASSUME Shape, StageEnds, RefusalMarked, [Next]_vars
  PROVE  RefusalMarked'
<1> USE ItemKinds
<1>1. /\ \A m \in zTodo : Kind[m] = "entry" => flushing
      /\ \A m \in gTodo : Kind[m] = "gzip"
      /\ \A m \in refused : Lineage(m) \subseteq poisoned /\ (Kind[m] = "entry" => deferredSkipped)
  BY DEF RefusalMarked
<1>2. ASSUME UNCHANGED <<refused, deferredSkipped>>, poisoned \subseteq poisoned'
      PROVE  \A m \in refused' : Lineage(m) \subseteq poisoned' /\ (Kind[m] = "entry" => deferredSkipped')
  BY <1>1, <1>2
<1>3. ASSUME NEW x \in Nested, NEW f, f \in BOOLEAN, GateRefuse(x, f), Kind[x] = "entry" => f
      PROVE  \A m \in refused' : Lineage(m) \subseteq poisoned' /\ (Kind[m] = "entry" => deferredSkipped')
  BY <1>1, <1>3 DEF GateRefuse
<1>4. CASE Zip
  <2>1. UNCHANGED gTodo
    BY <1>4 DEF Zip, ZipReceive, ZipOffer, ZipPublish, ZipSettle, ZipForward, ZipExit, gzipVars
  <2>2. ASSUME UNCHANGED <<refused, deferredSkipped, poisoned>>,
               \A m \in zTodo' : Kind[m] = "entry" => flushing'
        PROVE  RefusalMarked'
    BY <1>1, <1>2, <2>1, <2>2 DEF RefusalMarked
  <2>3. CASE ZipReceive
    <3>1. zTodo = {} /\ UNCHANGED <<refused, deferredSkipped, poisoned>>
      BY <2>3 DEF ZipReceive, StageEnds, gateVars
    <3>2. \A m \in zTodo' : Kind[m] = "entry" => flushing'
      BY <2>3, <3>1 DEF ZipReceive, Found, flushing
    <3> QED
      BY <2>2, <3>1, <3>2
  <2>4. ASSUME NEW x \in Nested, ZipOffer(x) PROVE RefusalMarked'
    <3>1. x \in zTodo /\ zTodo' = zTodo \ {x} /\ UNCHANGED zHand
      BY <2>4 DEF ZipOffer
    <3>2. \A m \in zTodo' : Kind[m] = "entry" => flushing'
      BY <1>1, <3>1 DEF flushing
    <3>3. CASE UNCHANGED <<refused, deferredSkipped>> /\ poisoned \subseteq poisoned'
      BY <1>1, <1>2, <2>1, <3>2, <3>3 DEF RefusalMarked
    <3>4. CASE GateRefuse(x, flushing)
      <4>1. flushing \in BOOLEAN
        BY DEF flushing
      <4> QED
        BY <1>1, <1>3, <2>1, <3>1, <3>2, <3>4, <4>1 DEF RefusalMarked
    <3> QED
      BY <2>4, <3>3, <3>4 DEF ZipOffer, notePolicySkip, GateAdmit, gateVars
  <2>5. CASE ZipSettle
    <3>1. zTodo' = {} /\ UNCHANGED <<refused, deferredSkipped, poisoned>>
      BY <2>5 DEF ZipSettle, gateVars
    <3> QED
      BY <2>2, <3>1
  <2>6. CASE ZipForward
    <3>1. zTodo' = {} /\ UNCHANGED <<refused, deferredSkipped, poisoned>>
      BY <2>6 DEF ZipForward, StageEnds, gateVars
    <3> QED
      BY <2>2, <3>1
  <2>7. CASE ZipPublish \/ ZipExit
    <3>1. UNCHANGED <<zTodo, zHand, refused, deferredSkipped, poisoned>>
      BY <2>7 DEF ZipPublish, ZipExit, gateVars
    <3> QED
      BY <1>1, <2>2, <3>1 DEF flushing
  <2> QED
    BY <1>4, <2>3, <2>4, <2>5, <2>6, <2>7 DEF Zip
<1>5. CASE Gzip
  <2>1. UNCHANGED <<zTodo, zHand>>
    BY <1>5 DEF Gzip, GzipReceive, GzipOffer, GzipPublish, GzipSettle, GzipForward, GzipExit, zipVars
  <2>2. ASSUME UNCHANGED <<refused, deferredSkipped, poisoned>>, \A m \in gTodo' : Kind[m] = "gzip"
        PROVE  RefusalMarked'
    BY <1>1, <1>2, <2>1, <2>2 DEF RefusalMarked, flushing
  <2>3. CASE GzipReceive
    <3>1. UNCHANGED <<refused, deferredSkipped, poisoned>> /\ \A m \in gTodo' : Kind[m] = "gzip"
      BY <2>3 DEF GzipReceive, Found, gateVars
    <3> QED
      BY <2>2, <3>1
  <2>4. ASSUME NEW x \in Nested, GzipOffer(x) PROVE RefusalMarked'
    <3>1. x \in gTodo /\ gTodo' = gTodo \ {x}
      BY <2>4 DEF GzipOffer
    <3>2. CASE UNCHANGED <<refused, deferredSkipped>> /\ poisoned \subseteq poisoned'
      BY <1>1, <1>2, <2>1, <3>1, <3>2 DEF RefusalMarked, flushing
    <3>3. CASE GateRefuse(x, FALSE)
      <4>1. Kind[x] # "entry"
        BY <1>1, <3>1
      <4>2. \A m \in refused' : Lineage(m) \subseteq poisoned' /\ (Kind[m] = "entry" => deferredSkipped')
        BY <1>3, <3>3, <4>1
      <4> QED
        BY <1>1, <2>1, <3>1, <4>2 DEF RefusalMarked, flushing
    <3> QED
      BY <2>4, <3>2, <3>3 DEF GzipOffer, notePolicySkip, GateAdmit, gateVars
  <2>5. CASE GzipPublish \/ GzipSettle \/ GzipForward \/ GzipExit
    <3>1. UNCHANGED <<gTodo, refused, deferredSkipped, poisoned>>
      BY <2>5 DEF GzipPublish, GzipSettle, GzipForward, GzipExit, gateVars
    <3> QED
      BY <1>1, <2>2, <3>1
  <2> QED
    BY <1>5, <2>3, <2>4, <2>5 DEF Gzip
<1>6. CASE UNCHANGED <<zTodo, zHand, gTodo, refused, deferredSkipped, poisoned>>
  BY <1>1, <1>6 DEF RefusalMarked, flushing
<1>7. Reader => UNCHANGED <<zTodo, zHand, gTodo, refused, deferredSkipped, poisoned>>
  BY DEF Reader, ReceiveTarget, OpenTarget, ReadBlock, SendBlock, DrainDone, SendBarrier,
     AwaitAck, CheckQuiet, FileFrontier, BankTarget, PushEOF, ReportRoot, SendFinal, ReaderExit,
     zipVars, gzipVars, gateVars
<1>8. Wallet \/ Main \/ Cancel \/ UNCHANGED vars
        => UNCHANGED <<zTodo, zHand, gTodo, refused, deferredSkipped, poisoned>>
  BY DEF Wallet, WalletReceive, WalletReport, WalletExit, Main, MainSignal, MainCancel, MainRoot,
     MainFail, MainComplete, Cancel, vars, zipVars, gzipVars, gateVars
<1> QED
  BY <1>4, <1>5, <1>6, <1>7, <1>8 DEF Next, Returned

\* An error is returned only after the last EOF.
LEMMA StepKeepsError ==
  ASSUME Settled, ErrorSettled, [Next]_vars
  PROVE  ErrorSettled'
<1>1. CASE Main
  <2>1. UNCHANGED signaled
    BY <1>1 DEF Main, MainSignal, MainCancel, MainRoot, MainFail, MainComplete, signalVars
  <2> QED
    BY <1>1, <2>1 DEF Main, MainSignal, MainCancel, MainRoot, MainFail, MainComplete, ErrorSettled, Settled
<1>2. CASE ~Main
  BY <1>2, MainDecides, SignalStays DEF ErrorSettled
<1> QED
  BY <1>1, <1>2

-----------------------------------------------------------------------------
(* What is due, along the tree.                                            *)

LEMMA DueStays == ASSUME run' = run PROVE \A t \in Targets : Due[t]' <=> Due[t]
<1>1. DueSpreads'
  BY DueUnfold, PTL
<1>2. \A m \in Nested : Owed(m)' <=> Owed(m)
  BY DueFixed
<1> DEFINE E == {t \in Targets : Due[t]' <=> Due[t]}
<1>3. Root \in E
  BY <1>1, DueUnfold, InputAssumption DEF DueSpreads
<1>4. ASSUME NEW m \in Nested, Source[m] \in E PROVE m \in E
  BY <1>1, <1>2, <1>4, DueUnfold DEF DueSpreads
<1>5. Targets \subseteq E
  BY <1>3, <1>4, TreeInduction
<1> QED
  BY <1>5

\* The stages a due target lies below are due.
LEMMA AboveIsDue == \A t \in Targets : \A u \in Ancestors[t] : Due[t] => Due[u]
<1> DEFINE E == {t \in Targets : \A u \in Ancestors[t] : Due[t] => Due[u]}
<1>1. Root \in E
  BY AncestorsUnfold, InputAssumption
<1>2. ASSUME NEW m \in Nested, Source[m] \in E PROVE m \in E
  BY <1>2, AncestorsUnfold, DueUnfold DEF DueSpreads
<1>3. Targets \subseteq E
  BY <1>1, <1>2, TreeInduction
<1> QED
  BY <1>3

\* The root block that leads to a due target is one the run must read.
LEMMA DueRootBlock == \A t \in Nested : Due[t] => RootBlock[t] \in DueBlocks(Root)
<1> DEFINE E == {t \in Targets : t # Root /\ Due[t] => RootBlock[t] \in DueBlocks(Root)}
<1>1. Root \in E
  BY InputAssumption
<1>2. ASSUME NEW m \in Nested, Source[m] \in E PROVE m \in E
  <2>1. Due[m] => Due[Source[m]] /\ FoundAt[m] \in DueBlocks(Source[m])
    BY DueUnfold DEF DueSpreads, Owed
  <2> QED
    BY <1>2, <2>1, RootBlockUnfold
<1>3. Targets \subseteq E
  BY <1>1, <1>2, TreeInduction
<1> QED
  BY <1>3

\* Below a root entry all are root entries; beside the root, only entries are.
LEMMA RootEntryFacts ==
  ASSUME NEW m \in Nested
  PROVE  /\ Source[m] \in RootEntries => m \in RootEntries
         /\ Source[m] = Root => (m \in RootEntries <=> Kind[m] = "entry")
<1>1. Ancestors[m] = {Source[m]} \cup Ancestors[Source[m]]
  BY AncestorsUnfold
<1>2. Source[m] = Root => Ancestors[m] = {Root}
  BY <1>1, AncestorsUnfold
<1>3. Source[m] \in RootEntries => m \in RootEntries
  BY <1>1 DEF RootEntries
<1>4. Source[m] = Root => (m \in RootEntries <=> Kind[m] = "entry")
  BY <1>2 DEF RootEntries
<1> QED
  BY <1>3, <1>4

\* Between a target in A and one outside of it below, A is left at some target.
LEMMA LeavingTarget ==
  ASSUME NEW A, NEW t \in Targets, t \notin A, NEW u \in Ancestors[t], u \in A
  PROVE  \E x \in Nested : x \notin A /\ Source[x] \in A /\ x \in {t} \cup Ancestors[t] /\ u \in Ancestors[x]
<1> DEFINE Leaves(s) == \E x \in Nested : /\ x \notin A /\ Source[x] \in A
                                          /\ x \in {s} \cup Ancestors[s] /\ u \in Ancestors[x]
           E == {s \in Targets : s \notin A /\ u \in Ancestors[s] => Leaves(s)}
<1>1. Root \in E
  BY AncestorsUnfold, InputAssumption
<1>2. ASSUME NEW m \in Nested, Source[m] \in E PROVE m \in E
  <2>1. SUFFICES ASSUME m \notin A, u \in Ancestors[m] PROVE Leaves(m)
    OBVIOUS
  <2>2. Ancestors[m] = {Source[m]} \cup Ancestors[Source[m]]
    BY AncestorsUnfold
  <2>3. CASE Source[m] \in A
    BY <2>1, <2>3
  <2>4. CASE Source[m] \notin A
    <3>1. u \in Ancestors[Source[m]]
      BY <2>1, <2>2, <2>4
    <3>2. Leaves(Source[m])
      BY <1>2, <2>4, <3>1
    <3> QED
      BY <2>2, <3>2
  <2> QED
    BY <2>3, <2>4
<1>3. Targets \subseteq E
  BY <1>1, <1>2, TreeInduction
<1> QED
  BY <1>3

-----------------------------------------------------------------------------
(* Why a point strands nothing when it is filed.                           *)

\* At a mid-root point nothing is on its way: what was taken on has been read,
\* the root up to the point, and of what it owes only the rest of the root
\* and the root's own entries are left.
LEMMA FileMeansRead ==
  ASSUME Shape, EOFFacts, CompletionInv, BarrierInv, NestedFollowed, rpc = "file"
  PROVE  /\ stack = <<Root>> /\ refused = {} /\ Root \in admitted
         /\ \A t \in admitted \ {Root} : Read(t)
         /\ \A n \in DueBlocks(Root) : n <= pos[Root] => <<Root, n>> \in delivered
         /\ \A m \in Nested : Source[m] \in admitted /\ Owed(m) =>
              \/ m \in admitted
              \/ Source[m] = Root /\ (Kind[m] = "entry" \/ FoundAt[m] > pos[Root])
<1> USE InputAssumption
<1>1. /\ AllClear /\ scanTargets = <<>> /\ refused = {}
  BY DEF BarrierInv
<1>2. /\ zipQ = <<>> /\ gzipQ = <<>> /\ walletQ = <<>>
      /\ zHand = Nothing /\ gHand = Nothing /\ wHand = Nothing
  BY <1>1 DEF AllClear, GzipClear, ZipClear
<1>3. stack = <<Root>> /\ cur = Root /\ \A t : In(t, stack) <=> t = Root
  BY StackCases
<1>4. zSlot = {} /\ gSlot = {} /\ zTodo = {} /\ gTodo = {}
  <2>1. zpc # "publish" /\ gpc # "publish"
    BY <1>2, ItemKinds DEF Shape, StageShape
  <2> QED
    BY <2>1 DEF Shape, StageShape, CompletionInv, StageEnds
<1>5. \A m \in pending : Source[m] = Root /\ Kind[m] = "entry"
  <2>1. ~NestedRead /\ ~EOFAfter(zipQ, 0)
    <3>1. Len(zipQ) = 0
      BY <1>2
    <3> QED
      BY SMTT(30), <1>3, <3>1 DEF NestedRead, EOFAfter
  <2>2. pending \subseteq Nested
    BY DEF Shape, TypeOK, ZipTypes
  <2> QED
    BY <2>1, <2>2 DEF NestedFollowed, CompletionInv, StageEnds
<1>6. ASSUME NEW t \in Targets, NEW n \in Nat, OnItsWay(t, n)
      PROVE  t = Root /\ n > pos[Root] /\ ToRead(t, n)
  <2>1. ~In(Block(t, n), <<>>) /\ Block(t, n) # Nothing /\ ~In(t, <<>>)
    BY InNone, BlockNames
  <2>2. ToRead(t, n)
    BY <1>2, <1>6, <2>1 DEF OnItsWay, BeforeGzip, BeforeZip
  <2>3. In(t, stack) /\ n > pos[t]
    BY <1>1, <1>4, <2>1, <2>2 DEF ToRead
  <2> QED
    BY <1>3, <2>2, <2>3
<1>7. ASSUME NEW t \in admitted, NEW n \in DueBlocks(t), t = Root => n <= pos[Root]
      PROVE  <<t, n>> \in delivered
  <2>1. t \in Targets
    BY DEF Shape, TypeOK, HistTypes
  <2>2. n \in Nat /\ pos[Root] \in Nat
    BY <2>1, DueFacts DEF Shape, TypeOK, ReaderTypes
  <2>3. ~OnItsWay(t, n)
    BY <1>6, <1>7, <2>1, <2>2
  <2> QED
    BY <2>3 DEF CompletionInv, Carried
<1>8. Root \in admitted
  BY DEF CompletionInv, Known
<1>9. \A t \in admitted \ {Root} : Read(t)
  BY <1>7 DEF Read
<1>10. \A n \in DueBlocks(Root) : n <= pos[Root] => <<Root, n>> \in delivered
  BY <1>7, <1>8
<1>11. ASSUME NEW m \in Nested, Source[m] \in admitted, Owed(m), m \notin admitted
       PROVE  Source[m] = Root /\ (Kind[m] = "entry" \/ FoundAt[m] > pos[Root])
  <2>1. Source[m] \in Targets /\ FoundAt[m] \in Nat
    OBVIOUS
  <2>2. ToOffer(m)
    BY <1>1, <1>11 DEF CompletionInv, Offered
  <2>3. m \in pending \/ OnItsWay(Source[m], FoundAt[m])
    BY <1>4, <2>2 DEF ToOffer, OnItsWay, BeforeGzip
  <2> QED
    BY <1>5, <1>6, <2>1, <2>3
<1> QED
  BY <1>1, <1>3, <1>8, <1>9, <1>10, <1>11

LEMMA FilePasses ==
  ASSUME Shape, EOFFacts, CompletionInv, BarrierInv, NestedFollowed, rpc = "file"
  PROVE  Passed(pos[Root])
<1> USE InputAssumption
<1> DEFINE E == {t \in Targets : \/ t \in admitted \/ ~Due[t] \/ t \in RootEntries
                                 \/ t # Root /\ RootBlock[t] > pos[Root]}
<1>1. Root \in E
  BY FileMeansRead
<1>2. ASSUME NEW m \in Nested, Source[m] \in E PROVE m \in E
  <2>1. SUFFICES ASSUME Due[m], m \notin RootEntries, ~(RootBlock[m] > pos[Root])
                 PROVE  m \in admitted
    OBVIOUS
  <2>2. Due[Source[m]] /\ Owed(m)
    BY <2>1, DueUnfold DEF DueSpreads
  <2>3. Source[m] \notin RootEntries
    BY <2>1, RootEntryFacts
  <2>4. RootBlock[m] = IF Source[m] = Root THEN FoundAt[m] ELSE RootBlock[Source[m]]
    BY RootBlockUnfold
  <2>5. Source[m] \in admitted
    BY <1>1, <1>2, <2>1, <2>2, <2>3, <2>4, FileMeansRead
  <2>6. Source[m] = Root => Kind[m] # "entry"
    BY <2>1, RootEntryFacts
  <2> QED
    BY <2>1, <2>2, <2>4, <2>5, <2>6, FileMeansRead
<1>3. Targets \subseteq E
  BY <1>1, <1>2, TreeInduction
<1>4. ASSUME NEW t \in Nested \ RootEntries, Due[t], RootBlock[t] <= pos[Root] PROVE Read(t)
  <2>1. RootBlock[t] \in Nat /\ pos[Root] \in Nat
    BY RootBlockUnfold DEF Shape, TypeOK, ReaderTypes
  <2>2. t \in admitted
    BY <1>3, <1>4, <2>1
  <2> QED
    BY <2>2, FileMeansRead
<1> QED
  BY <1>4, FileMeansRead DEF Passed

\* A bank hides no target that is due: what a banked member owes was taken on
\* and read, or refused and the member poisoned.
LEMMA BankHidesNothing ==
  ASSUME Shape, CompletionInv, RefusalMarked,
         \A t \in admitted \ {Root} : Read(t),
         \A m \in Nested : Source[m] \in admitted \ {Root} /\ Owed(m) => m \in admitted \cup refused,
         NEW t \in Nested, Due[t], NEW u \in {t} \cup Ancestors[t], u \in snapshotCovered
  PROVE  Read(t)
<1> USE InputAssumption
<1>1. u \in covered /\ u \notin poisoned /\ u \in Nested
  BY DEF snapshotCovered, Shape, TypeOK, GateTypes
<1>2. Due[u]
  BY AboveIsDue
<1>3. u \notin run.bank
  BY <1>1, <1>2, DueUnfold DEF DueSpreads, Owed
<1>4. u \in admitted
  BY <1>1, <1>3 DEF CompletionInv, Known
<1>5. CASE t \in admitted
  BY <1>5
<1>6. CASE t \notin admitted
  <2>1. u \in Ancestors[t]
    BY <1>4, <1>6
  <2>2. PICK x \in Nested : /\ x \notin admitted /\ Source[x] \in admitted
                            /\ x \in {t} \cup Ancestors[t] /\ u \in Ancestors[x]
    BY <1>4, <1>6, <2>1, LeavingTarget
  <2>3. Due[x]
    BY <2>2, AboveIsDue
  <2>4. Owed(x)
    BY <2>3, DueUnfold DEF DueSpreads
  <2>5. Source[x] # Root
    BY <1>1, <2>2, AncestorsUnfold
  <2>6. x \in refused
    BY <2>2, <2>4, <2>5
  <2>7. u \in Lineage(x)
    BY <1>1, <2>2 DEF Lineage
  <2> QED
    BY <1>1, <2>6, <2>7 DEF RefusalMarked
<1> QED
  BY <1>5, <1>6

\* After a success all that is due has been read.
LEMMA SuccessReadsDue ==
  ASSUME Shape, EOFFacts, CompletionInv, signaled, refused = {}
  PROVE  \A t \in Targets : Due[t] => Read(t)
<1> DEFINE E == {t \in Targets : Due[t] => t \in admitted}
<1>1. Root \in E
  BY SignaledMeansRead, InputAssumption
<1>2. ASSUME NEW m \in Nested, Source[m] \in E PROVE m \in E
  BY <1>2, SignaledMeansRead, DueUnfold DEF DueSpreads
<1>3. Targets \subseteq E
  BY <1>1, <1>2, TreeInduction
<1> QED
  BY <1>3, SignaledMeansRead

-----------------------------------------------------------------------------
(* The theorems.                                                           *)

\* What a step strands, told in the state before it.
LEMMA StrandedAfter ==
  ASSUME Shape, [Next]_vars, NEW t \in Stranded'
  PROVE  /\ t \in Targets /\ Due[t]
         /\ t = Root => \E n \in DueBlocks(Root) : n <= journal'.at /\ <<Root, n>> \notin delivered
         /\ t # Root => /\ ~Read(t)
                        /\ \/ RootBlock[t] <= journal'.at
                           \/ \E u \in {t} \cup Ancestors[t] : u \in journal'.bank
<1>1. run' = run /\ delivered \subseteq delivered'
  BY RunFixed, AdmittedGrows
<1>2. \A x \in Targets : DueBlocks(x)' = DueBlocks(x)
  BY <1>1, DueFixed
<1>3. t \in Targets /\ (Due[t]' <=> Due[t])
  BY <1>1, DueStays DEF Stranded
<1>4. t = Root => \E n \in DueBlocks(Root) : n <= journal'.at /\ <<Root, n>> \notin delivered
  BY <1>1, <1>2, <1>3 DEF Stranded
<1>5. Read(t) => Read(t)'
  BY <1>1, <1>2, <1>3 DEF Read
<1> QED
  BY <1>3, <1>4, <1>5 DEF Stranded

\* What was passed stays passed.
LEMMA PassedStays ==
  ASSUME [Next]_vars, NEW at, Passed(at)
  PROVE  /\ \A n \in DueBlocks(Root)' : n <= at => <<Root, n>> \in delivered'
         /\ \A t \in Nested \ RootEntries : Due[t]' /\ RootBlock[t] <= at => Read(t)'
<1>1. run' = run /\ delivered \subseteq delivered'
  BY RunFixed, AdmittedGrows
<1>2. \A x \in Targets : DueBlocks(x)' = DueBlocks(x)
  BY <1>1, DueFixed
<1>3. \A t \in Nested : (Due[t]' <=> Due[t]) /\ (Read(t) => Read(t)')
  BY <1>1, <1>2, DueStays DEF Read
<1> QED
  BY <1>1, <1>2, <1>3, InputAssumption DEF Passed

LEMMA FileKeepsFrontier ==
  ASSUME Shape, EOFFacts, CompletionInv, FrontierInv, FileFrontier
  PROVE  /\ PointProven' /\ FrontierProven' /\ ErrorKeepsRefusedReachable'
         /\ Stranded' \subseteq RootEntries
<1> USE InputAssumption
<1>1. /\ rpc = "file" /\ lastFiled' = pos[Root] /\ journal'.at = pos[Root]
      /\ journal'.bank = snapshotCovered /\ UNCHANGED <<outcome, signaled>>
  BY DEF FileFrontier, mainVars, signalVars
<1>2. Next
  BY DEF Next, Reader
<1>3. BarrierInv /\ NestedFollowed /\ RefusalMarked /\ ErrorSettled
  BY DEF FrontierInv
<1>4. Passed(pos[Root])
  BY <1>1, <1>3, FilePasses
<1>5. PointProven'
  BY <1>1, <1>2, <1>4, PassedStays DEF PointProven, Passed
<1>6. ASSUME NEW t \in Stranded' PROVE t \in RootEntries
  <2>1. /\ t \in Targets /\ Due[t]
        /\ t = Root => \E n \in DueBlocks(Root) : n <= pos[Root] /\ <<Root, n>> \notin delivered
        /\ t # Root => /\ ~Read(t)
                       /\ \/ RootBlock[t] <= pos[Root]
                          \/ \E u \in {t} \cup Ancestors[t] : u \in snapshotCovered
    BY <1>1, <1>2, <1>6, StrandedAfter
  <2>2. t # Root
    BY <1>4, <2>1 DEF Passed
  <2>3. ~\E u \in {t} \cup Ancestors[t] : u \in snapshotCovered
    BY <1>1, <1>3, <2>1, <2>2, FileMeansRead, BankHidesNothing
  <2> QED
    BY <1>4, <2>1, <2>2, <2>3 DEF Passed
<1>7. FrontierProven'
  <2>1. RootEntries' = RootEntries
    BY DEF RootEntries
  <2> QED
    BY <1>6, <2>1 DEF FrontierProven
<1>8. outcome # "error"
  <2>1. stack # <<>>
    <3>1. stack = <<Root>> /\ Len(<<Root>>) = 1
      BY <1>1, <1>3, FileMeansRead
    <3> QED
      BY <3>1
  <2> QED
    BY <1>3, <2>1, EOFFactsSuffice DEF ErrorSettled, FirstEOFIsLast
<1>9. ErrorKeepsRefusedReachable'
  BY <1>1, <1>8 DEF ErrorKeepsRefusedReachable
<1> QED
  BY <1>5, <1>6, <1>7, <1>9

LEMMA FailKeepsFrontier ==
  ASSUME Shape, EOFFacts, CompletionInv, FrontierInv, MainFail
  PROVE  /\ FrontierProven' /\ ErrorKeepsRefusedReachable'
         /\ Stranded' \subseteq RootEntries \/ UNCHANGED journal
<1> USE InputAssumption
<1>1. mpc = "fail" /\ outcome' = "error" /\ UNCHANGED <<run, lastFiled>>
  BY DEF MainFail
<1>2. Next
  BY DEF Next, Main
<1>3. RefusalMarked /\ PointProven /\ FrontierProven
  BY DEF FrontierInv
<1>4. signaled
  BY <1>1 DEF CompletionInv, Settled
<1>5. CASE ~Journaled
  <2>1. UNCHANGED journal
    BY <1>5 DEF MainFail
  <2>2. Stranded' \subseteq Stranded
    BY <1>2, <2>1, StrandedAfter DEF Stranded
  <2> QED
    BY <1>1, <1>3, <1>5, <2>1, <2>2 DEF FrontierProven, ErrorKeepsRefusedReachable, RootEntries
<1>6. CASE Journaled
  <2>1. /\ journal'.at = IF deferredSkipped THEN run.start ELSE frozenOffset
        /\ journal'.bank = snapshotCovered
    BY <1>6 DEF MainFail
  <2>2. run.start \in Nat /\ lastFiled \in Nat
    BY DEF Shape, TypeOK, FileTypes, Run
  <2>3. journal'.at = run.start \/ (journal'.at = lastFiled /\ lastFiled > run.start /\ ~deferredSkipped)
    BY <2>1 DEF frozenOffset
  <2>4. ASSUME NEW t \in Stranded' PROVE t \in RootEntries /\ Source[t] # Root
    <3>1. /\ t \in Targets /\ Due[t]
          /\ t = Root => \E n \in DueBlocks(Root) : n <= journal'.at /\ <<Root, n>> \notin delivered
          /\ t # Root => /\ ~Read(t)
                         /\ \/ RootBlock[t] <= journal'.at
                            \/ \E u \in {t} \cup Ancestors[t] : u \in snapshotCovered
      BY <1>2, <2>1, <2>4, StrandedAfter
    <3>2. t # Root
      BY <1>4, <3>1, SignaledMeansRead DEF Read
    <3>3. ~\E u \in {t} \cup Ancestors[t] : u \in snapshotCovered
      BY <1>3, <1>4, <3>1, <3>2, SignaledMeansRead, BankHidesNothing
    <3>4. RootBlock[t] <= journal'.at /\ ~Read(t)
      BY <3>1, <3>2, <3>3
    <3>5. RootBlock[t] \in Nat /\ RootBlock[t] > run.start
      <4>1. RootBlock[t] \in DueBlocks(Root)
        BY <3>1, <3>2, DueRootBlock
      <4> QED
        BY <4>1, DueFacts DEF ReadFrom
    <3>6. journal'.at = lastFiled /\ lastFiled > 0 /\ ~deferredSkipped
      BY <2>2, <2>3, <3>4, <3>5
    <3>7. t \in RootEntries
      BY <1>3, <3>1, <3>2, <3>4, <3>6 DEF PointProven, Passed
    <3>8. ASSUME Source[t] = Root PROVE FALSE
      <4>1. Kind[t] = "entry"
        BY <3>2, <3>7, <3>8, RootEntryFacts, <3>1
      <4>2. Owed(t)
        BY <3>1, <3>2, DueUnfold DEF DueSpreads
      <4>3. t \in refused
        BY <1>4, <3>1, <3>2, <3>4, <3>8, <4>2, SignaledMeansRead
      <4> QED
        BY <1>3, <3>6, <4>1, <4>3 DEF RefusalMarked
    <3> QED
      BY <3>7, <3>8
  <2>5. RootEntries' = RootEntries
    BY DEF RootEntries
  <2> QED
    BY <2>4, <2>5 DEF FrontierProven, ErrorKeepsRefusedReachable
<1> QED
  BY <1>5, <1>6

LEMMA CompleteKeepsFrontier ==
  ASSUME Shape, EOFFacts, CompletionInv, FrontierInv, MainComplete
  PROVE  FrontierProven' /\ ErrorKeepsRefusedReachable' /\ Stranded' = {}
<1>1. mpc = "final" /\ outcome' = "complete"
  BY DEF MainComplete
<1>2. Next
  BY DEF Next, Main
<1>3. signaled /\ refused = {}
  BY <1>1 DEF CompletionInv, Settled
<1>4. \A t \in Targets : Due[t] => Read(t)
  BY <1>3, SuccessReadsDue
<1>5. Stranded' = {}
  <2>1. ASSUME NEW t \in Stranded' PROVE FALSE
    BY <1>2, <1>4, <2>1, StrandedAfter DEF Read
  <2> QED
    BY <2>1
<1> QED
  BY <1>1, <1>5 DEF FrontierProven, ErrorKeepsRefusedReachable

\* Where the journal is not written, a step strands nothing more.
LEMMA OthersKeepFrontier ==
  ASSUME Shape, FrontierInv, [Next]_vars, UNCHANGED <<journal, lastFiled>>,
         outcome' = "error" => outcome = "error"
  PROVE  PointProven' /\ FrontierProven' /\ ErrorKeepsRefusedReachable'
<1>1. Stranded' \subseteq Stranded
  BY StrandedAfter DEF Stranded
<1>2. PointProven'
  BY PassedStays DEF FrontierInv, PointProven, Passed
<1>3. FrontierProven' /\ ErrorKeepsRefusedReachable'
  BY <1>1 DEF FrontierInv, FrontierProven, ErrorKeepsRefusedReachable, RootEntries
<1> QED
  BY <1>2, <1>3

\* The journal is written in three places.
LEMMA JournalWriters ==
  ASSUME [Next]_vars
  PROVE  \/ FileFrontier \/ MainFail \/ MainComplete
         \/ UNCHANGED <<journal, lastFiled>> /\ (outcome' = "error" => outcome = "error")
<1>1. CASE Reader
  BY <1>1 DEF Reader, ReceiveTarget, OpenTarget, ReadBlock, SendBlock, DrainDone, SendBarrier,
     AwaitAck, CheckQuiet, BankTarget, PushEOF, ReportRoot, SendFinal, ReaderExit, fileVars, mainVars
<1>2. CASE Zip
  BY <1>2 DEF Zip, ZipReceive, ZipOffer, ZipPublish, ZipSettle, ZipForward, ZipExit, fileVars, mainVars
<1>3. CASE Gzip
  BY <1>3 DEF Gzip, GzipReceive, GzipOffer, GzipPublish, GzipSettle, GzipForward, GzipExit,
     fileVars, mainVars
<1>4. CASE Wallet \/ Cancel \/ UNCHANGED vars
  BY <1>4 DEF Wallet, WalletReceive, WalletReport, WalletExit, Cancel, vars, fileVars, mainVars
<1>5. CASE Main
  BY <1>5 DEF Main, MainSignal, MainCancel, MainRoot, fileVars
<1> QED
  BY <1>1, <1>2, <1>3, <1>4, <1>5 DEF Next, Returned

LEMMA InitFrontier == AnyStart => FrontierInv
<1> SUFFICES ASSUME AnyStart PROVE FrontierInv
  OBVIOUS
<1> USE ItemKinds
<1>1. BarrierInv
  BY DEF AnyStart, RunStarts, BarrierInv, OnlyLast, EndsWithBarrier
<1>2. NestedFollowed
  BY DEF AnyStart, RunStarts, NestedFollowed
<1>3. RefusalMarked
  BY DEF AnyStart, RunStarts, RefusalMarked
<1>4. PointProven /\ ErrorSettled /\ FrontierProven /\ ErrorKeepsRefusedReachable
  BY DEF AnyStart, RunStarts, PointProven, ErrorSettled, FrontierProven, ErrorKeepsRefusedReachable
<1> QED
  BY <1>1, <1>2, <1>3, <1>4 DEF FrontierInv

LEMMA StepKeepsFrontier ==
  ASSUME Shape, EOFFacts, CompletionInv, FrontierInv, [Next]_vars
  PROVE  FrontierInv'
<1>1. BarrierInv' /\ NestedFollowed' /\ RefusalMarked' /\ ErrorSettled'
  BY StepKeepsBarriers, StepKeepsFollowed, StepMarks, StepKeepsError DEF FrontierInv, CompletionInv
<1>2. PointProven'
  <2>1. CASE FileFrontier
    BY <2>1, FileKeepsFrontier
  <2>2. CASE UNCHANGED lastFiled
    BY <2>2, PassedStays DEF FrontierInv, PointProven, Passed
  <2>3. MainFail \/ MainComplete => UNCHANGED lastFiled
    BY DEF MainFail, MainComplete
  <2> QED
    BY <2>1, <2>2, <2>3, JournalWriters
<1>3. FrontierProven' /\ ErrorKeepsRefusedReachable'
  BY FileKeepsFrontier, FailKeepsFrontier, CompleteKeepsFrontier, OthersKeepFrontier, JournalWriters
<1> QED
  BY <1>1, <1>2, <1>3 DEF FrontierInv

LEMMA FrontierInvariant == Spec => [](Shape /\ EOFFacts /\ CompletionInv /\ FrontierInv)
<1>1. Init => Shape /\ EOFFacts /\ CompletionInv /\ FrontierInv
  BY InitStarts, InitShape, InitEOFFacts, InitCompletion, InitFrontier
<1>2. /\ Shape /\ EOFFacts /\ CompletionInv /\ FrontierInv /\ [Next]_vars
      => (Shape /\ EOFFacts /\ CompletionInv /\ FrontierInv)'
  BY StepKeepsShape, StepKeepsEOFFacts, StepKeepsCompletion, StepKeepsFrontier
<1> QED
  BY <1>1, <1>2, PTL DEF Spec

\* Whatever the input and however the goroutines interleave, a mid-root point
\* that drainFrontier and writeFrontier file never lets a resume skip what was
\* not reported: not a block of the root before the point, not a target that a
\* block before the point leads to, and not one below a banked member.  Only
\* candidates recovered from the root's own bytes are excepted.
THEOREM PointsAreProven == Spec => []FrontierProven
<1>1. FrontierInv => FrontierProven
  BY DEF FrontierInv
<1> QED
  BY <1>1, FrontierInvariant, PTL

\* Whatever the input and the capacity of the gate, the point that runPipeline
\* files when it returns an error keeps within reach of a retry all that was
\* due and not read: what the gate refused included, and only what lies inside
\* an entry recovered from the root's own bytes excepted.
THEOREM ErrorsStrandNothing == Spec => []ErrorKeepsRefusedReachable
<1>1. FrontierInv => ErrorKeepsRefusedReachable
  BY DEF FrontierInv
<1> QED
  BY <1>1, FrontierInvariant, PTL

\* Whatever the input, a scan that ends complete has read every block of every
\* target that the input, the journal it started from and the policies leave it
\* to read, at any depth.
THEOREM CompletionReadsDue ==
  Spec => [](outcome = "complete" => \A t \in Targets : Due[t] => Read(t))
<1>1. Shape /\ EOFFacts /\ CompletionInv => (outcome = "complete" => \A t \in Targets : Due[t] => Read(t))
  BY SuccessReadsDue DEF CompletionInv, Settled
<1> QED
  BY <1>1, FrontierInvariant, PTL

-----------------------------------------------------------------------------
(* Many runs: what a journal passes was reported by the run that filed it   *)
(* or by an earlier one.                                                   *)

\* What a fresh run would have to read at all, from where it is found.
OwedEver(m) ==
  /\ FoundAt[m] \in BlocksEver(Source[m])
  /\ ~TooDeep(m) /\ m \notin TooBig
  /\ Kind[m] = "entry" => Orphan(m)

EverSpreads ==
  /\ \A t \in Targets : DueEver[t] \in BOOLEAN
  /\ DueEver[Root]
  /\ \A m \in Nested : DueEver[m] <=> DueEver[Source[m]] /\ OwedEver(m)

LEMMA EverUnfold == EverSpreads
<1> DEFINE O(m) == /\ Source[m] \notin Unopenable /\ FoundAt[m] \in 1 .. NBlocks[Source[m]]
                   /\ Readable(Source[m], 0, FoundAt[m])
                   /\ ~TooDeep(m) /\ m \notin TooBig
                   /\ Kind[m] = "entry" => Orphan(m)
           P(f) == f = [t \in Targets |-> t = Root \/ (f[Source[t]] /\ O(t))]
           G == [m \in Nested |-> [v \in BOOLEAN |-> v /\ O(m)]]
<1>0. DueEver = CHOOSE g : g = [t \in Targets |->
                  \/ t = Root
                  \/ /\ g[Source[t]]
                     /\ Source[t] \notin Unopenable /\ FoundAt[t] \in 1 .. NBlocks[Source[t]]
                     /\ Readable(Source[t], 0, FoundAt[t])
                     /\ ~TooDeep(t) /\ t \notin TooBig
                     /\ Kind[t] = "entry" => Orphan(t)]
  BY DEF DueEver
<1>1. DueEver = CHOOSE g : P(g)
  BY <1>0
<1>2. \A m \in Nested : O(m) <=> OwedEver(m)
  BY DEF OwedEver, BlocksEver
<1> HIDE DEF O
<1>3. G \in [Nested -> [BOOLEAN -> BOOLEAN]] OBVIOUS
<1>4. PICK f \in [Targets -> BOOLEAN] : f[Root] = TRUE /\ \A m \in Nested : f[m] = G[m][f[Source[m]]]
  <2> DEFINE V == BOOLEAN
             a == TRUE
  <2>1. a \in V OBVIOUS
  <2>2. G \in [Nested -> [V -> V]] BY <1>3
  <2> HIDE DEF G, V, a, Nested
  <2>3. ASSUME NEW g \in [Nested -> [V -> V]]
        PROVE  \E f \in [Targets -> V] : f[Root] = a /\ \A m \in Nested : f[m] = g[m][f[Source[m]]]
    BY <2>1, TreeRecursion
  <2> QED BY <2>2, <2>3 DEF V, a
<1> USE InputAssumption
<1>5. \A m \in Nested : f[m] = (f[Source[m]] /\ O(m)) BY <1>4
<1>6. P(f) BY <1>4, <1>5
<1>7. P(DueEver)
  <2> HIDE DEF P
  <2> QED BY <1>1, <1>6
<1>8. \A t \in Targets : DueEver[t] = (t = Root \/ (DueEver[Source[t]] /\ O(t)))
  BY <1>7
<1> QED BY <1>2, <1>8 DEF EverSpreads

\* What a resume from j does not read again, and what of a target the set D
\* of reports lacks nothing of.
Passes(j, t) == RootBlock[t] <= j.at \/ \E u \in {t} \cup Ancestors[t] : u \in j.bank
AllIn(t, D) == \A n \in BlocksEver(t) : <<t, n>> \in D

JournalVouched(j, D) ==
  /\ \A n \in BlocksEver(Root) : n <= j.at => <<Root, n>> \in D
  /\ \A t \in Nested \ RootEntries : DueEver[t] /\ Passes(j, t) => AllIn(t, D)

RunVouched(D) ==
  /\ \A n \in BlocksEver(Root) : n <= run.start => <<Root, n>> \in D
  /\ \A t \in Nested \ RootEntries : DueEver[t] => Due[t] \/ AllIn(t, D)

RunsInv == JournalVouched(journal, reported \cup delivered) /\ RunVouched(reported)

\* A run must read what a fresh one would, of the root from its start on.
LEMMA EverIsDue ==
  ASSUME run \in Run
  PROVE  /\ \A n \in BlocksEver(Root) : n <= run.start \/ n \in DueBlocks(Root)
         /\ \A t \in Nested : BlocksEver(t) = DueBlocks(t)
<1> USE InputAssumption
<1>1. run.start \in Nat
  BY DEF Run
<1>2. ASSUME NEW n \in BlocksEver(Root), ~(n <= run.start) PROVE n \in DueBlocks(Root)
  <2>1. Root \notin Unopenable /\ n \in 1 .. NBlocks[Root] /\ Readable(Root, 0, n)
    BY DEF BlocksEver
  <2>2. NBlocks[Root] \in Nat
    OBVIOUS
  <2>3. n \in run.start + 1 .. NBlocks[Root]
    BY <1>1, <1>2, <2>1, <2>2
  <2>4. Readable(Root, run.start, n)
    BY <1>1, <2>1, <2>2 DEF Readable
  <2> QED
    BY <2>1, <2>3, <2>4 DEF DueBlocks, ReadFrom
<1>3. ASSUME NEW t \in Nested PROVE BlocksEver(t) = DueBlocks(t)
  <2>1. ReadFrom(t) = 0 /\ 0 + 1 = 1
    BY DEF ReadFrom
  <2> QED
    BY <2>1 DEF BlocksEver, DueBlocks
<1> QED
  BY <1>2, <1>3

\* A run that adopts a journal is spared only what the journal vouches for.
LEMMA AdoptedIsVouched ==
  ASSUME NEW D, AnyStart, JournalVouched(journal, D)
  PROVE  RunVouched(D)
<1> USE InputAssumption
<1>1. journal \in Journal /\ run \in Run /\ run.start <= journal.at /\ run.bank \subseteq journal.bank
  <2>1. journal \in Journal /\ run = adoptResume(journal)
    BY DEF AnyStart, RunStarts
  <2> QED
    BY <2>1 DEF adoptResume, rewindOffset, FreshRun, Run, Journal
<1>2. \A n \in BlocksEver(Root) : n <= run.start => n <= journal.at
  BY <1>1 DEF Run, Journal, BlocksEver
<1> DEFINE E == {t \in Targets : DueEver[t] => Due[t] \/ (t # Root /\ Passes(journal, t))}
<1>3. Root \in E
  BY DueUnfold DEF DueSpreads
<1>4. ASSUME NEW m \in Nested, Source[m] \in E PROVE m \in E
  <2> SUFFICES ASSUME DueEver[m], ~Due[m] PROVE Passes(journal, m)
    OBVIOUS
  <2>1. DueEver[Source[m]] /\ OwedEver(m)
    BY EverUnfold DEF EverSpreads
  <2>2. Ancestors[m] = {Source[m]} \cup Ancestors[Source[m]]
    BY AncestorsUnfold
  <2>3. RootBlock[m] = IF Source[m] = Root THEN FoundAt[m] ELSE RootBlock[Source[m]]
    BY RootBlockUnfold
  <2>4. CASE ~Due[Source[m]]
    <3>1. Source[m] # Root /\ Passes(journal, Source[m])
      BY <1>4, <2>1, <2>4, DueUnfold DEF DueSpreads
    <3> QED
      BY <2>2, <2>3, <3>1 DEF Passes
  <2>5. CASE Due[Source[m]]
    <3>1. ~Owed(m)
      BY <2>5, DueUnfold DEF DueSpreads
    <3>2. CASE m \in run.bank
      BY <1>1, <3>2 DEF Passes
    <3>3. CASE FoundAt[m] \notin DueBlocks(Source[m])
      <4>1. FoundAt[m] \in BlocksEver(Source[m])
        BY <2>1 DEF OwedEver
      <4>2. Source[m] = Root /\ FoundAt[m] <= run.start
        BY <1>1, <3>3, <4>1, EverIsDue
      <4> QED
        BY <1>2, <2>3, <4>1, <4>2 DEF Passes
    <3> QED
      BY <2>1, <3>1, <3>2, <3>3 DEF Owed, OwedEver
  <2> QED
    BY <2>4, <2>5
<1>5. Targets \subseteq E
  BY <1>3, <1>4, TreeInduction
<1>6. ASSUME NEW t \in Nested \ RootEntries, DueEver[t] PROVE Due[t] \/ AllIn(t, D)
  BY <1>5, <1>6 DEF JournalVouched
<1> QED
  BY <1>2, <1>6 DEF RunVouched, JournalVouched

\* No journal vouches for nothing and passes nothing.
LEMMA NoJournalPasses == JournalVouched(NoJournal, {})
<1> USE InputAssumption
<1> DEFINE E == {t \in Targets : t # Root => RootBlock[t] > 0}
<1>1. Root \in E
  OBVIOUS
<1>2. ASSUME NEW m \in Nested, Source[m] \in E PROVE m \in E
  BY <1>2, RootBlockUnfold
<1>3. Targets \subseteq E
  BY <1>1, <1>2, TreeInduction
<1>4. \A n \in BlocksEver(Root) : ~(n <= NoJournal.at)
  BY DEF BlocksEver, NoJournal
<1>5. ASSUME NEW t \in Nested PROVE ~Passes(NoJournal, t)
  BY <1>3, RootBlockUnfold DEF Passes, NoJournal
<1> QED
  BY <1>4, <1>5 DEF JournalVouched

\* A journal that strands nothing is vouched for by its run and those before.
LEMMA StrandingNothingVouches ==
  ASSUME Shape, RunVouched(reported), Stranded \subseteq RootEntries
  PROVE  JournalVouched(journal, reported \cup delivered)
<1> USE InputAssumption
<1>1. run \in Run
  BY DEF Shape, TypeOK, FileTypes
<1>2. Root \notin RootEntries /\ Due[Root]
  BY DueUnfold DEF RootEntries, DueSpreads
<1>3. ASSUME NEW n \in BlocksEver(Root), n <= journal.at PROVE <<Root, n>> \in reported \cup delivered
  <2>1. n <= run.start => <<Root, n>> \in reported
    BY DEF RunVouched
  <2>2. n \in DueBlocks(Root) => <<Root, n>> \in delivered
    BY <1>2, <1>3 DEF Stranded
  <2> QED
    BY <1>1, <2>1, <2>2, EverIsDue
<1>4. ASSUME NEW t \in Nested \ RootEntries, DueEver[t], Passes(journal, t)
      PROVE  AllIn(t, reported \cup delivered)
  <2>1. CASE AllIn(t, reported)
    BY <2>1 DEF AllIn
  <2>2. CASE Due[t]
    <3>1. Read(t)
      BY <1>4, <2>2 DEF Stranded, Passes
    <3> QED
      BY <1>1, <3>1, EverIsDue DEF Read, AllIn
  <2> QED
    BY <1>4, <2>1, <2>2 DEF RunVouched
<1> QED
  BY <1>3, <1>4 DEF JournalVouched

\* With its invariant, a complete run leaves nothing unreported.
LEMMA CompleteRunLosesNothing ==
  ASSUME Shape, EOFFacts, CompletionInv, RunVouched(reported)
  PROVE  NothingLostAcrossRuns
<1> USE InputAssumption
<1> SUFFICES ASSUME outcome = "complete", NEW t \in Targets \ RootEntries, DueEver[t],
                    NEW n \in BlocksEver(t)
             PROVE  <<t, n>> \in reported \cup delivered
  BY DEF NothingLostAcrossRuns
<1>1. run \in Run
  BY DEF Shape, TypeOK, FileTypes
<1>2. \A x \in Targets : Due[x] => Read(x)
  BY SuccessReadsDue DEF CompletionInv, Settled
<1>3. CASE t = Root
  <2>1. Read(Root)
    BY <1>2, DueUnfold DEF DueSpreads
  <2> QED
    BY <1>1, <1>3, <2>1, EverIsDue DEF RunVouched, Read
<1>4. CASE t # Root
  BY <1>1, <1>2, <1>4, EverIsDue DEF RunVouched, AllIn, Read
<1> QED
  BY <1>3, <1>4

\* The next process finds the journal and nothing else.
LEMMA StartRunStarts ==
  ASSUME Shape, StartRun
  PROVE  AnyStart'
<1>1. journal \in Journal
  BY DEF Shape, TypeOK, FileTypes
<1> QED
  BY <1>1 DEF StartRun, AnyStart, RunStarts

\* What holds while one run goes on, and of every run.
ScanInv == /\ Shape /\ GateCounts /\ EOFFacts /\ WalletLeaves /\ BlocksConserved
           /\ CompletionInv /\ FrontierInv

LEMMA StartsScanInv == AnyStart => ScanInv
BY InitShape, InitGateCounts, InitEOFFacts, InitWalletLeaves, InitBlocks, InitCompletion,
   InitFrontier DEF ScanInv

LEMMA StepKeepsScanInv == ScanInv /\ [Next]_vars => ScanInv'
BY StepKeepsShape, StepKeepsGateCounts, StepKeepsEOFFacts, StepKeepsWalletLeaves,
   StepKeepsBlocks, StepKeepsCompletion, StepKeepsFrontier DEF ScanInv

\* A step over the runs is one of the run under way, or starts the next.
LEMMA StepsOfRuns ==
  ASSUME [ResumeNext]_resumeVars
  PROVE  ([Next]_vars /\ UNCHANGED reported) \/ StartRun
BY DEF ResumeNext, resumeVars, Step, Stop, Kill, Retry, Finished, Next

LEMMA RunsKeepScanInv == ScanInv /\ [ResumeNext]_resumeVars => ScanInv'
<1> SUFFICES ASSUME ScanInv, [ResumeNext]_resumeVars PROVE ScanInv'
  OBVIOUS
<1>1. (AnyStart => ScanInv)'
  BY StartsScanInv, PTL
<1>2. StartRun => AnyStart'
  BY StartRunStarts DEF ScanInv
<1> QED
  BY <1>1, <1>2, StepsOfRuns, StepKeepsScanInv

LEMMA ScanInvariant == ResumeSpec => []ScanInv
<1>1. ResumeInit => ScanInv
  BY InitStarts, StartsScanInv DEF ResumeInit
<1> QED
  BY <1>1, RunsKeepScanInv, PTL DEF ResumeSpec

\* A step of a run keeps what the journal and the run are vouched for.
LEMMA StepKeepsRunsInv ==
  ASSUME ScanInv, RunsInv, [Next]_vars, UNCHANGED reported
  PROVE  RunsInv'
<1>1. run' = run /\ delivered \subseteq delivered'
  BY RunFixed, AdmittedGrows DEF ScanInv
<1>2. RunVouched(reported)'
  <2>1. \A t \in Nested : Due[t]' <=> Due[t]
    BY <1>1, DueStays
  <2> QED
    BY <1>1, <2>1 DEF RunsInv, RunVouched, RootEntries
<1>3. CASE UNCHANGED journal
  BY <1>1, <1>2, <1>3 DEF RunsInv, JournalVouched, AllIn, RootEntries
<1>4. CASE Stranded' \subseteq RootEntries
  <2>1. (Shape /\ RunVouched(reported) /\ Stranded \subseteq RootEntries
           => JournalVouched(journal, reported \cup delivered))'
    BY StrandingNothingVouches, PTL
  <2>2. Shape'
    BY StepKeepsShape DEF ScanInv
  <2>3. RootEntries' = RootEntries
    BY DEF RootEntries
  <2> QED
    BY <1>2, <1>4, <2>1, <2>2, <2>3 DEF RunsInv
<1> QED
  BY <1>3, <1>4, JournalWriters, FileKeepsFrontier, FailKeepsFrontier, CompleteKeepsFrontier
     DEF ScanInv

LEMMA StartIsVouched == AnyStart /\ JournalVouched(journal, reported) => RunVouched(reported)
BY AdoptedIsVouched

\* The next run takes over what the last one reported, and its journal.
LEMMA StartKeepsRunsInv ==
  ASSUME ScanInv, RunsInv, StartRun
  PROVE  RunsInv'
<1>1. AnyStart'
  BY StartRunStarts DEF ScanInv
<1>2. journal' = journal /\ reported' = reported \cup delivered /\ delivered' = {}
  BY DEF StartRun
<1>3. JournalVouched(journal, reported)'
  BY <1>2 DEF RunsInv, JournalVouched, AllIn, RootEntries
<1>4. (AnyStart /\ JournalVouched(journal, reported) => RunVouched(reported))'
  BY StartIsVouched, PTL
<1>5. RunVouched(reported)'
  BY <1>1, <1>3, <1>4
<1> QED
  BY <1>2, <1>3, <1>5 DEF RunsInv, JournalVouched, AllIn

\* What each theorem says of one run holds of every run: whatever journal the
\* first finds, however often the scan is killed, cancelled or retried.
THEOREM EveryRunIsSafe ==
  ResumeSpec => [](/\ TypeOK /\ FirstEOFIsLast /\ AckNeverStrands /\ AdmittedSendFits
                   /\ BlocksConserved /\ CompleteMeansRead
                   /\ FrontierProven /\ ErrorKeepsRefusedReachable)
<1>1. ScanInv => /\ TypeOK /\ FirstEOFIsLast /\ AckNeverStrands /\ AdmittedSendFits
                 /\ BlocksConserved /\ CompleteMeansRead
                 /\ FrontierProven /\ ErrorKeepsRefusedReachable
  BY EOFFactsSuffice, LeavingSuffices, GateSuffices, CompletionSuffices
     DEF ScanInv, Shape, FrontierInv
<1> QED
  BY <1>1, ScanInvariant, PTL

\* Whatever the input, the capacities and the number of kills, cancellations
\* and retries: when a scan that began without a journal ends complete, all
\* that the input holds has been reported by that run or by an earlier one.
\* adoptResume, the points of drainFrontier and the error path of runPipeline
\* skip nothing between them but the root's own torn-off entries.
THEOREM NothingIsLost ==
  ASSUME Journals \subseteq {NoJournal}
  PROVE  ResumeSpec => []NothingLostAcrossRuns
<1>1. ResumeInit => RunsInv
  <2> SUFFICES ASSUME ResumeInit PROVE RunsInv
    OBVIOUS
  <2>1. AnyStart /\ journal = NoJournal /\ reported = {} /\ delivered = {}
    BY InitStarts DEF ResumeInit, Init, RunStarts
  <2>2. JournalVouched(journal, {})
    BY <2>1, NoJournalPasses
  <2>3. RunVouched({})
    BY <2>1, <2>2, AdoptedIsVouched
  <2> QED
    BY <2>1, <2>2, <2>3 DEF RunsInv
<1>2. ScanInv /\ RunsInv /\ [ResumeNext]_resumeVars => RunsInv'
  BY StepsOfRuns, StepKeepsRunsInv, StartKeepsRunsInv
<1>3. ScanInv /\ RunsInv => NothingLostAcrossRuns
  BY CompleteRunLosesNothing DEF ScanInv, RunsInv
<1> QED
  BY <1>1, <1>2, <1>3, ScanInvariant, PTL DEF ResumeSpec

-----------------------------------------------------------------------------
(* The inductive invariant.                                                *)

\* The block that reveals m.
Reveals(m) == Block(Source[m], FoundAt[m])

\* y is x, or belongs ahead of it: a block of the same target that lies
\* before it, or the one that reveals the target.
Ahead(y, x) ==
  /\ y.kind = "block" /\ x.kind = "block"
  /\ (y.src = x.src /\ y.n <= x.n) \/ (x.src \in Nested /\ y = Reveals(x.src))

After(S, D) == \A y \in S, x \in D : ~Ahead(y, x)
Elems(q)    == {q[i] : i \in 1 .. Len(q)}
Sorted(q)   == \A i, j \in 1 .. Len(q) : i < j => ~Ahead(q[j], q[i])

\* The line, from the report back to the reader: what has got to each place,
\* or past it.
Told     == {Block(b[1], b[2]) : b \in delivered}
AtReport == Told \cup {wHand}
AtWallet == AtReport \cup Elems(walletQ)
PastGzip == AtWallet \cup {gHand}
AtGzip   == PastGzip \cup Elems(gzipQ)
PastZip  == AtGzip \cup {zHand}
Sent     == PastZip \cup Elems(zipQ)

\* Nothing in the line belongs ahead of what is ahead of it.
LineOrder ==
  /\ After({wHand}, Told) /\ After(Elems(walletQ), AtReport)
  /\ After({gHand}, AtWallet) /\ After(Elems(gzipQ), PastGzip)
  /\ After({zHand}, AtGzip) /\ After(Elems(zipQ), PastZip)
  /\ Sorted(walletQ) /\ Sorted(gzipQ) /\ Sorted(zipQ)

\* Targets taken on whose read has started, or is over.
Opened(t) == /\ t \in admitted /\ ~In(t, scanTargets) /\ t \notin zSlot \cup gSlot
             /\ ~(In(t, stack) /\ t = cur /\ rpc = "open")

\* What was sent was read.
SentIsRead ==
  /\ \A x \in Sent : x.kind = "block" =>
       /\ Opened(x.src) /\ x.n \in 1 .. NBlocks[x.src] /\ x.n <= pos[x.src]
       /\ rpc = "send" /\ x.src = cur => x.n < pos[x.src]
  /\ rpc = "send" => pos[cur] \in 1 .. NBlocks[cur]

\* No block that is due was left out before one that was sent.
NoGaps ==
  \A x \in Sent : x.kind = "block" =>
    \A n \in DueBlocks(x.src) : n < x.n => Block(x.src, n) \in Sent

\* A member is offered when its block passes the stage, and not before.
Revealed ==
  /\ \A m \in Nested : m \in admitted \/ m \in zTodo \cup pending \cup gTodo =>
       Reveals(m) \in (IF Kind[m] = "gzip" THEN PastGzip ELSE PastZip)
  /\ \A m \in zTodo \cup pending \cup zSlot : Kind[m] # "gzip"
  /\ \A m \in gTodo \cup gSlot : Kind[m] = "gzip"

\* Each target is offered once and taken on once.
TakenOnce ==
  /\ \A i, j \in 1 .. Len(scanTargets) : scanTargets[i] = scanTargets[j] => i = j
  /\ \A t \in Targets : In(t, scanTargets) => t \notin zSlot \cup gSlot /\ ~In(t, stack)
  /\ \A t \in zSlot \cup gSlot : ~In(t, stack)
  /\ (zTodo \cup pending \cup gTodo) \cap admitted = {} /\ zTodo \cap pending = {}

\* The scan runs until it is decided; the wallet stage works on blocks.
Undecided ==
  /\ mpc # "done" <=> outcome = "running"
  /\ outcome \in {"complete", "error"} => signaled
  /\ wpc = "report" => wHand.kind = "block"

ContractInv == LineOrder /\ SentIsRead /\ NoGaps /\ Revealed /\ TakenOnce /\ Undecided

-----------------------------------------------------------------------------
(* Queues as parts of the line.                                            *)

LEMMA BlockIsNamed ==
  /\ \A x \in Item : x.kind = "block" => x = Block(x.src, x.n)
  /\ \A t, n : Block(t, n).kind = "block" /\ Block(t, n).src = t /\ Block(t, n).n = n
BY DEF Item, Block

LEMMA AfterLess ==
  ASSUME NEW S, NEW D, After(S, D), NEW S2, NEW D2,
         \A y \in S2 : y.kind = "block" => y \in S,
         \A x \in D2 : x.kind = "block" => x \in D
  PROVE  After(S2, D2)
BY DEF After, Ahead

LEMMA ElemsNone == Elems(<<>>) = {} /\ Sorted(<<>>)
BY DEF Elems, Sorted

LEMMA ElemsAppend ==
  ASSUME NEW q \in Seq(Item), NEW x \in Item
  PROVE  /\ Elems(Append(q, x)) = Elems(q) \cup {x}
         /\ Sorted(q) /\ After({x}, Elems(q)) => Sorted(Append(q, x))
<1>1. /\ Len(q) \in Nat /\ Len(Append(q, x)) = Len(q) + 1 /\ Append(q, x)[Len(q) + 1] = x
      /\ \A i \in 1 .. Len(q) : Append(q, x)[i] = q[i]
  BY AppendProperties
<1>2. Elems(Append(q, x)) = Elems(q) \cup {x}
  <2>1. \A i \in 1 .. Len(q) + 1 : i \in 1 .. Len(q) \/ i = Len(q) + 1
    BY <1>1
  <2>2. \A i \in 1 .. Len(q) : i \in 1 .. Len(q) + 1
    BY <1>1
  <2>3. Len(q) + 1 \in 1 .. Len(q) + 1
    BY <1>1
  <2> QED
    BY <1>1, <2>1, <2>2, <2>3 DEF Elems
<1>3. ASSUME Sorted(q), After({x}, Elems(q)), NEW i \in 1 .. Len(q) + 1, NEW j \in 1 .. Len(q) + 1, i < j
      PROVE  ~Ahead(Append(q, x)[j], Append(q, x)[i])
  <2>1. i \in 1 .. Len(q)
    BY <1>1, <1>3
  <2>2. CASE j \in 1 .. Len(q)
    BY <1>1, <1>3, <2>1, <2>2 DEF Sorted
  <2>3. CASE j = Len(q) + 1
    BY <1>1, <1>3, <2>1, <2>3 DEF After, Elems
  <2> QED
    BY <1>1, <2>2, <2>3
<1> QED
  BY <1>1, <1>2, <1>3 DEF Sorted

LEMMA ElemsTail ==
  ASSUME NEW q \in Seq(Item), q # <<>>
  PROVE  /\ Elems(q) = Elems(Tail(q)) \cup {Head(q)} /\ Head(q) \in Item /\ Tail(q) \in Seq(Item)
         /\ Sorted(q) => Sorted(Tail(q)) /\ After(Elems(Tail(q)), {Head(q)})
<1>1. /\ Len(q) \in Nat /\ Len(q) >= 1 /\ Len(Tail(q)) = Len(q) - 1 /\ Head(q) = q[1] /\ Head(q) \in Item
      /\ Tail(q) \in Seq(Item)
      /\ \A i \in 1 .. Len(Tail(q)) : Tail(q)[i] = q[i + 1]
  BY HeadTailProperties, EmptySeq
<1>2. \A i \in 1 .. Len(Tail(q)) : i + 1 \in 1 .. Len(q)
  BY <1>1
<1>3. \A i \in 1 .. Len(q) : i = 1 \/ (i - 1 \in 1 .. Len(Tail(q)) /\ q[i] = Tail(q)[i - 1])
  BY <1>1
<1>4. Elems(q) = Elems(Tail(q)) \cup {Head(q)}
  <2>1. 1 \in 1 .. Len(q)
    BY <1>1
  <2>2. Elems(q) \subseteq Elems(Tail(q)) \cup {Head(q)}
    BY <1>1, <1>3 DEF Elems
  <2>3. Elems(Tail(q)) \subseteq Elems(q)
    BY <1>1, <1>2 DEF Elems
  <2>4. Head(q) \in Elems(q)
    BY <1>1, <2>1 DEF Elems
  <2> QED
    BY <2>2, <2>3, <2>4
<1>5. ASSUME Sorted(q) PROVE Sorted(Tail(q))
  BY <1>1, <1>2, <1>5 DEF Sorted
<1>6. ASSUME Sorted(q) PROVE After(Elems(Tail(q)), {Head(q)})
  BY <1>1, <1>2, <1>6 DEF Sorted, After, Elems
<1> QED
  BY <1>1, <1>4, <1>5, <1>6

\* A stage takes an item in hand.
LEMMA LineReceive ==
  ASSUME NEW q \in Seq(Item), q # <<>>, Sorted(q), NEW D, NEW D2, D \subseteq D2, After(Elems(q), D2)
  PROVE  After({Head(q)}, D) /\ After(Elems(Tail(q)), D \cup {Head(q)}) /\ Sorted(Tail(q))
BY ElemsTail DEF After

\* A stage passes it on.
LEMMA LineForward ==
  ASSUME NEW q \in Seq(Item), NEW x \in Item, Sorted(q), NEW D, After(Elems(q), D),
         After({x}, D \cup Elems(q))
  PROVE  After(Elems(Append(q, x)), D) /\ Sorted(Append(q, x))
BY ElemsAppend DEF After

LEMMA NothingHeld ==
  /\ Nothing.kind # "block"
  /\ \A D : After({Nothing}, D)
BY ItemKinds DEF After, Ahead

-----------------------------------------------------------------------------
(* The line moves: blocks leave no place but for the next, and keep order. *)

\* Places in the line that a step only adds blocks to.
Passing ==
  /\ \A x : x.kind = "block" /\ x \in Sent => x \in Sent'
  /\ \A x : x.kind = "block" /\ x \in PastZip => x \in PastZip'
  /\ \A x : x.kind = "block" /\ x \in PastGzip => x \in PastGzip'

\* A step that sends nothing more.
Moving ==
  /\ Passing /\ LineOrder'
  /\ \A x : x.kind = "block" /\ x \in Sent' => x \in Sent
  /\ \A x : x.kind = "block" /\ x \in PastZip' => x \in PastZip \/ (ZipReceive /\ x = Head(zipQ))

lineVars == <<zipQ, gzipQ, walletQ, zHand, gHand, wHand, delivered>>

LEMMA LineStays ==
  ASSUME LineOrder, UNCHANGED lineVars
  PROVE  Moving
<1>1. /\ Told' = Told /\ AtReport' = AtReport /\ AtWallet' = AtWallet /\ PastGzip' = PastGzip
      /\ AtGzip' = AtGzip /\ PastZip' = PastZip /\ Sent' = Sent
  BY DEF lineVars, Told, AtReport, AtWallet, PastGzip, AtGzip, PastZip, Sent, Elems
<1>2. LineOrder'
  BY <1>1 DEF LineOrder, lineVars, Elems, Sorted, After
<1> QED
  BY <1>1, <1>2 DEF Moving, Passing

LEMMA ZipMoves ==
  ASSUME Shape, LineOrder, Zip
  PROVE  Moving
<1> USE QueueTypesUsed, NothingHeld
<1>1. CASE ZipReceive
  <2>1. /\ zipQ \in Seq(Item) /\ zipQ # <<>> /\ zipQ' = Tail(zipQ) /\ zHand' = Head(zipQ)
        /\ zHand = Nothing /\ UNCHANGED <<gzipQ, walletQ, gHand, wHand, delivered>>
    BY <1>1 DEF ZipReceive, gzipVars, walletVars, histVars, Shape, StageShape
  <2>2. /\ Told' = Told /\ AtReport' = AtReport /\ AtWallet' = AtWallet /\ PastGzip' = PastGzip
        /\ AtGzip' = AtGzip
    BY <2>1 DEF Told, AtReport, AtWallet, PastGzip, AtGzip, Elems
  <2>3. PastZip' = AtGzip \cup {Head(zipQ)} /\ PastZip = AtGzip \cup {Nothing}
    BY <2>1, <2>2 DEF PastZip
  <2>4. Sent' = AtGzip \cup Elems(zipQ) /\ Sent = AtGzip \cup Elems(zipQ) \cup {Nothing}
    BY <2>1, <2>3, ElemsTail DEF Sent
  <2>5. /\ After({Head(zipQ)}, AtGzip) /\ After(Elems(zipQ'), PastZip') /\ Sorted(zipQ')
    BY <2>1, <2>3, LineReceive DEF LineOrder
  <2>6. LineOrder'
    BY <2>1, <2>2, <2>5 DEF LineOrder, Elems, Sorted, After
  <2> QED
    BY <1>1, <2>2, <2>3, <2>4, <2>6 DEF Moving, Passing
<1>2. CASE ZipForward
  <2>1. /\ gzipQ \in Seq(Item) /\ zHand \in Item /\ gzipQ' = Append(gzipQ, zHand) /\ zHand' = Nothing
        /\ UNCHANGED <<zipQ, walletQ, gHand, wHand, delivered>>
    BY <1>2 DEF ZipForward, gzipVars, walletVars, histVars, Shape, StageShape, TypeOK, ZipTypes, Nothing
  <2>2. /\ Told' = Told /\ AtReport' = AtReport /\ AtWallet' = AtWallet /\ PastGzip' = PastGzip
    BY <2>1 DEF Told, AtReport, AtWallet, PastGzip, Elems
  <2>3. AtGzip' = AtGzip \cup {zHand}
    BY <2>1, <2>2, ElemsAppend DEF AtGzip
  <2>4. PastZip' = PastZip \cup {Nothing}
    BY <2>1, <2>3 DEF PastZip
  <2>5. Sent' = Sent \cup {Nothing}
    BY <2>1, <2>4 DEF Sent, Elems
  <2>6. After(Elems(gzipQ'), PastGzip) /\ Sorted(gzipQ')
    BY <2>1, LineForward DEF LineOrder, AtGzip
  <2>7. After(Elems(zipQ), PastZip')
    BY <2>4, AfterLess DEF LineOrder
  <2>8. After({zHand'}, AtGzip')
    BY <2>1
  <2>9. LineOrder'
    BY <2>1, <2>2, <2>6, <2>7, <2>8 DEF LineOrder, Elems, Sorted, After
  <2> QED
    BY <2>2, <2>4, <2>5, <2>9 DEF Moving, Passing
<1>3. CASE ZipSettle /\ zSwallow
  <2>1. /\ zHand.kind = "eof" /\ zHand' = Nothing
        /\ UNCHANGED <<zipQ, gzipQ, walletQ, gHand, wHand, delivered>>
    BY <1>3 DEF ZipSettle, zSwallow, flushing, queueVars, gzipVars, walletVars, histVars
  <2>2. /\ Told' = Told /\ AtReport' = AtReport /\ AtWallet' = AtWallet /\ PastGzip' = PastGzip
        /\ AtGzip' = AtGzip
    BY <2>1 DEF Told, AtReport, AtWallet, PastGzip, AtGzip, Elems
  <2>3. PastZip' = AtGzip \cup {Nothing} /\ PastZip = AtGzip \cup {zHand}
    BY <2>1, <2>2 DEF PastZip
  <2>4. Sent' = PastZip' \cup Elems(zipQ) /\ Sent = PastZip \cup Elems(zipQ)
    BY <2>1 DEF Sent, Elems
  <2>5. After(Elems(zipQ), PastZip')
    BY <2>1, <2>3, AfterLess DEF LineOrder
  <2>6. LineOrder'
    BY <2>1, <2>2, <2>5 DEF LineOrder, Elems, Sorted, After
  <2> QED
    BY <2>1, <2>2, <2>3, <2>4, <2>6 DEF Moving, Passing
<1>4. CASE (\E m \in Nested : ZipOffer(m)) \/ ZipPublish \/ (ZipSettle /\ ~zSwallow) \/ ZipExit
  <2>1. UNCHANGED lineVars
    BY <1>4 DEF ZipOffer, ZipPublish, ZipSettle, ZipExit, lineVars, queueVars, gzipVars, walletVars, histVars
  <2> QED
    BY <2>1, LineStays
<1> QED
  BY <1>1, <1>2, <1>3, <1>4 DEF Zip

LEMMA GzipMoves ==
  ASSUME Shape, LineOrder, Gzip
  PROVE  Moving
<1> USE QueueTypesUsed, NothingHeld
<1>1. CASE GzipReceive
  <2>1. /\ gzipQ \in Seq(Item) /\ gzipQ # <<>> /\ gzipQ' = Tail(gzipQ) /\ gHand' = Head(gzipQ)
        /\ gHand = Nothing /\ UNCHANGED <<zipQ, walletQ, zHand, wHand, delivered>>
    BY <1>1 DEF GzipReceive, zipVars, walletVars, histVars, Shape, StageShape
  <2>2. Told' = Told /\ AtReport' = AtReport /\ AtWallet' = AtWallet
    BY <2>1 DEF Told, AtReport, AtWallet, Elems
  <2>3. PastGzip' = AtWallet \cup {Head(gzipQ)} /\ PastGzip = AtWallet \cup {Nothing}
    BY <2>1, <2>2 DEF PastGzip
  <2>4. AtGzip' = AtWallet \cup Elems(gzipQ) /\ AtGzip = AtGzip' \cup {Nothing}
    BY <2>1, <2>3, ElemsTail DEF AtGzip
  <2>5. PastZip = PastZip' \cup {Nothing} /\ Sent = Sent' \cup {Nothing}
    BY <2>1, <2>4 DEF PastZip, Sent, Elems
  <2>6. /\ After({Head(gzipQ)}, AtWallet) /\ After(Elems(gzipQ'), PastGzip') /\ Sorted(gzipQ')
    BY <2>1, <2>3, LineReceive DEF LineOrder
  <2>7. After({zHand}, AtGzip') /\ After(Elems(zipQ), PastZip')
    BY <2>4, <2>5, AfterLess DEF LineOrder
  <2>8. LineOrder'
    BY <2>1, <2>2, <2>6, <2>7 DEF LineOrder, Elems, Sorted, After
  <2> QED
    BY <2>3, <2>5, <2>8 DEF Moving, Passing
<1>2. CASE GzipForward
  <2>1. /\ walletQ \in Seq(Item) /\ gHand \in Item /\ walletQ' = Append(walletQ, gHand) /\ gHand' = Nothing
        /\ UNCHANGED <<zipQ, gzipQ, zHand, wHand, delivered>>
    BY <1>2 DEF GzipForward, zipVars, walletVars, histVars, Shape, StageShape, TypeOK, GzipTypes, Nothing
  <2>2. Told' = Told /\ AtReport' = AtReport
    BY <2>1 DEF Told, AtReport
  <2>3. AtWallet' = AtWallet \cup {gHand}
    BY <2>1, <2>2, ElemsAppend DEF AtWallet
  <2>4. PastGzip' = PastGzip \cup {Nothing}
    BY <2>1, <2>3 DEF PastGzip
  <2>5. AtGzip' = AtGzip \cup {Nothing}
    BY <2>1, <2>4 DEF AtGzip, Elems
  <2>6. PastZip' = PastZip \cup {Nothing} /\ Sent' = Sent \cup {Nothing}
    BY <2>1, <2>5 DEF PastZip, Sent, Elems
  <2>7. After(Elems(walletQ'), AtReport) /\ Sorted(walletQ')
    BY <2>1, LineForward DEF LineOrder, AtWallet
  <2>8. After(Elems(gzipQ), PastGzip') /\ After({zHand}, AtGzip') /\ After(Elems(zipQ), PastZip')
    BY <2>4, <2>5, <2>6, AfterLess DEF LineOrder
  <2>9. After({gHand'}, AtWallet')
    BY <2>1
  <2>10. LineOrder'
    BY <2>1, <2>2, <2>7, <2>8, <2>9 DEF LineOrder, Elems, Sorted, After
  <2> QED
    BY <2>4, <2>6, <2>10 DEF Moving, Passing
<1>3. CASE GzipSettle /\ gSwallow
  <2>1. /\ gHand.kind = "eof" /\ gHand' = Nothing
        /\ UNCHANGED <<zipQ, gzipQ, walletQ, zHand, wHand, delivered>>
    BY <1>3 DEF GzipSettle, gSwallow, queueVars, zipVars, walletVars, histVars
  <2>2. Told' = Told /\ AtReport' = AtReport /\ AtWallet' = AtWallet
    BY <2>1 DEF Told, AtReport, AtWallet, Elems
  <2>3. PastGzip' = AtWallet \cup {Nothing} /\ PastGzip = AtWallet \cup {gHand}
    BY <2>1, <2>2 DEF PastGzip
  <2>4. /\ AtGzip' = PastGzip' \cup Elems(gzipQ) /\ AtGzip = PastGzip \cup Elems(gzipQ)
        /\ PastZip' = AtGzip' \cup {zHand} /\ PastZip = AtGzip \cup {zHand}
        /\ Sent' = PastZip' \cup Elems(zipQ) /\ Sent = PastZip \cup Elems(zipQ)
    BY <2>1 DEF AtGzip, PastZip, Sent, Elems
  <2>5. After(Elems(gzipQ), PastGzip') /\ After({zHand}, AtGzip') /\ After(Elems(zipQ), PastZip')
    BY <2>1, <2>3, <2>4, AfterLess DEF LineOrder
  <2>6. LineOrder'
    BY <2>1, <2>2, <2>5 DEF LineOrder, Elems, Sorted, After
  <2> QED
    BY <2>1, <2>3, <2>4, <2>6 DEF Moving, Passing
<1>4. CASE (\E m \in Nested : GzipOffer(m)) \/ GzipPublish \/ (GzipSettle /\ ~gSwallow) \/ GzipExit
  <2>1. UNCHANGED lineVars
    BY <1>4 DEF GzipOffer, GzipPublish, GzipSettle, GzipExit, lineVars, queueVars, zipVars, walletVars, histVars
  <2> QED
    BY <2>1, LineStays
<1> QED
  BY <1>1, <1>2, <1>3, <1>4 DEF Gzip

LEMMA WalletMoves ==
  ASSUME Shape, StageEnds, Undecided, LineOrder, Wallet
  PROVE  Moving
<1> USE QueueTypesUsed, NothingHeld
<1>1. CASE WalletReceive
  <2> DEFINE item == Head(walletQ)
  <2>1. /\ walletQ \in Seq(Item) /\ walletQ # <<>> /\ walletQ' = Tail(walletQ) /\ wHand = Nothing
        /\ wHand' = item \/ (wHand' = Nothing /\ item.kind # "block")
        /\ UNCHANGED <<zipQ, gzipQ, zHand, gHand, delivered>>
    <3>1. wpc = "recv" => wHand = Nothing
      BY DEF StageEnds
    <3> QED
      BY <1>1, <3>1 DEF WalletReceive, zipVars, gzipVars, histVars
  <2>2. Told' = Told /\ AtReport' = Told \cup {wHand'} /\ AtReport = Told \cup {Nothing}
    BY <2>1 DEF Told, AtReport
  <2>3. AtWallet = Told \cup {Nothing} \cup Elems(walletQ') \cup {item}
    BY <2>1, <2>2, ElemsTail DEF AtWallet
  <2>4. AtWallet' = Told \cup {wHand'} \cup Elems(walletQ')
    BY <2>2 DEF AtWallet
  <2> HIDE DEF item
  <2>5. \A x : x.kind = "block" => (x \in AtWallet' <=> x \in AtWallet)
    BY <2>1, <2>3, <2>4
  <2>6. /\ PastGzip' = AtWallet' \cup {gHand} /\ PastGzip = AtWallet \cup {gHand}
        /\ AtGzip' = PastGzip' \cup Elems(gzipQ) /\ AtGzip = PastGzip \cup Elems(gzipQ)
        /\ PastZip' = AtGzip' \cup {zHand} /\ PastZip = AtGzip \cup {zHand}
        /\ Sent' = PastZip' \cup Elems(zipQ) /\ Sent = PastZip \cup Elems(zipQ)
    BY <2>1 DEF PastGzip, AtGzip, PastZip, Sent, Elems
  <2>7. After({item}, Told) /\ After(Elems(walletQ'), Told \cup {item}) /\ Sorted(walletQ')
    BY <2>1, <2>2, LineReceive DEF LineOrder, item
  <2>8. After({wHand'}, Told') /\ After(Elems(walletQ'), AtReport')
    <3>1. CASE wHand' = item
      BY <2>2, <2>7, <3>1
    <3>2. CASE wHand' = Nothing
      BY <2>2, <2>7, <3>2, AfterLess
    <3> QED
      BY <2>1, <3>1, <3>2
  <2>9. /\ After({gHand}, AtWallet') /\ After(Elems(gzipQ), PastGzip')
        /\ After({zHand}, AtGzip') /\ After(Elems(zipQ), PastZip')
    BY <2>5, <2>6, AfterLess DEF LineOrder
  <2>10. LineOrder'
    BY <2>1, <2>7, <2>8, <2>9 DEF LineOrder, Elems, Sorted, After
  <2> QED
    BY <2>5, <2>6, <2>10 DEF Moving, Passing
<1>2. CASE WalletReport
  <2>1. /\ wHand \in Item /\ wHand.kind = "block" /\ wHand' = Nothing
        /\ delivered' = delivered \cup {<<wHand.src, wHand.n>>}
        /\ UNCHANGED <<zipQ, gzipQ, walletQ, zHand, gHand>>
    BY <1>2 DEF WalletReport, Undecided, Shape, TypeOK, WalletTypes, zipVars, gzipVars
  <2>2. Told' = Told \cup {wHand}
    <3>1. wHand = Block(wHand.src, wHand.n)
      BY <2>1, BlockIsNamed
    <3>2. \A b : b \in delivered' <=> b \in delivered \/ b = <<wHand.src, wHand.n>>
      BY <2>1
    <3>3. Told' = {Block(b[1], b[2]) : b \in delivered'}
      BY DEF Told, Block
    <3>4. <<wHand.src, wHand.n>>[1] = wHand.src /\ <<wHand.src, wHand.n>>[2] = wHand.n
      OBVIOUS
    <3> QED
      BY <3>1, <3>2, <3>3, <3>4 DEF Told
  <2>3. AtReport' = AtReport \cup {Nothing}
    BY <2>1, <2>2 DEF AtReport
  <2>4. /\ AtWallet' = AtReport' \cup Elems(walletQ) /\ AtWallet = AtReport \cup Elems(walletQ)
        /\ PastGzip' = AtWallet' \cup {gHand} /\ PastGzip = AtWallet \cup {gHand}
        /\ AtGzip' = PastGzip' \cup Elems(gzipQ) /\ AtGzip = PastGzip \cup Elems(gzipQ)
        /\ PastZip' = AtGzip' \cup {zHand} /\ PastZip = AtGzip \cup {zHand}
        /\ Sent' = PastZip' \cup Elems(zipQ) /\ Sent = PastZip \cup Elems(zipQ)
    BY <2>1 DEF AtWallet, PastGzip, AtGzip, PastZip, Sent, Elems
  <2>5. /\ After(Elems(walletQ), AtReport') /\ After({gHand}, AtWallet')
        /\ After(Elems(gzipQ), PastGzip') /\ After({zHand}, AtGzip') /\ After(Elems(zipQ), PastZip')
    BY <2>3, <2>4, AfterLess DEF LineOrder
  <2>6. LineOrder'
    BY <2>1, <2>5 DEF LineOrder, Elems, Sorted, After
  <2> QED
    BY <2>3, <2>4, <2>6 DEF Moving, Passing
<1>3. CASE WalletExit
  <2>1. UNCHANGED lineVars
    BY <1>3 DEF WalletExit, lineVars, queueVars, zipVars, gzipVars, histVars
  <2> QED
    BY <2>1, LineStays
<1> QED
  BY <1>1, <1>2, <1>3 DEF Wallet

LEMMA ReaderMoves ==
  ASSUME Shape, LineOrder, Reader, ~SendBlock
  PROVE  Moving
<1> USE QueueTypesUsed, NothingHeld
<1>1. UNCHANGED <<gzipQ, walletQ, zHand, gHand, wHand, delivered>>
  BY ReaderLeaves DEF zipVars, gzipVars, walletVars, histVars
<1>2. CASE SendBarrier \/ PushEOF
  <2>1. PICK x \in Item : x.kind # "block" /\ zipQ' = Append(zipQ, x)
    BY <1>2, ItemKinds DEF SendBarrier, PushEOF
  <2>2. /\ Told' = Told /\ AtReport' = AtReport /\ AtWallet' = AtWallet /\ PastGzip' = PastGzip
        /\ AtGzip' = AtGzip /\ PastZip' = PastZip
    BY <1>1 DEF Told, AtReport, AtWallet, PastGzip, AtGzip, PastZip, Elems
  <2>3. Elems(zipQ') = Elems(zipQ) \cup {x}
    BY <2>1, ElemsAppend
  <2>4. After({x}, Elems(zipQ))
    BY <2>1 DEF After, Ahead
  <2>5. Sorted(zipQ') /\ After(Elems(zipQ'), PastZip)
    BY <2>1, <2>3, <2>4, ElemsAppend, AfterLess DEF LineOrder
  <2>6. LineOrder'
    BY <1>1, <2>2, <2>5 DEF LineOrder, Elems, Sorted, After
  <2>7. Sent' = Sent \cup {x}
    BY <2>2, <2>3 DEF Sent
  <2> QED
    BY <2>1, <2>2, <2>6, <2>7 DEF Moving, Passing
<1>3. CASE UNCHANGED zipQ
  BY <1>1, <1>3, LineStays DEF lineVars
<1>4. SendBarrier \/ PushEOF \/ UNCHANGED zipQ
  BY DEF Reader, ReceiveTarget, OpenTarget, ReadBlock, DrainDone, AwaitAck, CheckQuiet, FileFrontier,
     BankTarget, ReportRoot, SendFinal, ReaderExit, queueVars
<1> QED
  BY <1>2, <1>3, <1>4

\* The reader sends a block: nothing sent before belongs behind it.
LEMMA SendingKeepsLine ==
  ASSUME Shape, LineOrder, SentIsRead, Revealed, SendBlock
  PROVE  /\ Passing /\ LineOrder' /\ cur \in Targets /\ pos[cur] \in Nat
         /\ Sent' = Sent \cup {Block(cur, pos[cur])} /\ PastZip' = PastZip /\ PastGzip' = PastGzip
<1> DEFINE x == Block(cur, pos[cur])
<1> USE QueueTypesUsed
<1>1. cur \in Targets /\ pos[cur] \in Nat /\ rpc = "send"
  BY StackCurrent DEF SendBlock, Shape, TypeOK, ReaderTypes
<1>2. x \in Item /\ x.kind = "block" /\ x.src = cur /\ x.n = pos[cur]
  BY <1>1, BlockNames
<1>3. zipQ' = Append(zipQ, x) /\ UNCHANGED <<gzipQ, walletQ, zHand, gHand, wHand, delivered>>
  BY DEF SendBlock, zipVars, gzipVars, walletVars, histVars
<1> HIDE DEF x
<1>4. /\ Told' = Told /\ AtReport' = AtReport /\ AtWallet' = AtWallet /\ PastGzip' = PastGzip
      /\ AtGzip' = AtGzip /\ PastZip' = PastZip
  BY <1>3 DEF Told, AtReport, AtWallet, PastGzip, AtGzip, PastZip, Elems
<1>5. Elems(zipQ') = Elems(zipQ) \cup {x}
  BY <1>2, <1>3, ElemsAppend
<1>6. Sent' = Sent \cup {x}
  BY <1>4, <1>5 DEF Sent
<1>7. ASSUME NEW y \in Sent PROVE ~Ahead(x, y)
  <2>1. SUFFICES ASSUME Ahead(x, y) PROVE FALSE
    OBVIOUS
  <2>2. y.kind = "block" /\ Opened(y.src) /\ y.n \in Nat /\ (y.src = cur => y.n < pos[cur])
    BY <1>1, <2>1 DEF SentIsRead, Ahead
  <2>3. CASE x.src = y.src /\ x.n <= y.n
    BY <1>1, <1>2, <2>2, <2>3
  <2>4. CASE y.src \in Nested /\ x = Reveals(y.src)
    <3>1. x \in Sent
      BY <2>2, <2>4 DEF Opened, Revealed, Sent, PastZip, AtGzip
    <3> QED
      BY <1>1, <1>2, <3>1 DEF SentIsRead
  <2> QED
    BY <2>1, <2>3, <2>4 DEF Ahead
<1>8. Sorted(zipQ') /\ After(Elems(zipQ'), PastZip)
  <2>1. After({x}, PastZip) /\ After({x}, Elems(zipQ))
    BY <1>7 DEF After, Sent
  <2> QED
    BY <1>2, <1>3, <1>5, <2>1, ElemsAppend DEF LineOrder, After
<1>9. LineOrder'
  BY <1>3, <1>4, <1>8 DEF LineOrder, Elems, Sorted, After
<1> QED
  BY <1>1, <1>4, <1>6, <1>9 DEF Passing, x

\* Every step keeps the line, and only SendBlock adds to it.
LEMMA StepMoves ==
  ASSUME Shape, StageEnds, ContractInv, [Next]_vars
  PROVE  \/ Moving /\ ~SendBlock
         \/ /\ SendBlock /\ Passing /\ LineOrder' /\ cur \in Targets /\ pos[cur] \in Nat
            /\ Sent' = Sent \cup {Block(cur, pos[cur])} /\ PastZip' = PastZip /\ PastGzip' = PastGzip
<1> USE DEF ContractInv
<1>1. CASE Main \/ Cancel \/ UNCHANGED vars
  <2>1. UNCHANGED lineVars
    BY <1>1 DEF Main, MainSignal, MainCancel, MainRoot, MainFail, MainComplete, Cancel, vars, lineVars,
       queueVars, zipVars, gzipVars, walletVars, histVars
  <2>2. ~SendBlock
    <3>1. UNCHANGED rpc
      BY <1>1, OthersCarry DEF readerVars
    <3>2. SendBlock => rpc' # rpc
      BY DEF SendBlock, AfterBlock
    <3> QED
      BY <3>1, <3>2
  <2> QED
    BY <2>1, <2>2, LineStays
<1>2. CASE Zip \/ Gzip \/ Wallet
  <2>1. UNCHANGED rpc
    BY <1>2 DEF Zip, ZipReceive, ZipOffer, ZipPublish, ZipSettle, ZipForward, ZipExit,
       Gzip, GzipReceive, GzipOffer, GzipPublish, GzipSettle, GzipForward, GzipExit,
       Wallet, WalletReceive, WalletReport, WalletExit, readerVars
  <2>2. SendBlock => rpc' # rpc
    BY DEF SendBlock, AfterBlock
  <2> QED
    BY <1>2, <2>1, <2>2, ZipMoves, GzipMoves, WalletMoves
<1>3. CASE Reader
  BY <1>3, ReaderMoves, SendingKeepsLine
<1> QED
  BY <1>1, <1>2, <1>3 DEF Next, Returned

-----------------------------------------------------------------------------
(* What was sent was read.                                                 *)

LEMMA SentItems ==
  ASSUME Shape, NEW x \in Sent, x.kind = "block"
  PROVE  x \in Item /\ x.src \in Targets /\ x.n \in Nat
<1>1. x \in Told => x \in Item
  BY BlockNames DEF Told, Shape, TypeOK, HistTypes
<1>2. \A q \in Seq(Item) : Elems(q) \subseteq Item
  BY DEF Elems
<1>3. x \in Elems(zipQ) \cup Elems(gzipQ) \cup Elems(walletQ) => x \in Item
  BY <1>2, QueueTypesUsed
<1>4. x \in {wHand, gHand, zHand} => x \in Item
  BY NothingHeld DEF Shape, TypeOK, ZipTypes, GzipTypes, WalletTypes
<1>5. x \in Item
  BY <1>1, <1>3, <1>4 DEF Sent, PastZip, AtGzip, PastGzip, AtWallet, AtReport
<1> QED
  BY <1>5 DEF Item

\* Once opened, a target is never offered, published or received again.
LEMMA OpenedStays ==
  ASSUME Shape, Revealed, TakenOnce, [Next]_vars, NEW t \in Targets, Opened(t)
  PROVE  Opened(t)'
<1> USE QueueTypesUsed
<1>1. t \in admitted' /\ t \in admitted
  BY AdmittedGrows DEF Opened
<1>2. CASE ReceiveTarget
  <2>1. UNCHANGED <<zSlot, gSlot>> /\ cur' = Head(scanTargets) /\ t # Head(scanTargets)
    BY <1>2, Receiving DEF ReceiveTarget, zipVars, gzipVars, Opened
  <2>2. ~In(t, scanTargets')
    BY <1>2, Receiving DEF Opened
  <2> QED
    BY <1>1, <2>1, <2>2 DEF Opened
<1>3. CASE Reader /\ ~ReceiveTarget
  <2>1. UNCHANGED <<scanTargets, zSlot, gSlot>>
    BY <1>3 DEF Reader, OpenTarget, ReadBlock, SendBlock, DrainDone, SendBarrier, AwaitAck, CheckQuiet,
       FileFrontier, BankTarget, PushEOF, ReportRoot, SendFinal, ReaderExit, queueVars, zipVars, gzipVars
  <2>2. rpc' # "open"
    BY <1>3 DEF Reader, OpenTarget, ReadBlock, SendBlock, DrainDone, SendBarrier, AwaitAck, CheckQuiet,
       FileFrontier, BankTarget, PushEOF, ReportRoot, SendFinal, ReaderExit, AfterBlock
  <2> QED
    BY <1>1, <2>1, <2>2 DEF Opened, In
<1>4. ASSUME NEW m \in Nested, ZipOffer(m) \/ GzipOffer(m) PROVE Opened(t)'
  <2>1. /\ UNCHANGED <<scanTargets, rpc, stack>> /\ m \notin admitted
        /\ (zSlot \cup gSlot)' \subseteq zSlot \cup gSlot \cup {m}
    BY <1>4 DEF ZipOffer, GzipOffer, TakenOnce, queueVars, readerVars, zipVars, gzipVars
  <2> QED
    BY <1>1, <2>1 DEF Opened, In, cur
<1>5. CASE ZipPublish \/ GzipPublish
  <2>1. PICK m \in zSlot \cup gSlot : scanTargets' = Append(scanTargets, m)
    BY <1>5 DEF ZipPublish, GzipPublish
  <2>2. m \in Targets /\ t # m /\ scanTargets \in Seq(Targets)
    BY <2>1 DEF Opened, Shape, TypeOK, ZipTypes, GzipTypes
  <2>3. ~In(t, scanTargets')
    BY <2>1, <2>2, InAppend DEF Opened
  <2>4. UNCHANGED <<rpc, stack>> /\ (zSlot \cup gSlot)' \subseteq zSlot \cup gSlot
    BY <1>5 DEF ZipPublish, GzipPublish, readerVars, zipVars, gzipVars
  <2> QED
    BY <1>1, <2>3, <2>4 DEF Opened, In, cur
<1>6. CASE UNCHANGED <<scanTargets, rpc, stack, zSlot, gSlot>>
  BY <1>1, <1>6 DEF Opened, In, cur
<1>7. Zip => (\E m \in Nested : ZipOffer(m)) \/ ZipPublish \/ UNCHANGED <<scanTargets, rpc, stack, zSlot, gSlot>>
  BY DEF Zip, ZipReceive, ZipSettle, ZipForward, ZipExit, queueVars, readerVars, gzipVars
<1>8. Gzip => (\E m \in Nested : GzipOffer(m)) \/ GzipPublish \/ UNCHANGED <<scanTargets, rpc, stack, zSlot, gSlot>>
  BY DEF Gzip, GzipReceive, GzipSettle, GzipForward, GzipExit, queueVars, readerVars, zipVars
<1>9. Wallet \/ Main \/ Cancel \/ UNCHANGED vars => UNCHANGED <<scanTargets, rpc, stack, zSlot, gSlot>>
  BY OthersCarry DEF readerVars, zipVars, gzipVars
<1> QED
  BY <1>2, <1>3, <1>4, <1>5, <1>6, <1>7, <1>8, <1>9 DEF Next, Returned

\* The read position of an opened target only moves on, and it is ahead of
\* what was sent whenever a block is about to be.
LEMMA OpenedReadsOn ==
  ASSUME Shape, SentIsRead, [Next]_vars, NEW t \in Targets
  PROVE  /\ Opened(t) =>
              /\ pos'[t] \in Nat /\ pos[t] \in Nat /\ pos'[t] >= pos[t]
              /\ rpc' = "send" /\ t = cur' => pos'[t] > pos[t] \/ (rpc = "send" /\ t = cur)
         /\ rpc' = "send" => pos'[cur'] \in 1 .. NBlocks[cur']
<1>1. pos[t] \in Nat /\ pos'[t] \in Nat /\ pos \in [Targets -> Nat]
  BY StepKeepsShape DEF Shape, TypeOK, ReaderTypes
<1>2. CASE OpenTarget
  <2>1. cur \in Targets /\ (Opened(t) => t # cur) /\ rpc' # "send"
    <3>1. stack # <<>> /\ cur \in Targets /\ rpc = "open" /\ rpc' # "send"
      BY <1>2, StackCurrent DEF OpenTarget
    <3>2. In(cur, stack)
      <4>1. Len(stack) \in 1 .. Len(stack)
        BY <3>1, EmptySeq DEF Shape, TypeOK, ReaderTypes
      <4> QED
        BY <4>1 DEF In, cur
    <3> QED
      BY <3>1, <3>2 DEF Opened
  <2>2. Opened(t) => pos'[t] = pos[t]
    BY <1>1, <1>2, <2>1 DEF OpenTarget
  <2> QED
    BY <1>1, <2>1, <2>2
<1>3. CASE ReadBlock
  <2>1. cur \in Targets /\ UNCHANGED stack /\ rpc = "take"
    BY <1>3, StackCurrent DEF ReadBlock
  <2>2. cur' = cur /\ pos[cur] \in Nat /\ NBlocks[cur] \in Nat
    BY <1>1, <2>1, SameCur, InputAssumption
  <2>3. (UNCHANGED pos /\ rpc' # "send") \/ (pos' = [pos EXCEPT ![cur] = pos[cur] + 1] /\ pos[cur] < NBlocks[cur])
    BY <1>3 DEF ReadBlock
  <2> QED
    BY <1>1, <2>1, <2>2, <2>3
<1>4. CASE UNCHANGED <<rpc, stack, pos>>
  BY <1>1, <1>4 DEF SentIsRead, cur
<1>5. CASE UNCHANGED pos /\ rpc' # "send"
  BY <1>1, <1>5
<1>6. Reader => OpenTarget \/ ReadBlock \/ (UNCHANGED pos /\ rpc' # "send")
  BY DEF Reader, ReceiveTarget, SendBlock, DrainDone, SendBarrier, AwaitAck, CheckQuiet,
     FileFrontier, BankTarget, PushEOF, ReportRoot, SendFinal, ReaderExit, AfterBlock
<1>7. Zip \/ Gzip => UNCHANGED <<rpc, stack, pos>>
  BY DEF Zip, ZipReceive, ZipOffer, ZipPublish, ZipSettle, ZipForward, ZipExit,
     Gzip, GzipReceive, GzipOffer, GzipPublish, GzipSettle, GzipForward, GzipExit, readerVars
<1>8. Wallet \/ Main \/ Cancel \/ UNCHANGED vars => UNCHANGED <<rpc, stack, pos>>
  BY OthersCarry DEF readerVars
<1> QED
  BY <1>2, <1>3, <1>4, <1>5, <1>6, <1>7, <1>8 DEF Next, Returned

LEMMA StepSent ==
  ASSUME Shape, StageEnds, Known, ContractInv, [Next]_vars
  PROVE  SentIsRead'
<1> USE DEF ContractInv
<1>1. Root \in Targets
  BY InputAssumption
<1>2. rpc' = "send" => pos'[cur'] \in 1 .. NBlocks[cur']
  BY <1>1, OpenedReadsOn
<1>3. ASSUME NEW x \in Sent, x.kind = "block"
      PROVE  /\ Opened(x.src)' /\ x.n \in 1 .. NBlocks[x.src] /\ x.n <= pos'[x.src]
             /\ rpc' = "send" /\ x.src = cur' => x.n < pos'[x.src]
  <2>1. /\ Opened(x.src) /\ x.n \in 1 .. NBlocks[x.src] /\ x.n <= pos[x.src]
        /\ rpc = "send" /\ x.src = cur => x.n < pos[x.src]
        /\ x.src \in Targets /\ x.n \in Nat
    BY <1>3, SentItems DEF SentIsRead
  <2>2. Opened(x.src)'
    <3> DEFINE t == x.src
    <3>1. t \in Targets /\ Opened(t)
      BY <2>1
    <3> HIDE DEF t
    <3>2. Opened(t)'
      BY <3>1, OpenedStays
    <3> QED
      BY <3>2 DEF t
  <2>3. /\ pos'[x.src] \in Nat /\ pos[x.src] \in Nat /\ pos'[x.src] >= pos[x.src]
        /\ rpc' = "send" /\ x.src = cur' => pos'[x.src] > pos[x.src] \/ (rpc = "send" /\ x.src = cur)
    BY <2>1, OpenedReadsOn
  <2> QED
    BY <2>1, <2>2, <2>3
<1>4. CASE ~SendBlock
  <2>1. \A x : x.kind = "block" /\ x \in Sent' => x \in Sent
    BY <1>4, StepMoves DEF Moving
  <2> QED
    BY <1>2, <1>3, <2>1 DEF SentIsRead
<1>5. CASE SendBlock
  <2>1. /\ cur \in Targets /\ pos[cur] \in Nat /\ Sent' = Sent \cup {Block(cur, pos[cur])}
        /\ rpc = "send" /\ rpc' \notin {"send", "open"}
        /\ UNCHANGED <<scanTargets, stack, pos, zSlot, gSlot, admitted>>
    BY <1>5, StepMoves DEF SendBlock, AfterBlock, zipVars, gzipVars, histVars
  <2>2. In(cur, stack)
    <3>1. Len(stack) \in 1 .. Len(stack)
      BY <2>1, StackCurrent, EmptySeq DEF Shape, TypeOK, ReaderTypes
    <3> QED
      BY <3>1 DEF In, cur
  <2>3. cur \in admitted /\ ~In(cur, scanTargets) /\ cur \notin zSlot \cup gSlot
    BY <2>1, <2>2 DEF Known, TakenOnce
  <2>4. ASSUME NEW x \in Sent', x.kind = "block", x \notin Sent
        PROVE  Opened(x.src)' /\ x.n \in 1 .. NBlocks[x.src] /\ x.n <= pos'[x.src]
    <3>1. x.src = cur /\ x.n = pos[cur]
      BY <2>1, <2>4, BlockIsNamed
    <3>2. x.src \in admitted /\ ~In(x.src, scanTargets) /\ x.src \notin zSlot \cup gSlot
      BY <2>3, <3>1
    <3>3. x.n \in 1 .. NBlocks[x.src] /\ x.n <= pos[x.src]
      BY <2>1, <3>1 DEF SentIsRead
    <3> QED
      BY <2>1, <3>2, <3>3 DEF Opened, In
  <2> QED
    BY <1>2, <1>3, <2>1, <2>4 DEF SentIsRead
<1> QED
  BY <1>4, <1>5

LEMMA OnTheLine ==
  ASSUME NEW t, NEW n
  PROVE  /\ <<t, n>> \in delivered => Block(t, n) \in Sent
         /\ OnItsWay(t, n) => ToRead(t, n) \/ Block(t, n) \in Sent
<1>1. <<t, n>> \in delivered => Block(t, n) \in Told
  <2>1. <<t, n>>[1] = t /\ <<t, n>>[2] = n
    OBVIOUS
  <2> QED
    BY <2>1 DEF Told
<1>2. \A x, q : In(x, q) => x \in Elems(q)
  BY DEF In, Elems
<1> QED
  BY <1>1, <1>2 DEF OnItsWay, BeforeGzip, BeforeZip, Sent, PastZip, AtGzip, PastGzip, AtWallet, AtReport

LEMMA StepNoGaps ==
  ASSUME Shape, CompletionInv, ContractInv, [Next]_vars
  PROVE  NoGaps'
<1> USE DEF ContractInv, CompletionInv
<1>1. \A t \in Targets : DueBlocks(t)' = DueBlocks(t)
  BY RunFixed, DueFixed
<1>2. Passing
  BY StepMoves DEF Moving
<1>3. ASSUME NEW x \in Sent, x.kind = "block", NEW n \in DueBlocks(x.src), n < x.n
      PROVE  Block(x.src, n) \in Sent'
  BY <1>2, <1>3, BlockIsNamed DEF NoGaps, Passing
<1>4. ASSUME NEW x \in Sent', x \notin Sent, x.kind = "block", NEW n \in DueBlocks(x.src), n < x.n
      PROVE  Block(x.src, n) \in Sent'
  <2>1. /\ SendBlock /\ x.src = cur /\ x.n = pos[cur] /\ cur \in Targets /\ pos[cur] \in Nat
        /\ Sent' = Sent \cup {Block(cur, pos[cur])}
    BY <1>4, StepMoves, BlockIsNamed DEF Moving
  <2>2. n \in Nat
    BY <1>4, <2>1, DueFacts
  <2>3. In(cur, stack)
    <3>1. Len(stack) \in 1 .. Len(stack)
      BY <2>1, StackCurrent, EmptySeq DEF SendBlock, Shape, TypeOK, ReaderTypes
    <3> QED
      BY <3>1 DEF In, cur
  <2>4. cur \in admitted /\ ~In(cur, scanTargets) /\ cur \notin zSlot \cup gSlot
    BY <2>1, <2>3 DEF Known, TakenOnce
  <2>5. <<cur, n>> \in delivered \/ OnItsWay(cur, n)
    BY <1>4, <2>1, <2>4 DEF Carried
  <2>6. ~ToRead(cur, n)
    BY <1>4, <2>1, <2>2, <2>4 DEF ToRead, SendBlock
  <2>7. Block(cur, n) \in Sent
    BY <2>5, <2>6, OnTheLine
  <2> QED
    BY <2>1, <2>7
<1>5. ASSUME NEW x \in Sent', x.kind = "block", NEW n \in DueBlocks(x.src), n < x.n
      PROVE  Block(x.src, n) \in Sent'
  BY <1>3, <1>4, <1>5
<1>6. ASSUME NEW x \in Sent', x.kind = "block"
      PROVE  DueBlocks(x.src)' = DueBlocks(x.src)
  <2>1. x.src \in Targets
    BY <1>6, StepMoves, SentItems, BlockIsNamed DEF Moving
  <2> QED
    BY <1>1, <2>1
<1>7. \A t, n : Block(t, n)' = Block(t, n)
  BY DEF Block
<1> QED
  BY <1>5, <1>6, <1>7 DEF NoGaps

-----------------------------------------------------------------------------
(* Each target is offered and taken on once, behind what reveals it.       *)

\* Who may be offered, and who may be taken on, after a step.
LEMMA NewOffers ==
  ASSUME Shape, StageEnds, Revealed, TakenOnce, [Next]_vars
  PROVE  /\ \A m \in (zTodo \cup pending)' :
              m \in zTodo \cup pending \/ (ZipReceive /\ Head(zipQ) = Reveals(m) /\ Kind[m] # "gzip")
         /\ \A m \in gTodo' : m \in gTodo \/ (GzipReceive /\ Head(gzipQ) = Reveals(m) /\ Kind[m] = "gzip")
         /\ (zTodo \cap pending)' = {}
         /\ \A m \in admitted' :
              m \in admitted \/ (m \in zTodo \cup gTodo /\ m \notin (zTodo \cup pending \cup gTodo)')
         /\ zSlot' \subseteq zSlot \cup zTodo /\ gSlot' \subseteq gSlot \cup gTodo
<1> USE QueueTypesUsed
<1>1. CASE ZipReceive
  <2> DEFINE item == Head(zipQ)
  <2>1. item \in Item /\ UNCHANGED <<gTodo, admitted, zSlot, gSlot>> /\ zTodo = {}
    BY <1>1, ElemsTail DEF ZipReceive, StageEnds, gzipVars, histVars
  <2>2. /\ \A k, m : m \in Found(k, item.src, item.n) /\ item.kind = "block" => item = Reveals(m)
        /\ \A k, m : m \in Found(k, item.src, item.n) => Kind[m] = k
    BY <2>1, BlockIsNamed DEF Found, Reveals
  <2>3. \/ item.kind = "barrier" /\ UNCHANGED <<zTodo, pending>>
        \/ item.kind = "eof" /\ zTodo' = pending /\ pending' = {}
        \/ /\ item.kind = "block" /\ zTodo' = Found("zip", item.src, item.n)
           /\ pending' = pending \cup Found("entry", item.src, item.n)
    BY <1>1, <2>1, ItemKinds DEF ZipReceive
  <2>4. \A m \in pending : Kind[m] = "entry"
    BY DEF StageEnds
  <2> HIDE DEF item
  <2>5. \A m \in (zTodo \cup pending)' : m \in zTodo \cup pending \/ (item = Reveals(m) /\ Kind[m] # "gzip")
    BY <2>2, <2>3
  <2>6. (zTodo \cap pending)' = {}
    BY <2>1, <2>2, <2>3, <2>4
  <2> QED
    BY <1>1, <2>1, <2>5, <2>6 DEF item
<1>2. CASE GzipReceive
  <2> DEFINE item == Head(gzipQ)
  <2>1. /\ item \in Item /\ UNCHANGED <<zTodo, pending, admitted, zSlot, gSlot>>
        /\ gTodo' = IF item.kind = "block" THEN Found("gzip", item.src, item.n) ELSE {}
    BY <1>2, ElemsTail DEF GzipReceive, zipVars, histVars
  <2>2. \A m \in gTodo' : item = Reveals(m) /\ Kind[m] = "gzip"
    BY <2>1, BlockIsNamed DEF Found, Reveals
  <2> HIDE DEF item
  <2> QED
    BY <1>2, <2>1, <2>2 DEF item, TakenOnce
<1>3. ASSUME NEW x \in Nested, ZipOffer(x)
      PROVE  /\ x \in zTodo /\ zTodo' = zTodo \ {x} /\ UNCHANGED <<pending, gTodo, gSlot>>
             /\ (UNCHANGED admitted) \/ admitted' = admitted \cup {x}
             /\ zSlot' \subseteq zSlot \cup {x}
  BY <1>3 DEF ZipOffer, notePolicySkip, GateRefuse, GateAdmit, gzipVars
<1>4. ASSUME NEW x \in Nested, GzipOffer(x)
      PROVE  /\ x \in gTodo /\ gTodo' = gTodo \ {x} /\ UNCHANGED <<zTodo, pending, zSlot>>
             /\ (UNCHANGED admitted) \/ admitted' = admitted \cup {x}
             /\ gSlot' \subseteq gSlot \cup {x}
  BY <1>4 DEF GzipOffer, notePolicySkip, GateRefuse, GateAdmit, zipVars
<1>5. CASE \E x \in Nested : ZipOffer(x)
  <2>1. PICK x \in Nested : ZipOffer(x)
    BY <1>5
  <2>2. x \notin pending /\ x \notin gTodo
    BY <1>3, <2>1 DEF TakenOnce, Revealed
  <2> QED
    BY <1>3, <2>1, <2>2 DEF TakenOnce
<1>6. CASE \E x \in Nested : GzipOffer(x)
  <2>1. PICK x \in Nested : GzipOffer(x)
    BY <1>6
  <2>2. x \notin zTodo \cup pending
    BY <1>4, <2>1 DEF TakenOnce, Revealed
  <2> QED
    BY <1>4, <2>1, <2>2 DEF TakenOnce
<1>7. CASE /\ UNCHANGED <<zTodo, pending, gTodo, admitted>>
           /\ zSlot' \subseteq zSlot /\ gSlot' \subseteq gSlot
  BY <1>7 DEF TakenOnce
<1>8. Zip => \/ ZipReceive \/ \E x \in Nested : ZipOffer(x)
             \/ /\ UNCHANGED <<zTodo, pending, gTodo, admitted>>
                /\ zSlot' \subseteq zSlot /\ gSlot' \subseteq gSlot
  BY DEF Zip, ZipPublish, ZipSettle, ZipForward, ZipExit, gzipVars, histVars
<1>9. Gzip => \/ GzipReceive \/ \E x \in Nested : GzipOffer(x)
              \/ /\ UNCHANGED <<zTodo, pending, gTodo, admitted>>
                 /\ zSlot' \subseteq zSlot /\ gSlot' \subseteq gSlot
  BY DEF Gzip, GzipPublish, GzipSettle, GzipForward, GzipExit, zipVars, histVars
<1>10. Wallet \/ Main \/ Cancel \/ UNCHANGED vars =>
         UNCHANGED <<zTodo, pending, gTodo, admitted, zSlot, gSlot>>
  BY OthersCarry DEF zipVars, gzipVars
<1>11. Reader => UNCHANGED <<zTodo, pending, gTodo, admitted, zSlot, gSlot>>
  BY ReaderLeaves DEF zipVars, gzipVars, histVars
<1> QED
  BY <1>1, <1>2, <1>5, <1>6, <1>7, <1>8, <1>9, <1>10, <1>11 DEF Next, Returned

LEMMA StepReveals ==
  ASSUME Shape, StageEnds, ContractInv, [Next]_vars
  PROVE  Revealed'
<1> USE DEF ContractInv
<1>1. Passing
  BY StepMoves DEF Moving
<1>2. \A m : Reveals(m).kind = "block"
  BY BlockIsNamed DEF Reveals
<1>3. zTodo' \subseteq Nested /\ pending' \subseteq Nested /\ gTodo' \subseteq Nested
  BY StepKeepsShape DEF Shape, TypeOK, ZipTypes, GzipTypes
<1>4. ASSUME NEW m \in Nested, m \in admitted' \/ m \in (zTodo \cup pending \cup gTodo)'
      PROVE  IF Kind[m] = "gzip" THEN Reveals(m) \in PastGzip' ELSE Reveals(m) \in PastZip'
  <2>1. CASE m \in admitted \/ m \in zTodo \cup pending \cup gTodo
    BY <1>1, <1>2, <2>1 DEF Revealed, Passing
  <2>2. CASE ZipReceive /\ Head(zipQ) = Reveals(m) /\ Kind[m] # "gzip"
    BY <2>2 DEF ZipReceive, PastZip
  <2>3. CASE GzipReceive /\ Head(gzipQ) = Reveals(m) /\ Kind[m] = "gzip"
    BY <2>3 DEF GzipReceive, PastGzip
  <2> QED
    BY <1>4, <2>1, <2>2, <2>3, NewOffers
<1>5. \A m : Reveals(m)' = Reveals(m)
  BY DEF Reveals, Block
<1>6. \A m \in (zTodo \cup pending \cup zSlot)' : Kind[m] # "gzip"
  BY NewOffers DEF Revealed
<1>7. \A m \in (gTodo \cup gSlot)' : Kind[m] = "gzip"
  BY NewOffers DEF Revealed
<1> QED
  BY <1>4, <1>5, <1>6, <1>7 DEF Revealed

\* What a stage finds in the next block was not taken on before.
LEMMA FoundIsNew ==
  ASSUME Shape, LineOrder, Revealed, NEW m \in Nested,
         \/ zipQ # <<>> /\ Head(zipQ) = Reveals(m) /\ Kind[m] # "gzip"
         \/ gzipQ # <<>> /\ Head(gzipQ) = Reveals(m) /\ Kind[m] = "gzip"
  PROVE  m \notin admitted
<1> USE QueueTypesUsed
<1>1. Reveals(m).kind = "block" /\ Reveals(m).src = Source[m] /\ Reveals(m).n = FoundAt[m] /\ FoundAt[m] \in Nat
  BY BlockIsNamed, InputAssumption DEF Reveals
<1>2. Ahead(Reveals(m), Reveals(m))
  BY <1>1 DEF Ahead
<1>3. CASE zipQ # <<>> /\ Head(zipQ) = Reveals(m) /\ Kind[m] # "gzip"
  <2>1. Reveals(m) \in Elems(zipQ)
    BY <1>3, ElemsTail
  <2> QED
    BY <1>2, <1>3, <2>1 DEF LineOrder, After, Revealed
<1>4. CASE gzipQ # <<>> /\ Head(gzipQ) = Reveals(m) /\ Kind[m] = "gzip"
  <2>1. Reveals(m) \in Elems(gzipQ)
    BY <1>4, ElemsTail
  <2> QED
    BY <1>2, <1>4, <2>1 DEF LineOrder, After, Revealed
<1> QED
  BY <1>3, <1>4

\* Where a target may be from its admission until it is opened.
Queued ==
  /\ \A i, j \in 1 .. Len(scanTargets) : scanTargets[i] = scanTargets[j] => i = j
  /\ \A t \in Targets : In(t, scanTargets) => t \notin zSlot \cup gSlot /\ ~In(t, stack)
  /\ \A t \in zSlot \cup gSlot : ~In(t, stack)

LEMMA PublishKeepsQueued ==
  ASSUME Shape, Queued, NEW m \in zSlot \cup gSlot, scanTargets' = Append(scanTargets, m),
         UNCHANGED stack, (zSlot \cup gSlot)' \subseteq (zSlot \cup gSlot) \ {m}
  PROVE  Queued'
<1>1. m \in Targets /\ scanTargets \in Seq(Targets) /\ ~In(m, scanTargets) /\ ~In(m, stack)
  BY DEF Queued, Shape, TypeOK, QueueTypes, ZipTypes, GzipTypes
<1>2. /\ Len(scanTargets) \in Nat /\ Len(scanTargets') = Len(scanTargets) + 1
      /\ scanTargets'[Len(scanTargets) + 1] = m
      /\ \A i \in 1 .. Len(scanTargets) : scanTargets'[i] = scanTargets[i]
  BY <1>1, AppendProperties
<1>3. ASSUME NEW i \in 1 .. Len(scanTargets'), NEW j \in 1 .. Len(scanTargets'),
             scanTargets'[i] = scanTargets'[j]
      PROVE  i = j
  <2>1. \A k \in 1 .. Len(scanTargets) : scanTargets[k] # m
    BY <1>1 DEF In
  <2> QED
    BY <1>2, <1>3, <2>1 DEF Queued
<1>4. \A t : In(t, scanTargets') <=> In(t, scanTargets) \/ t = m
  BY <1>1, InAppend
<1>5. \A t : In(t, stack)' <=> In(t, stack)
  BY DEF In
<1>6. \A t \in Targets : In(t, scanTargets') => t \notin (zSlot \cup gSlot)' /\ ~In(t, stack)
  BY <1>1, <1>4 DEF Queued
<1>7. \A t \in (zSlot \cup gSlot)' : ~In(t, stack)
  BY DEF Queued
<1> QED
  BY <1>3, <1>6, <1>7 DEF Queued, In

LEMMA ReceiveKeepsQueued ==
  ASSUME Shape, Queued, ReceiveTarget
  PROVE  Queued'
<1> DEFINE h == Head(scanTargets)
<1>1. /\ scanTargets \in Seq(Targets) /\ scanTargets # <<>> /\ scanTargets' = Tail(scanTargets)
      /\ UNCHANGED <<zSlot, gSlot>>
  BY QueueTypesUsed DEF ReceiveTarget, zipVars, gzipVars
<1>2. /\ Len(scanTargets) \in Nat /\ Len(scanTargets) >= 1 /\ Len(scanTargets') = Len(scanTargets) - 1
      /\ h = scanTargets[1] /\ h \in Targets
      /\ \A i \in 1 .. Len(scanTargets') : scanTargets'[i] = scanTargets[i + 1]
  BY <1>1, HeadTailProperties, EmptySeq
<1>3. /\ \A t : In(t, scanTargets) <=> In(t, scanTargets') \/ t = h
      /\ \A t : In(t, stack') <=> In(t, stack) \/ t = h
  BY Receiving
<1> HIDE DEF h
<1>4. \A i, j \in 1 .. Len(scanTargets') : scanTargets'[i] = scanTargets'[j] => i = j
  <2>1. \A i \in 1 .. Len(scanTargets') : i + 1 \in 1 .. Len(scanTargets)
    BY <1>2
  <2> QED
    BY <1>2, <2>1 DEF Queued
<1>5. ~In(h, scanTargets')
  <2>1. \A i \in 1 .. Len(scanTargets') : i + 1 \in 1 .. Len(scanTargets) /\ i + 1 # 1 /\ 1 \in 1 .. Len(scanTargets)
    BY <1>2
  <2>2. \A i \in 1 .. Len(scanTargets') : scanTargets'[i] # h
    BY <1>2, <2>1 DEF Queued
  <2> QED
    BY <2>2 DEF In
<1>6. In(h, scanTargets) /\ h \notin zSlot \cup gSlot
  BY <1>2, <1>3 DEF Queued
<1>7. \A t \in Targets : In(t, scanTargets') => t \notin zSlot \cup gSlot /\ ~In(t, stack')
  BY <1>3, <1>5 DEF Queued
<1>8. \A t \in zSlot \cup gSlot : ~In(t, stack')
  BY <1>3, <1>6 DEF Queued
<1> QED
  BY <1>1, <1>4, <1>7, <1>8 DEF Queued, In

LEMMA StepTakesOnce ==
  ASSUME Shape, StageEnds, Known, ContractInv, [Next]_vars
  PROVE  TakenOnce'
<1> USE DEF ContractInv
<1>1. (zTodo \cap pending)' = {}
  BY NewOffers
<1>2. ASSUME NEW m \in (zTodo \cup pending \cup gTodo)' PROVE m \notin admitted'
  <2>1. m \in Nested
    BY <1>2, StepKeepsShape DEF Shape, TypeOK, ZipTypes, GzipTypes
  <2>2. CASE m \in zTodo \cup pending \cup gTodo
    BY <1>2, <2>2, NewOffers DEF TakenOnce
  <2>3. CASE m \notin zTodo \cup pending \cup gTodo
    <3>1. \/ ZipReceive /\ Head(zipQ) = Reveals(m) /\ Kind[m] # "gzip"
          \/ GzipReceive /\ Head(gzipQ) = Reveals(m) /\ Kind[m] = "gzip"
      BY <1>2, <2>3, NewOffers
    <3>2. UNCHANGED admitted
      BY <3>1 DEF ZipReceive, GzipReceive, histVars
    <3> QED
      BY <2>1, <3>1, <3>2, FoundIsNew DEF ZipReceive, GzipReceive
  <2> QED
    BY <2>2, <2>3
<1>3. Queued
  BY DEF Queued, TakenOnce
<1>4. ASSUME ReceiveTarget PROVE Queued'
  BY <1>3, <1>4, ReceiveKeepsQueued
<1>5. ASSUME ZipPublish \/ GzipPublish PROVE Queued'
  <2>1. PICK m \in zSlot \cup gSlot :
          /\ scanTargets' = Append(scanTargets, m) /\ UNCHANGED stack
          /\ \/ zSlot' = {} /\ UNCHANGED gSlot /\ m \in zSlot
             \/ gSlot' = {} /\ UNCHANGED zSlot /\ m \in gSlot
    BY <1>5 DEF ZipPublish, GzipPublish, readerVars, zipVars, gzipVars
  <2>2. zSlot \cap gSlot = {}
    BY DEF Revealed
  <2>3. (zSlot \cup gSlot)' \subseteq (zSlot \cup gSlot) \ {m}
    BY <2>1, <2>2 DEF Shape, StageShape
  <2> QED
    BY <1>3, <2>1, <2>3, PublishKeepsQueued
<1>6. ASSUME NEW m \in Nested, ZipOffer(m) \/ GzipOffer(m) PROVE Queued'
  <2>1. /\ UNCHANGED <<scanTargets, stack>> /\ m \in zTodo \cup gTodo
        /\ (zSlot \cup gSlot)' \subseteq zSlot \cup gSlot \cup {m}
    BY <1>6 DEF ZipOffer, GzipOffer, queueVars, readerVars, zipVars, gzipVars
  <2>2. ~In(m, scanTargets) /\ ~In(m, stack)
    BY <2>1 DEF TakenOnce, Known
  <2> QED
    BY <1>3, <2>1, <2>2 DEF Queued, In
<1>7. ASSUME UNCHANGED <<scanTargets, zSlot, gSlot>>, \A t : In(t, stack') => In(t, stack)
      PROVE  Queued'
  BY <1>3, <1>7 DEF Queued, In
<1>8. Reader => ReceiveTarget \/ PushEOF \/ UNCHANGED <<scanTargets, zSlot, gSlot, stack>>
  BY DEF Reader, OpenTarget, ReadBlock, SendBlock, DrainDone, SendBarrier, AwaitAck, CheckQuiet,
     FileFrontier, BankTarget, ReportRoot, SendFinal, ReaderExit, queueVars, zipVars, gzipVars
<1>9. PushEOF => UNCHANGED <<scanTargets, zSlot, gSlot>> /\ \A t : In(t, stack') => In(t, stack)
  BY Popping DEF PushEOF, zipVars, gzipVars
<1>10. Zip => (\E m \in Nested : ZipOffer(m)) \/ ZipPublish \/ UNCHANGED <<scanTargets, zSlot, gSlot, stack>>
  BY DEF Zip, ZipReceive, ZipSettle, ZipForward, ZipExit, queueVars, readerVars, gzipVars
<1>11. Gzip => (\E m \in Nested : GzipOffer(m)) \/ GzipPublish \/ UNCHANGED <<scanTargets, zSlot, gSlot, stack>>
  BY DEF Gzip, GzipReceive, GzipSettle, GzipForward, GzipExit, queueVars, readerVars, zipVars
<1>12. Wallet \/ Main \/ Cancel \/ UNCHANGED vars => UNCHANGED <<scanTargets, zSlot, gSlot, stack>>
  BY OthersCarry DEF readerVars, zipVars, gzipVars
<1>13. Queued'
  BY <1>4, <1>5, <1>6, <1>7, <1>8, <1>9, <1>10, <1>11, <1>12 DEF Next, Returned
<1> QED
  BY <1>1, <1>2, <1>13 DEF Queued, TakenOnce

-----------------------------------------------------------------------------
(* The rest of the invariant, and the contract step by step.               *)

LEMMA StepDecides ==
  ASSUME Shape, StageEnds, Settled, Undecided, [Next]_vars
  PROVE  Undecided'
<1>1. signaled => signaled'
  BY SignalStays DEF vars
<1>2. CASE ~Main /\ ~Wallet
  <2>1. UNCHANGED <<mpc, outcome>>
    BY <1>2, MainDecides
  <2>2. UNCHANGED <<wpc, wHand>>
    BY <1>2, ReaderLeaves DEF Next, Zip, ZipReceive, ZipOffer, ZipPublish, ZipSettle, ZipForward, ZipExit,
       Gzip, GzipReceive, GzipOffer, GzipPublish, GzipSettle, GzipForward, GzipExit,
       Cancel, Returned, vars, walletVars
  <2> QED
    BY <1>1, <2>1, <2>2 DEF Undecided
<1>3. CASE Main
  <2>1. UNCHANGED <<wpc, wHand>>
    BY <1>3 DEF Main, MainSignal, MainCancel, MainRoot, MainFail, MainComplete, walletVars
  <2>2. (mpc # "done" <=> outcome = "running")'
    BY <1>3 DEF Main, MainSignal, MainCancel, MainRoot, MainFail, MainComplete, Undecided
  <2>3. outcome' \in {"complete", "error"} => signaled
    BY <1>3 DEF Main, MainSignal, MainCancel, MainRoot, MainFail, MainComplete, Undecided, Settled
  <2> QED
    BY <1>1, <2>1, <2>2, <2>3 DEF Undecided
<1>4. CASE Wallet
  <2>1. UNCHANGED <<mpc, outcome>>
    BY <1>4 DEF Wallet, WalletReceive, WalletReport, WalletExit, mainVars
  <2>2. wpc' = "report" => wHand'.kind = "block"
    <3>1. CASE WalletReceive
      <4>1. Head(walletQ) \in Item
        BY <3>1, QueueTypesUsed, ElemsTail DEF WalletReceive
      <4> QED
        BY <3>1, <4>1, ItemKinds DEF WalletReceive
    <3>2. CASE WalletReport \/ WalletExit
      BY <3>2 DEF WalletReport, WalletExit
    <3> QED
      BY <1>4, <3>1, <3>2 DEF Wallet
  <2> QED
    BY <1>1, <2>1, <2>2 DEF Undecided
<1> QED
  BY <1>2, <1>3, <1>4

LEMMA InitContract == AnyStart => ContractInv
<1> SUFFICES ASSUME AnyStart PROVE ContractInv
  OBVIOUS
<1> USE DEF AnyStart, RunStarts
<1>1. Told = {} /\ Elems(zipQ) = {} /\ Elems(gzipQ) = {} /\ Elems(walletQ) = {}
  BY ElemsNone DEF Told
<1>2. Sent = {Nothing}
  BY <1>1 DEF Sent, PastZip, AtGzip, PastGzip, AtWallet, AtReport
<1>3. LineOrder
  BY <1>1, ElemsNone, NothingHeld DEF LineOrder, After
<1>4. SentIsRead /\ NoGaps
  BY <1>2, NothingHeld DEF SentIsRead, NoGaps
<1>5. Revealed /\ Undecided
  BY DEF Revealed, Undecided
<1>6. TakenOnce
  BY DEF TakenOnce, In
<1> QED
  BY <1>3, <1>4, <1>5, <1>6 DEF ContractInv

LEMMA StepKeepsContractInv ==
  ASSUME Shape, CompletionInv, ContractInv, [Next]_vars
  PROVE  ContractInv'
<1>1. LineOrder'
  BY StepMoves DEF Moving, CompletionInv
<1> QED
  BY <1>1, StepSent, StepNoGaps, StepReveals, StepTakesOnce, StepDecides DEF CompletionInv, ContractInv

\* What is due stays due for the run.
LEMMA ObligedStays == ASSUME [Next]_vars PROVE Obliged' = Obliged
<1>1. run' = run
  BY RunFixed
<1>2. \A t \in Targets : Due[t]' <=> Due[t]
  BY <1>1, DueStays
<1>3. \A t \in Targets : DueBlocks(t)' = DueBlocks(t)
  BY <1>1, DueFixed
<1>4. {x \in Targets : Due[x]}' = {x \in Targets : Due[x]}
  BY <1>2
<1> QED
  BY <1>3, <1>4 DEF Obliged

LEMMA ObligedBlocks ==
  ASSUME Shape
  PROVE  /\ Obliged \subseteq AllBlocks
         /\ \A c \in Obliged : c[1] \in Targets /\ Due[c[1]] /\ c[2] \in DueBlocks(c[1]) /\ c = <<c[1], c[2]>>
<1>1. \A t \in Targets : DueBlocks(t) \subseteq 1 .. NBlocks[t]
  <2>1. \A t \in Targets : \A n \in DueBlocks(t) : n \in 1 .. NBlocks[t]
    BY DueFacts
  <2> QED
    BY <2>1
<1> QED
  BY <1>1 DEF Obliged, AllBlocks

\* A target lies in no block of its own.
LEMMA NotInItself == \A m \in Nested : Source[m] # m
<1>1. \A m \in Nested : {m} \in SUBSET Nested /\ {m} # {}
  OBVIOUS
<1> QED
  BY <1>1, SourceAssumption

\* A report is one the contract allows: the block is on the line, so it was
\* not reported before, and all that belongs ahead of it and is due was sent
\* before it and has nowhere to be but reported.
LEMMA ReportIsAllowed ==
  ASSUME Shape, CompletionInv, ContractInv, WalletReport, [Next]_vars
  PROVE  \E b \in AllBlocks : Contract!Report(b)
<1> USE DEF ContractInv, CompletionInv
<1> DEFINE b == <<wHand.src, wHand.n>>
<1>1. wHand.kind = "block" /\ wHand \in Sent /\ delivered' = delivered \cup {b} /\ UNCHANGED outcome
  BY DEF WalletReport, Undecided, Sent, PastZip, AtGzip, PastGzip, AtWallet, AtReport, mainVars
<1>2. /\ wHand \in Item /\ wHand.src \in Targets /\ wHand.n \in Nat /\ wHand = Block(wHand.src, wHand.n)
      /\ Opened(wHand.src) /\ wHand.n \in 1 .. NBlocks[wHand.src]
  BY <1>1, SentItems, BlockIsNamed DEF SentIsRead
<1>3. b[1] = wHand.src /\ b[2] = wHand.n /\ b \in AllBlocks
  BY <1>2 DEF AllBlocks
<1>4. outcome \in {"running", "canceled"}
  BY DEF WalletReport, Undecided, StageEnds, Shape, TypeOK, MainTypes
<1>5. b \notin delivered
  <2>1. SUFFICES ASSUME b \in delivered PROVE FALSE
    OBVIOUS
  <2>2. Block(b[1], b[2]) \in Told
    BY <2>1 DEF Told
  <2>3. wHand \in Told
    BY <1>2, <1>3, <2>2
  <2>4. Ahead(wHand, wHand)
    BY <1>1, <1>2 DEF Ahead
  <2> QED
    BY <2>3, <2>4 DEF LineOrder, After
<1>6. ASSUME NEW c \in Obliged, <<c, b>> \in BlockOrder PROVE c \in delivered
  <2> DEFINE y == Block(c[1], c[2])
  <2>1. c[1] \in Targets /\ c[2] \in DueBlocks(c[1]) /\ c[2] \in Nat /\ c = <<c[1], c[2]>>
    BY ObligedBlocks, DueFacts
  <2>2. \/ c[1] = wHand.src /\ c[2] < wHand.n
        \/ wHand.src \in Nested /\ c = <<Source[wHand.src], FoundAt[wHand.src]>>
    <3>1. <<c, b>>[1] = c /\ <<c, b>>[2] = b
      OBVIOUS
    <3> QED
      BY <1>2, <1>3, <1>6, <3>1 DEF BlockOrder
  <2>3. y.kind = "block" /\ y.src = c[1] /\ y.n = c[2]
    BY BlockIsNamed
  <2> HIDE DEF y
  <2>4. y \in Sent /\ Ahead(y, wHand) /\ y # wHand
    <3>1. CASE c[1] = wHand.src /\ c[2] < wHand.n
      <4>1. y \in Sent
        BY <1>1, <2>1, <3>1 DEF NoGaps, y
      <4> QED
        BY <1>1, <1>2, <2>1, <2>3, <3>1, <4>1 DEF Ahead
    <3>2. CASE wHand.src \in Nested /\ c = <<Source[wHand.src], FoundAt[wHand.src]>>
      <4>1. c[1] = Source[wHand.src] /\ c[2] = FoundAt[wHand.src]
        BY <3>2
      <4>2. y = Reveals(wHand.src)
        BY <4>1 DEF y, Reveals
      <4>3. y \in PastZip \/ y \in PastGzip
        BY <1>2, <3>2, <4>2 DEF Opened, Revealed
      <4>4. y.src # wHand.src
        BY <2>3, <3>2, <4>1, NotInItself
      <4> QED
        BY <1>1, <2>3, <3>2, <4>2, <4>3, <4>4 DEF Ahead, Sent, PastZip, AtGzip
    <3> QED
      BY <2>2, <3>1, <3>2
  <2>5. y \in Told
    BY <2>4 DEF LineOrder, After, Sent, PastZip, AtGzip, PastGzip, AtWallet, AtReport
  <2>6. PICK d \in delivered : y = Block(d[1], d[2])
    BY <2>5 DEF Told
  <2>7. d = <<d[1], d[2]>> /\ d[1] = c[1] /\ d[2] = c[2]
    BY <2>3, <2>6, BlockIsNamed DEF Shape, TypeOK, HistTypes
  <2> QED
    BY <2>1, <2>6, <2>7
<1>7. UNCHANGED Obliged
  BY ObligedStays
<1> HIDE DEF b
<1>8. Contract!Report(b)
  BY <1>1, <1>4, <1>5, <1>6, <1>7 DEF Contract!Report
<1> QED
  BY <1>3, <1>8 DEF b

\* Only the wallet stage reports, and only runPipeline decides.
LEMMA QuietSteps ==
  ASSUME [Next]_vars, ~WalletReport, ~MainFail, ~MainComplete, ~MainCancel
  PROVE  UNCHANGED <<delivered, outcome>>
<1>1. CASE Reader
  BY <1>1, ReaderLeaves DEF mainVars, histVars
<1>2. CASE Zip \/ Gzip
  BY <1>2 DEF Zip, ZipReceive, ZipOffer, ZipPublish, ZipSettle, ZipForward, ZipExit,
     Gzip, GzipReceive, GzipOffer, GzipPublish, GzipSettle, GzipForward, GzipExit, mainVars, histVars
<1>3. CASE Wallet \/ Main \/ Cancel \/ UNCHANGED vars
  BY <1>3 DEF Wallet, WalletReceive, WalletExit, Main, MainSignal, MainRoot, Cancel, vars,
     mainVars, histVars
<1> QED
  BY <1>1, <1>2, <1>3 DEF Next, Returned

LEMMA StepKeepsContract ==
  ASSUME Shape, EOFFacts, CompletionInv, ContractInv, [Next]_vars
  PROVE  ContractStep
<1> USE DEF ContractStep, Contract!ContractNext, Contract!contractVars
<1>1. UNCHANGED Obliged
  BY ObligedStays
<1>2. CASE WalletReport
  BY <1>2, ReportIsAllowed
<1>3. CASE MainFail \/ MainCancel
  <2>1. outcome = "running" /\ outcome' \in {"error", "canceled"} /\ UNCHANGED delivered
    BY <1>3 DEF MainFail, MainCancel, histVars, ContractInv, Undecided
  <2>2. Contract!GiveUp
    BY <1>1, <2>1 DEF Contract!GiveUp
  <2> QED
    BY <2>2
<1>4. CASE MainComplete
  <2>1. outcome = "running" /\ outcome' = "complete" /\ UNCHANGED delivered
    BY <1>4 DEF MainComplete, histVars, ContractInv, Undecided
  <2>2. signaled /\ refused = {}
    BY <1>4 DEF MainComplete, CompletionInv, Settled
  <2>3. \A t \in Targets : Due[t] => Read(t)
    BY <2>2, SuccessReadsDue
  <2>4. Obliged \subseteq delivered
    BY <2>3, ObligedBlocks DEF Read
  <2>5. Contract!Complete
    BY <1>1, <2>1, <2>4 DEF Contract!Complete
  <2> QED
    BY <2>5
<1>5. CASE ~WalletReport /\ ~MainFail /\ ~MainComplete /\ ~MainCancel
  BY <1>1, <1>5, QuietSteps
<1> QED
  BY <1>2, <1>3, <1>4, <1>5

LEMMA InitKeepsContract == AnyStart => Contract!ContractInit
<1> SUFFICES ASSUME AnyStart PROVE Contract!ContractInit
  OBVIOUS
<1>1. Obliged \subseteq AllBlocks
  BY InitShape, ObligedBlocks
<1> QED
  BY <1>1 DEF Contract!ContractInit, AnyStart, RunStarts

LEMMA ContractInvariant == Spec => []ContractInv
<1>1. Init => Shape /\ EOFFacts /\ CompletionInv /\ ContractInv
  BY InitStarts, InitShape, InitEOFFacts, InitCompletion, InitContract
<1>2. /\ Shape /\ EOFFacts /\ CompletionInv /\ ContractInv /\ [Next]_vars
      => (Shape /\ EOFFacts /\ CompletionInv /\ ContractInv)'
  BY StepKeepsShape, StepKeepsEOFFacts, StepKeepsCompletion, StepKeepsContractInv
<1> QED
  BY <1>1, <1>2, PTL DEF Spec

\* Whatever the input, the journal it starts from and the capacities, a scan
\* keeps its contract, as seen by who reads its reports and its outcome: what
\* runPipeline's goroutines do between them is, step by step, a report of one
\* block that was not reported before and whose due predecessors were, a
\* completion with everything due reported, a failure or a cancellation, or
\* nothing at all.
THEOREM ScanKeepsContract == Spec => Contract!ContractSpec
<1>1. Init => Contract!ContractInit
  BY InitStarts, InitKeepsContract
<1>2. /\ Shape /\ EOFFacts /\ CompletionInv /\ FrontierInv /\ ContractInv /\ [Next]_vars
      => [Contract!ContractNext]_<<Contract!contractVars>>
  BY StepKeepsContract DEF ContractStep
<1>3. [Contract!ContractNext]_<<Contract!contractVars>> => [Contract!ContractNext]_(Contract!contractVars)
  OBVIOUS
<1> QED
  BY <1>1, <1>2, <1>3, FrontierInvariant, ContractInvariant, PTL DEF Spec, Contract!ContractSpec

-----------------------------------------------------------------------------
(* Without a journal targets are read one after the other, so that an      *)
(* entry is flushed only when its source has passed the stage, and every   *)
(* archive in it has claimed its range.                                    *)

OneByOne == Len(stack) <= 1 /\ rpc \notin {"drain", "barrier", "ack", "quiet", "file"}

\* An EOF parts the targets before it from those behind it.
EOFParts ==
  \A i \in 1 .. Len(zipQ) : zipQ[i].kind = "eof" =>
    \A x : x.kind = "block" /\ (x \in PastZip \/ \E k \in 1 .. i - 1 : x = zipQ[k]) =>
      /\ ~In(x.src, stack)
      /\ \A j \in i + 1 .. Len(zipQ) : zipQ[j].kind = "block" => zipQ[j].src # x.src

\* No block of t is read or waits for the zip stage any more.
PassedZip(t) ==
  /\ ~In(t, stack)
  /\ \A x \in {zHand} \cup Elems(zipQ) : x.kind = "block" => x.src # t

EntriesLast == \A c \in admitted \cup zTodo : c # Root /\ Kind[c] = "entry" => PassedZip(Source[c])

ClaimsFirst ==
  /\ \A m \in Nested : Kind[m] = "zip" /\ (m \in admitted \/ (m \in zTodo /\ ~TooDeep(m)))
                         => Claim(m) \in published
  /\ \A m \in zTodo : Kind[m] = "zip" => zHand = Reveals(m)

SingleInv == OneByOne /\ EOFParts /\ EntriesLast /\ ClaimsFirst /\ NoDoubleScan

LEMMA StepKeepsOneByOne ==
  ASSUME Shape, ~Journaled, OneByOne, [Next]_vars
  PROVE  /\ OneByOne'
         /\ \A t : In(t, stack') => In(t, stack) \/ (ReceiveTarget /\ t = Head(scanTargets))
         /\ PushEOF => \A t : ~In(t, stack')
<1>1. Len(stack) \in Nat /\ (rpc = "recv" => stack = <<>>)
  BY StackCases DEF Shape, TypeOK, ReaderTypes, OneByOne
<1>2. CASE ReceiveTarget
  <2>1. stack = <<>>
    BY <1>1, <1>2 DEF ReceiveTarget, OneByOne
  <2>2. rpc' = "open" /\ stack' = <<Head(scanTargets)>>
    BY <1>2, <2>1 DEF ReceiveTarget
  <2>3. OneByOne'
    BY <2>2 DEF OneByOne
  <2>4. ~PushEOF
    BY <1>2 DEF PushEOF, ReceiveTarget
  <2> QED
    BY <1>2, <2>3, <2>4, Receiving
<1>3. CASE PushEOF
  <2>1. stack' = <<>> /\ rpc' \notin {"drain", "barrier", "ack", "quiet", "file"}
    <3>1. stack # <<>> /\ stack \in Seq(Targets) /\ rpc = "push"
      BY <1>3, StackCurrent DEF PushEOF, Shape, TypeOK, ReaderTypes
    <3>2. Len(stack) = 1
      <4>1. Len(stack) \in 1 .. 2 /\ Len(stack) <= 1
        BY <3>1, StackHeld DEF OneByOne
      <4> QED
        BY <4>1
    <3> QED
      BY <1>3, <3>1, <3>2 DEF PushEOF
  <2> QED
    BY <2>1, InNone DEF OneByOne
<1>4. CASE Reader /\ ~ReceiveTarget /\ ~PushEOF
  <2>1. UNCHANGED stack
    BY <1>4 DEF Reader, OpenTarget, ReadBlock, SendBlock, DrainDone, SendBarrier, AwaitAck, CheckQuiet,
       FileFrontier, BankTarget, ReportRoot, SendFinal, ReaderExit
  <2>2. rpc' \notin {"drain", "barrier", "ack", "quiet", "file"}
    BY <1>4 DEF OneByOne, Reader, OpenTarget, ReadBlock, SendBlock, DrainDone, SendBarrier, AwaitAck, CheckQuiet,
       FileFrontier, BankTarget, ReportRoot, SendFinal, ReaderExit, AfterBlock, checkpointed
  <2> QED
    BY <1>4, <2>1, <2>2 DEF OneByOne
<1>5. CASE UNCHANGED <<stack, rpc>>
  <2>1. ~PushEOF
    BY <1>5 DEF PushEOF
  <2> QED
    BY <1>5, <2>1 DEF OneByOne
<1>6. Zip \/ Gzip => UNCHANGED <<stack, rpc>>
  BY DEF Zip, ZipReceive, ZipOffer, ZipPublish, ZipSettle, ZipForward, ZipExit,
     Gzip, GzipReceive, GzipOffer, GzipPublish, GzipSettle, GzipForward, GzipExit, readerVars
<1>7. Wallet \/ Main \/ Cancel \/ UNCHANGED vars => UNCHANGED <<stack, rpc>>
  BY OthersCarry DEF readerVars
<1> QED
  BY <1>2, <1>3, <1>4, <1>5, <1>6, <1>7 DEF Next, Returned

\* A target that was read is not read again.
LEMMA StaysUnread ==
  ASSUME Shape, ~Journaled, OneByOne, SentIsRead, [Next]_vars,
         NEW x \in Sent, x.kind = "block", ~In(x.src, stack)
  PROVE  ~In(x.src, stack')
<1>1. ~In(x.src, scanTargets)
  BY DEF SentIsRead, Opened
<1>2. CASE ReceiveTarget
  <2>1. In(Head(scanTargets), scanTargets)
    BY <1>2, Receiving
  <2>2. x.src # Head(scanTargets)
    BY <1>1, <2>1
  <2> QED
    BY <2>2, StepKeepsOneByOne
<1>3. CASE ~ReceiveTarget
  BY <1>3, StepKeepsOneByOne
<1> QED
  BY <1>2, <1>3

\* How the queue of the zip stage changes.
LEMMA ZipQueueSteps ==
  ASSUME Shape, [Next]_vars
  PROVE  \/ /\ ZipReceive /\ zipQ \in Seq(Item) /\ zipQ # <<>> /\ zipQ' = Tail(zipQ) /\ zHand' = Head(zipQ)
            /\ UNCHANGED stack
         \/ SendBlock /\ zipQ' = Append(zipQ, Block(cur, pos[cur])) /\ UNCHANGED <<stack, zHand>>
         \/ PushEOF /\ zipQ' = Append(zipQ, EOF) /\ UNCHANGED zHand
         \/ SendBarrier
         \/ UNCHANGED zipQ /\ (UNCHANGED zHand \/ zHand' = Nothing) /\ ~ZipReceive
<1>1. CASE Reader
  <2>1. UNCHANGED <<zHand, zpc>>
    BY <1>1, ReaderLeaves DEF zipVars
  <2>2. ~ZipReceive
    BY <2>1 DEF ZipReceive
  <2> QED
    BY <1>1, <2>1, <2>2 DEF Reader, ReceiveTarget, OpenTarget, ReadBlock, SendBlock, DrainDone, AwaitAck, CheckQuiet,
       FileFrontier, BankTarget, PushEOF, ReportRoot, SendFinal, ReaderExit, queueVars
<1>2. CASE Zip
  <2>1. CASE ZipReceive
    BY <2>1, QueueTypesUsed DEF ZipReceive, readerVars
  <2>2. CASE ~ZipReceive
    BY <1>2, <2>2 DEF Zip, ZipOffer, ZipPublish, ZipSettle, ZipForward, ZipExit, queueVars
  <2> QED
    BY <2>1, <2>2
<1>3. Gzip => UNCHANGED <<zipQ, zHand, zpc>>
  BY DEF Gzip, GzipReceive, GzipOffer, GzipPublish, GzipSettle, GzipForward, GzipExit,
     queueVars, zipVars
<1>4. Wallet \/ Main \/ Cancel \/ UNCHANGED vars => UNCHANGED <<zipQ, zHand, zpc>>
  BY OthersCarry DEF zipVars
<1>5. ZipReceive => zpc' # zpc
  BY DEF ZipReceive
<1> QED
  BY <1>1, <1>2, <1>3, <1>4, <1>5 DEF Next, Returned

LEMMA StepKeepsEOFParts ==
  ASSUME Shape, StageEnds, ~Journaled, ContractInv, OneByOne, EOFParts, [Next]_vars
  PROVE  EOFParts'
<1> USE QueueTypesUsed DEF ContractInv
<1>1. Len(zipQ) \in Nat
  OBVIOUS
<1>3. ASSUME NEW x \in Sent, x.kind = "block", ~In(x.src, stack) PROVE ~In(x.src, stack')
  BY <1>3, StaysUnread
<1>4. ASSUME NEW i \in 1 .. Len(zipQ), NEW x, x \in PastZip \/ \E k \in 1 .. i - 1 : x = zipQ[k]
      PROVE  x \in Sent
  <2>1. \A k \in 1 .. i - 1 : k \in 1 .. Len(zipQ)
    BY <1>1
  <2> QED
    BY <1>4, <2>1 DEF Sent, Elems
<1>5. ASSUME NEW x, x.kind = "block", x \in PastZip', ~ZipReceive PROVE x \in PastZip
  BY <1>5, StepMoves DEF Moving
<1>6. CASE UNCHANGED zipQ /\ ~ZipReceive
  <2>1. ASSUME NEW i \in 1 .. Len(zipQ'), zipQ'[i].kind = "eof", NEW x, x.kind = "block",
               x \in PastZip' \/ \E k \in 1 .. i - 1 : x = zipQ'[k]
        PROVE  /\ ~In(x.src, stack')
               /\ \A j \in i + 1 .. Len(zipQ') : zipQ'[j].kind = "block" => zipQ'[j].src # x.src
    <3>1. x \in PastZip \/ \E k \in 1 .. i - 1 : x = zipQ[k]
      BY <1>5, <1>6, <2>1
    <3>2. /\ ~In(x.src, stack)
          /\ \A j \in i + 1 .. Len(zipQ) : zipQ[j].kind = "block" => zipQ[j].src # x.src
      BY <1>6, <2>1, <3>1 DEF EOFParts
    <3>3. x \in Sent
      BY <1>4, <1>6, <3>1
    <3> QED
      BY <1>3, <1>6, <2>1, <3>2, <3>3
  <2> QED
    BY <2>1 DEF EOFParts, In
<1>7. CASE /\ ZipReceive /\ zipQ \in Seq(Item) /\ zipQ # <<>> /\ zipQ' = Tail(zipQ) /\ zHand' = Head(zipQ)
           /\ UNCHANGED stack
  <2>1. /\ Len(zipQ') = Len(zipQ) - 1 /\ Head(zipQ) = zipQ[1] /\ Len(zipQ) >= 1
        /\ \A i \in 1 .. Len(zipQ') : zipQ'[i] = zipQ[i + 1] /\ i + 1 \in 1 .. Len(zipQ)
    BY <1>7, EOFAfterTail
  <2>2. ASSUME NEW i \in 1 .. Len(zipQ'), zipQ'[i].kind = "eof", NEW x, x.kind = "block",
               x \in PastZip' \/ \E k \in 1 .. i - 1 : x = zipQ'[k]
        PROVE  /\ ~In(x.src, stack')
               /\ \A j \in i + 1 .. Len(zipQ') : zipQ'[j].kind = "block" => zipQ'[j].src # x.src
    <3>1. x \in PastZip \/ \E k \in 1 .. (i + 1) - 1 : x = zipQ[k]
      <4>1. CASE x \in PastZip'
        <5>1. x \in PastZip \/ x = zipQ[1]
          BY <1>7, <2>1, <2>2, <4>1, StepMoves DEF Moving, SendBlock
        <5>2. 1 \in 1 .. (i + 1) - 1
          BY <2>1
        <5> QED
          BY <5>1, <5>2
      <4>2. CASE \E k \in 1 .. i - 1 : x = zipQ'[k]
        <5>1. PICK k \in 1 .. i - 1 : x = zipQ'[k]
          BY <4>2
        <5>2. k \in 1 .. Len(zipQ') /\ k + 1 \in 1 .. (i + 1) - 1
          BY <2>1
        <5> QED
          BY <2>1, <5>1, <5>2
      <4> QED
        BY <2>2, <4>1, <4>2
    <3>2. /\ ~In(x.src, stack)
          /\ \A j \in (i + 1) + 1 .. Len(zipQ) : zipQ[j].kind = "block" => zipQ[j].src # x.src
      BY <2>1, <2>2, <3>1 DEF EOFParts
    <3>3. \A j \in i + 1 .. Len(zipQ') : j \in 1 .. Len(zipQ') /\ j + 1 \in (i + 1) + 1 .. Len(zipQ)
      BY <2>1
    <3> QED
      BY <1>7, <2>1, <3>2, <3>3
  <2> QED
    BY <2>2 DEF EOFParts, In
<1>8. CASE SendBlock \/ PushEOF
  <2>1. PICK y \in Item :
          /\ zipQ' = Append(zipQ, y)
          /\ y.kind = "block" => y.src = cur /\ In(cur, stack)
          /\ y.kind = "eof" => \A t : ~In(t, stack')
    <3>1. CASE SendBlock
      <4>1. cur \in Targets /\ pos[cur] \in Nat /\ In(cur, stack)
        <5>1. stack # <<>> /\ cur \in Targets
          BY <3>1, StackCurrent DEF SendBlock
        <5>2. Len(stack) \in 1 .. Len(stack)
          BY <5>1, EmptySeq DEF Shape, TypeOK, ReaderTypes
        <5> QED
          BY <5>1, <5>2 DEF In, cur, Shape, TypeOK, ReaderTypes
      <4>2. /\ Block(cur, pos[cur]) \in Item /\ Block(cur, pos[cur]).kind = "block"
            /\ Block(cur, pos[cur]).src = cur
        BY <4>1, BlockNames
      <4>3. zipQ' = Append(zipQ, Block(cur, pos[cur]))
        BY <3>1 DEF SendBlock
      <4> QED
        BY <4>1, <4>2, <4>3
    <3>2. CASE PushEOF
      <4>1. \A t : ~In(t, stack')
        BY <3>2, StepKeepsOneByOne
      <4>2. EOF \in Item /\ EOF.kind = "eof" /\ zipQ' = Append(zipQ, EOF)
        BY <3>2, ItemKinds DEF PushEOF
      <4> QED
        BY <4>1, <4>2
    <3> QED
      BY <1>8, <3>1, <3>2
  <2>2. /\ Len(zipQ') = Len(zipQ) + 1 /\ zipQ'[Len(zipQ) + 1] = y
        /\ \A i \in 1 .. Len(zipQ) : zipQ'[i] = zipQ[i]
    BY <2>1, AppendProperties
  <2>3. ~ZipReceive
    BY <1>8 DEF ZipReceive, SendBlock, PushEOF, zipVars
  <2>4. ASSUME NEW i \in 1 .. Len(zipQ'), zipQ'[i].kind = "eof", NEW x, x.kind = "block",
               x \in PastZip' \/ \E k \in 1 .. i - 1 : x = zipQ'[k]
        PROVE  /\ ~In(x.src, stack')
               /\ \A j \in i + 1 .. Len(zipQ') : zipQ'[j].kind = "block" => zipQ'[j].src # x.src
    <3>1. \A k \in 1 .. i - 1 : k \in 1 .. Len(zipQ)
      BY <1>1, <2>2
    <3>2. x \in PastZip \/ \E k \in 1 .. i - 1 : x = zipQ[k]
      BY <1>5, <2>2, <2>3, <2>4, <3>1
    <3>3. CASE i \in 1 .. Len(zipQ)
      <4>1. /\ ~In(x.src, stack)
            /\ \A j \in i + 1 .. Len(zipQ) : zipQ[j].kind = "block" => zipQ[j].src # x.src
        BY <2>2, <2>4, <3>2, <3>3 DEF EOFParts
      <4>2. ~In(x.src, stack')
        BY <1>3, <1>4, <2>4, <3>2, <3>3, <4>1
      <4>3. ASSUME NEW j \in i + 1 .. Len(zipQ'), zipQ'[j].kind = "block"
            PROVE  zipQ'[j].src # x.src
        <5>1. CASE j \in i + 1 .. Len(zipQ)
          <6>1. j \in 1 .. Len(zipQ)
            BY <3>3, <5>1
          <6> QED
            BY <2>2, <4>1, <4>3, <5>1, <6>1
        <5>2. CASE j = Len(zipQ) + 1
          <6>1. y.src = cur /\ In(cur, stack) /\ zipQ'[j] = y
            BY <2>1, <2>2, <4>3, <5>2
          <6>2. In(y.src, stack)
            BY <6>1
          <6> QED
            BY <4>1, <6>1, <6>2
        <5>3. j \in i + 1 .. Len(zipQ) \/ j = Len(zipQ) + 1
          <6> DEFINE l == Len(zipQ)  l2 == Len(zipQ')
          <6>1. l \in Nat /\ l2 = l + 1 /\ i \in Nat /\ j \in i + 1 .. l2
            BY <1>1, <2>2, <3>3, <4>3
          <6> HIDE DEF l, l2
          <6>2. j \in i + 1 .. l \/ j = l + 1
            BY <6>1
          <6> QED
            BY <6>2 DEF l
        <5> QED
          BY <5>1, <5>2, <5>3
      <4> QED
        BY <4>2, <4>3
    <3>4. CASE i = Len(zipQ) + 1
      <4>1. ~In(x.src, stack')
        BY <2>1, <2>2, <2>4, <3>4
      <4>2. i + 1 .. Len(zipQ') = {}
        BY <1>1, <2>2, <3>4
      <4> QED
        BY <4>1, <4>2
    <3> QED
      BY <1>1, <2>2, <3>3, <3>4
  <2> QED
    BY <2>4 DEF EOFParts, In
<1>9. ~SendBarrier
  BY DEF OneByOne, SendBarrier
<1> QED
  BY <1>6, <1>7, <1>8, <1>9, ZipQueueSteps

\* An entry is offered when an EOF reaches the stage.
LEMMA EntryOffered ==
  ASSUME Shape, StageEnds, [Next]_vars, NEW c \in zTodo', c \notin zTodo, Kind[c] = "entry"
  PROVE  ZipReceive /\ Head(zipQ).kind = "eof" /\ c \in pending
<1>1. CASE ZipReceive
  <2>1. Head(zipQ) \in Item
    BY <1>1, QueueTypesUsed, ElemsTail DEF ZipReceive
  <2>2. \A k, m : m \in Found(k, Head(zipQ).src, Head(zipQ).n) => Kind[m] = k
    BY DEF Found
  <2> QED
    BY <1>1, <2>1, <2>2, ItemKinds DEF ZipReceive
<1>2. Zip /\ ~ZipReceive => zTodo' \subseteq zTodo
  BY DEF Zip, ZipOffer, ZipPublish, ZipSettle, ZipForward, ZipExit
<1>3. Gzip => UNCHANGED zTodo
  BY DEF Gzip, GzipReceive, GzipOffer, GzipPublish, GzipSettle, GzipForward, GzipExit, zipVars
<1>4. Wallet \/ Main \/ Cancel \/ UNCHANGED vars => UNCHANGED zTodo
  BY OthersCarry DEF zipVars
<1>5. Reader => UNCHANGED zTodo
  BY ReaderLeaves DEF zipVars
<1> QED
  BY <1>1, <1>2, <1>3, <1>4, <1>5 DEF Next, Returned

LEMMA StepKeepsEntriesLast ==
  ASSUME Shape, StageEnds, ~Journaled, ContractInv, OneByOne, EOFParts, EntriesLast, [Next]_vars
  PROVE  EntriesLast'
<1> USE QueueTypesUsed DEF ContractInv
<1>1. SUFFICES ASSUME NEW c \in (admitted \cup zTodo)', c # Root, Kind[c] = "entry"
               PROVE  /\ ~In(Source[c], stack')
                      /\ \A x \in {zHand'} \cup Elems(zipQ') : x.kind = "block" => x.src # Source[c]
  BY DEF EntriesLast, PassedZip, In, Elems
<1>2. c \in Nested
  BY <1>1, StepKeepsShape DEF Shape, TypeOK, ZipTypes, HistTypes
<1>3. CASE c \in admitted \cup zTodo
  <2>1. /\ ~In(Source[c], stack)
        /\ \A x \in {zHand} \cup Elems(zipQ) : x.kind = "block" => x.src # Source[c]
    BY <1>1, <1>3 DEF EntriesLast, PassedZip
  <2>2. ~In(Source[c], stack')
    <3>1. Reveals(c) \in Sent /\ Reveals(c).kind = "block" /\ Reveals(c).src = Source[c]
      BY <1>1, <1>2, <1>3, BlockIsNamed DEF Revealed, Reveals, Sent
    <3> QED
      BY <2>1, <3>1, StaysUnread
  <2>3. CASE ZipReceive /\ zipQ \in Seq(Item) /\ zipQ # <<>> /\ zipQ' = Tail(zipQ) /\ zHand' = Head(zipQ)
    BY <2>1, <2>2, <2>3, ElemsTail
  <2>4. CASE SendBlock /\ zipQ' = Append(zipQ, Block(cur, pos[cur])) /\ UNCHANGED <<stack, zHand>>
    <3>1. cur \in Targets /\ pos[cur] \in Nat /\ In(cur, stack)
      <4>1. stack # <<>> /\ cur \in Targets
        BY <2>4, StackCurrent DEF SendBlock
      <4>2. Len(stack) \in 1 .. Len(stack)
        BY <4>1, EmptySeq DEF Shape, TypeOK, ReaderTypes
      <4> QED
        BY <4>1, <4>2 DEF In, cur, Shape, TypeOK, ReaderTypes
    <3>2. Block(cur, pos[cur]) \in Item /\ Block(cur, pos[cur]).src = cur
      BY <3>1, BlockNames
    <3>3. cur # Source[c]
      BY <2>1, <3>1
    <3>4. Elems(zipQ') = Elems(zipQ) \cup {Block(cur, pos[cur])}
      BY <2>4, <3>2, ElemsAppend
    <3> QED
      BY <2>1, <2>2, <2>4, <3>2, <3>3, <3>4
  <2>5. CASE PushEOF /\ zipQ' = Append(zipQ, EOF) /\ UNCHANGED zHand
    <3>1. EOF \in Item /\ EOF.kind = "eof"
      BY ItemKinds
    <3>2. Elems(zipQ') = Elems(zipQ) \cup {EOF}
      BY <2>5, <3>1, ElemsAppend
    <3> QED
      BY <2>1, <2>2, <2>5, <3>1, <3>2
  <2>6. CASE UNCHANGED zipQ /\ (UNCHANGED zHand \/ zHand' = Nothing)
    BY <2>1, <2>2, <2>6, NothingHeld
  <2>7. ~SendBarrier
    BY DEF OneByOne, SendBarrier
  <2> QED
    BY <2>3, <2>4, <2>5, <2>6, <2>7, ZipQueueSteps
<1>4. CASE c \notin admitted \cup zTodo
  <2>1. ZipReceive /\ Head(zipQ).kind = "eof" /\ c \in pending
    BY <1>1, <1>4, EntryOffered, NewOffers DEF Revealed
  <2>2. /\ zipQ # <<>> /\ zipQ' = Tail(zipQ) /\ zHand' = Head(zipQ) /\ UNCHANGED stack
        /\ Head(zipQ) = zipQ[1] /\ 1 \in 1 .. Len(zipQ)
    BY <2>1, EOFAfterTail DEF ZipReceive, readerVars
  <2>3. Reveals(c) \in PastZip /\ Reveals(c).kind = "block" /\ Reveals(c).src = Source[c]
    BY <1>1, <1>2, <2>1, BlockIsNamed DEF Revealed, Reveals
  <2>4. /\ ~In(Source[c], stack)
        /\ \A j \in 1 + 1 .. Len(zipQ) : zipQ[j].kind = "block" => zipQ[j].src # Source[c]
    BY <2>1, <2>2, <2>3 DEF EOFParts
  <2>5. \A x \in Elems(zipQ') : x.kind = "block" => x.src # Source[c]
    <3>1. ASSUME NEW i \in 1 .. Len(zipQ') PROVE zipQ'[i] = zipQ[i + 1] /\ i + 1 \in 1 + 1 .. Len(zipQ)
      BY <2>2, EOFAfterTail
    <3> QED
      BY <2>4, <3>1 DEF Elems
  <2> QED
    BY <2>1, <2>2, <2>4, <2>5
<1> QED
  BY <1>3, <1>4

LEMMA StepKeepsClaims ==
  ASSUME Shape, StageEnds, Revealed, TakenOnce, ClaimsFirst, [Next]_vars
  PROVE  ClaimsFirst'
<1>1. \A m : Claim(m)' = Claim(m) /\ Reveals(m)' = Reveals(m) /\ (TooDeep(m)' <=> TooDeep(m))
  BY DEF Claim, Reveals, Block, TooDeep, Depth
<1>2. SUFFICES /\ \A m \in Nested : Kind[m] = "zip" /\ (m \in admitted' \/ (m \in zTodo' /\ ~TooDeep(m)))
                                      => Claim(m) \in published'
               /\ \A m \in zTodo' : Kind[m] = "zip" => zHand' = Reveals(m)
  BY <1>1 DEF ClaimsFirst
<1>3. CASE ZipReceive
  <2> DEFINE item == Head(zipQ)
  <2>1. item \in Item /\ UNCHANGED admitted /\ zTodo = {} /\ zHand' = item
    BY <1>3, QueueTypesUsed, ElemsTail DEF ZipReceive, StageEnds, histVars
  <2>2. \A m \in Found("zip", item.src, item.n) : item.kind = "block" => item = Reveals(m)
    BY <2>1, BlockIsNamed DEF Found, Reveals
  <2>3. \A m \in pending : Kind[m] = "entry"
    BY DEF StageEnds
  <2>4. \/ item.kind = "barrier" /\ UNCHANGED <<zTodo, published>>
        \/ item.kind = "eof" /\ zTodo' = pending /\ UNCHANGED published
        \/ /\ item.kind = "block" /\ zTodo' = Found("zip", item.src, item.n)
           /\ published' = published \cup {Claim(m) : m \in {x \in Found("zip", item.src, item.n) : ~TooDeep(x)}}
    BY <1>3, <2>1, ItemKinds DEF ZipReceive
  <2> HIDE DEF item
  <2> QED
    BY <2>1, <2>2, <2>3, <2>4 DEF ClaimsFirst
<1>4. ASSUME NEW x \in Nested, ZipOffer(x)
      PROVE  /\ zTodo' \subseteq zTodo /\ x \in zTodo /\ published \subseteq published' /\ UNCHANGED zHand
             /\ (UNCHANGED admitted) \/ (admitted' = admitted \cup {x} /\ ~TooDeep(x))
  BY <1>4 DEF ZipOffer, notePolicySkip, GateRefuse, GateAdmit
<1>5. CASE \E x \in Nested : ZipOffer(x)
  BY <1>4, <1>5 DEF ClaimsFirst
<1>6. ASSUME NEW x \in Nested, GzipOffer(x)
      PROVE  /\ UNCHANGED <<zTodo, published, zHand>>
             /\ admitted' \subseteq admitted \cup {x} /\ Kind[x] = "gzip"
  BY <1>6 DEF GzipOffer, notePolicySkip, GateRefuse, GateAdmit, zipVars, Revealed
<1>7. CASE \E x \in Nested : GzipOffer(x)
  BY <1>6, <1>7 DEF ClaimsFirst
<1>8. CASE UNCHANGED <<admitted, published, zTodo>> /\ (zTodo = {} \/ UNCHANGED zHand)
  BY <1>8 DEF ClaimsFirst
<1>9. Zip => \/ ZipReceive \/ \E x \in Nested : ZipOffer(x)
             \/ UNCHANGED <<admitted, published, zTodo>> /\ (zTodo = {} \/ UNCHANGED zHand)
  BY DEF Zip, ZipPublish, ZipSettle, ZipForward, ZipExit, histVars, StageEnds
<1>10. Gzip => \/ \E x \in Nested : GzipOffer(x)
               \/ UNCHANGED <<admitted, published, zTodo, zHand>>
  BY DEF Gzip, GzipReceive, GzipPublish, GzipSettle, GzipForward, GzipExit, zipVars, histVars
<1>11. Wallet \/ Main \/ Cancel \/ UNCHANGED vars => UNCHANGED <<admitted, published, zTodo, zHand>>
  BY OthersCarry DEF zipVars
<1>12. Reader => UNCHANGED <<admitted, published, zTodo, zHand>>
  BY ReaderLeaves DEF zipVars, histVars
<1> QED
  BY <1>3, <1>5, <1>7, <1>8, <1>9, <1>10, <1>11, <1>12 DEF Next, Returned

\* An entry is admitted when all claims of its source are known, and a member
\* of an archive before any entry of its source is.
LEMMA StepKeepsSingle ==
  ASSUME Shape, StageEnds, RefusalMarked, ContractInv, EntriesLast, ClaimsFirst, NoDoubleScan, [Next]_vars
  PROVE  NoDoubleScan'
<1> USE DEF ContractInv
<1> DEFINE Twice(c, m) ==
      /\ Root \notin {c, m} /\ Kind[c] = "entry" /\ Kind[m] = "zip" /\ Source[c] = Source[m]
      /\ Extent[m].lo <= Extent[c].lo /\ Extent[c].hi <= Extent[m].hi
<1>1. SUFFICES ASSUME NEW c \in admitted', NEW m \in admitted', Twice(c, m) PROVE FALSE
  BY DEF NoDoubleScan
<1>2. c \in Nested /\ m \in Nested
  BY <1>1, StepKeepsShape DEF Shape, TypeOK, HistTypes
<1>3. c \notin admitted \/ m \notin admitted
  BY <1>1 DEF NoDoubleScan
<1>4. PICK x \in Nested : (ZipOffer(x) \/ GzipOffer(x)) /\ admitted' = admitted \cup {x} /\ x \notin admitted
  <2>1. (\E x \in Nested : ZipOffer(x) \/ GzipOffer(x)) \/ UNCHANGED admitted
    BY ReaderLeaves DEF Next, Zip, ZipReceive, ZipPublish, ZipSettle, ZipForward, ZipExit,
       Gzip, GzipReceive, GzipPublish, GzipSettle, GzipForward, GzipExit,
       Wallet, WalletReceive, WalletReport, WalletExit,
       Main, MainSignal, MainCancel, MainRoot, MainFail, MainComplete, Cancel, Returned, vars, histVars
  <2>2. \A x \in Nested : ZipOffer(x) \/ GzipOffer(x) => admitted' = admitted \/ admitted' = admitted \cup {x}
    BY DEF ZipOffer, GzipOffer, GateAdmit
  <2> QED
    BY <1>1, <1>3, <2>1, <2>2
<1>5. CASE GzipOffer(x)
  <2>1. Kind[x] = "gzip"
    BY <1>5 DEF GzipOffer, Revealed
  <2> QED
    BY <1>1, <1>3, <1>4, <2>1
<1>6. CASE ZipOffer(x)
  <2>1. /\ x \in zTodo /\ zHand.kind # "none" /\ ~TooDeep(x)
        /\ ~(flushing /\ Claimed(x))
    BY <1>4, <1>6 DEF ZipOffer, Shape, StageShape
  <2>2. CASE x = c
    <3>1. m \in admitted /\ Claim(m) \in published
      BY <1>1, <1>2, <1>3, <1>4, <2>2 DEF ClaimsFirst
    <3>2. flushing
      BY <1>1, <2>1, <2>2 DEF RefusalMarked
    <3>3. Claim(m).src = Source[m] /\ Claim(m).lo = Extent[m].lo /\ Claim(m).hi = Extent[m].hi
      BY DEF Claim
    <3>4. Claimed(c)
      BY <1>1, <3>1, <3>3 DEF Claimed
    <3> QED
      BY <2>1, <2>2, <3>2, <3>4
  <2>3. CASE x = m
    <3>1. c \in admitted
      BY <1>1, <1>4, <2>3
    <3>2. zHand = Reveals(m)
      BY <1>1, <2>1, <2>3 DEF ClaimsFirst
    <3>3. zHand.kind = "block" /\ zHand.src = Source[c]
      BY <1>1, <3>2, BlockIsNamed DEF Reveals
    <3> QED
      BY <1>1, <3>1, <3>3 DEF EntriesLast, PassedZip
  <2> QED
    BY <1>1, <1>3, <1>4, <2>2, <2>3
<1> QED
  BY <1>4, <1>5, <1>6

LEMMA InitSingle == AnyStart => SingleInv
BY InNone DEF AnyStart, RunStarts, SingleInv, OneByOne, EOFParts, EntriesLast, ClaimsFirst, NoDoubleScan

\* Whatever the input and the capacities, a scan without a journal reads a
\* stored member through its archive or through its local header, not through
\* both: flushZipCandidates comes to an entry when the archives around it have
\* claimed their ranges, and to the entries of a target when no more archives
\* can be found in it.
THEOREM MembersReadOnce == ASSUME ~Journaled PROVE Spec => []NoDoubleScan
<1>1. Init => SingleInv
  BY InitStarts, InitSingle
<1>2. /\ Shape /\ EOFFacts /\ CompletionInv /\ FrontierInv /\ ContractInv /\ SingleInv /\ [Next]_vars
      => SingleInv'
  BY StepKeepsOneByOne, StepKeepsEOFParts, StepKeepsEntriesLast, StepKeepsClaims, StepKeepsSingle
  DEF CompletionInv, FrontierInv, SingleInv, ContractInv
<1>3. SingleInv => NoDoubleScan
  BY DEF SingleInv
<1> QED
  BY <1>1, <1>2, <1>3, FrontierInvariant, ContractInvariant, PTL DEF Spec
=============================================================================
