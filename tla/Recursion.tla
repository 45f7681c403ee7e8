----------------------------- MODULE Recursion ------------------------------
(* What a definition by recursion on a number needs before it can be used:   *)
(* that its equation has a solution, and that what holds at the start and is *)
(* kept by each step holds throughout.                                       *)
EXTENDS Naturals, NaturalsInduction, WellFoundedInduction, TLAPS

(* Of any numbers, one is the least.                                         *)
LEMMA NatLeast ==
  ASSUME NEW T, T \subseteq Nat, T # {}
  PROVE  \E x \in T : \A y \in T : x <= y
<1>1. \E x \in T : \A y \in T : ~(<<y, x>> \in OpToRel(<, Nat))
  BY NatLessThanWellFounded, WFMin
<1>2. PICK x \in T : \A y \in T : ~(<<y, x>> \in OpToRel(<, Nat)) BY <1>1
<1>3. \A y \in T : ~(y < x) BY <1>2 DEF OpToRel
<1> QED BY <1>3

LEMMA UpTo ==
  ASSUME NEW n \in Nat, NEW E, 0 \in E, \A i \in 1 .. n : i - 1 \in E => i \in E
  PROVE  0 .. n \subseteq E
<1> SUFFICES ASSUME ~(0 .. n \subseteq E) PROVE FALSE
  OBVIOUS
<1>1. PICK i \in (0 .. n) \ E : \A y \in (0 .. n) \ E : i <= y
  <2>1. (0 .. n) \ E \subseteq Nat /\ (0 .. n) \ E # {}
    OBVIOUS
  <2> QED
    BY <2>1, NatLeast
<1>2. i # 0 /\ i \in 1 .. n /\ i - 1 \in 0 .. n /\ ~(i <= i - 1)
  BY <1>1
<1> QED
  BY <1>1, <1>2

(* The equation: from a in V, by a step for each number up to n; f solves it *)
(* in V, and g wherever it is in V.                                          *)
Steps(n, V, a, G) == a \in V /\ G \in [1 .. n -> [V -> V]]
Solution(n, V, a, G, f) ==
  f \in [0 .. n -> V] /\ f[0] = a /\ \A i \in 1 .. n : f[i - 1] \in V /\ f[i] = G[i][f[i - 1]]
Solves(n, V, a, G, g) ==
  /\ g = [i \in 0 .. n |-> g[i]] /\ g[0] = a
  /\ \A i \in 1 .. n : g[i - 1] \in V => g[i] = G[i][g[i - 1]]

LEMMA NatRecursion ==
  ASSUME NEW n \in Nat, NEW V, NEW a, NEW G, Steps(n, V, a, G)
  PROVE  \E f : Solution(n, V, a, G, f)
<1> DEFINE Sat(m, f) == f \in [0 .. m -> V] /\ f[0] = a /\ \A i \in 1 .. m : f[i] = G[i][f[i - 1]]
           E == {m \in 0 .. n : \E f : Sat(m, f)}
<1>0. a \in V /\ G \in [1 .. n -> [V -> V]]
  BY DEF Steps
<1>1. 0 \in E
  <2>1. Sat(0, [i \in 0 .. 0 |-> a])
    BY <1>0
  <2> HIDE DEF Sat
  <2> QED
    BY <2>1
<1>2. ASSUME NEW m \in 1 .. n, m - 1 \in E PROVE m \in E
  <2>1. PICK f : Sat(m - 1, f)
    BY <1>2
  <2>2. f[m - 1] \in V /\ G[m][f[m - 1]] \in V
    BY <1>0, <2>1
  <2> DEFINE h == [i \in 0 .. m |-> IF i = m THEN G[m][f[m - 1]] ELSE f[i]]
  <2>3. h \in [0 .. m -> V] /\ h[0] = a
    BY <2>1, <2>2
  <2>4. ASSUME NEW i \in 1 .. m PROVE h[i] = G[i][h[i - 1]]
    <3>1. i - 1 \in 0 .. m - 1 /\ i - 1 # m /\ i - 1 \in 0 .. m /\ h[i - 1] = f[i - 1]
      OBVIOUS
    <3>2. CASE i = m
      BY <3>1, <3>2
    <3>3. CASE i # m
      BY <2>1, <3>1, <3>3
    <3> QED
      BY <3>2, <3>3
  <2>5. Sat(m, h)
    BY <2>3, <2>4
  <2> HIDE DEF Sat, h
  <2> QED
    BY <2>5
<1> HIDE DEF E
<1>3. 0 .. n \subseteq E
  BY <1>1, <1>2, UpTo
<1> USE DEF E
<1>4. n \in 0 .. n
  OBVIOUS
<1>6. PICK f : Sat(n, f)
  BY <1>3, <1>4
<1>7. \A i \in 1 .. n : i - 1 \in 0 .. n /\ f[i - 1] \in V
  BY <1>6
<1> QED
  BY <1>6, <1>7 DEF Solution

(* ... and no other.                                                         *)
LEMMA NatRecursionUnique ==
  ASSUME NEW n \in Nat, NEW V, NEW a, NEW G, NEW f, Solution(n, V, a, G, f), NEW g, Solves(n, V, a, G, g)
  PROVE  g = f
<1>1. /\ f \in [0 .. n -> V] /\ f[0] = a /\ \A i \in 1 .. n : f[i - 1] \in V /\ f[i] = G[i][f[i - 1]]
      /\ g = [i \in 0 .. n |-> g[i]] /\ g[0] = a
      /\ \A i \in 1 .. n : g[i - 1] \in V => g[i] = G[i][g[i - 1]]
  BY DEF Solution, Solves
<1> DEFINE E == {i \in 0 .. n : g[i] = f[i]}
<1>2. 0 \in E
  BY <1>1
<1>3. ASSUME NEW i \in 1 .. n, i - 1 \in E PROVE i \in E
  <2>1. f[i - 1] \in V /\ f[i] = G[i][f[i - 1]] /\ g[i - 1] = f[i - 1]
    BY <1>1, <1>3
  <2>2. g[i] = G[i][g[i - 1]]
    BY <1>1, <2>1
  <2> QED
    BY <2>1, <2>2
<1> HIDE DEF E
<1>4. 0 .. n \subseteq E
  BY <1>2, <1>3, UpTo
<1> USE DEF E
<1>5. \A i \in 0 .. n : g[i] = f[i]
  BY <1>4
<1>6. f = [i \in 0 .. n |-> f[i]]
  BY <1>1
<1>7. [i \in 0 .. n |-> g[i]] = [i \in 0 .. n |-> f[i]]
  BY <1>5
<1> QED
  BY <1>1, <1>6, <1>7
=============================================================================
