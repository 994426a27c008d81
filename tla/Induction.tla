----------------------------- MODULE Induction -----------------------------
(***************************************************************************)
(* Induction on numbers, and what follows from it about functions defined   *)
(* by recursion.  The induction theorems of the library take a predicate;   *)
(* here it is the set of the numbers that satisfy it, which is enough, and  *)
(* which the provers can instantiate.                                       *)
(***************************************************************************)
EXTENDS Integers, FiniteSets, FiniteSetTheorems, TLAPS

\* A set of natural numbers that has any has a least one: among the intervals
\* from 0 to its elements, up to one of them, one has no other inside.
LEMMA LeastOf ==
  ASSUME NEW T, T \subseteq Nat, T # {}
  PROVE  \E m \in T : \A k \in T : m <= k
<1>1. PICK n \in T : TRUE
  OBVIOUS
<1> DEFINE S == 0 .. n
           U == {V \in SUBSET S : \E k \in T : V = 0 .. k}
<1>2. IsFiniteSet(S)
  <2>1. 0 \in Int /\ n \in Int
    OBVIOUS
  <2> QED
    BY <2>1, FS_Interval
<1>3. IsWellFoundedOn(StrictSubsetOrdering(S), SUBSET S)
  <2> HIDE DEF S
  <2> QED
    BY <1>2, FS_FiniteSubsetsOfFinite, FS_StrictSubsetOrderingWellFounded
<1>4. U \subseteq SUBSET S /\ S \in U
  OBVIOUS
<1>5. PICK V \in U : \A W \in U : <<W, V>> \notin StrictSubsetOrdering(S)
  <2> HIDE DEF U, S
  <2> QED
    BY <1>3, <1>4, WFMin
<1>6. PICK m \in T : V = 0 .. m
  OBVIOUS
<1>7. ASSUME NEW k \in T, k < m
      PROVE  FALSE
  <2> DEFINE W == 0 .. k
  <2>1. V \in SUBSET S /\ m <= n
    BY <1>5, <1>6
  <2>2. W \in SUBSET S /\ W \subseteq V /\ W # V
    BY <1>6, <1>7, <2>1
  <2>3. W \in U
    BY <2>2
  <2> HIDE DEF W, U, S
  <2>4. <<W, V>> \in (SUBSET S) \X (SUBSET S) /\ <<W, V>>[1] = W /\ <<W, V>>[2] = V
    BY <2>1, <2>2
  <2>5. <<W, V>> \in StrictSubsetOrdering(S)
    BY <2>2, <2>4 DEF StrictSubsetOrdering
  <2> QED
    BY <1>5, <2>3, <2>5
<1> QED
  BY <1>7

\* Induction: a set that has 0, and with each number the next one, has them all.
LEMMA AllOf ==
  ASSUME NEW P, 0 \in P, \A n \in Nat : n \in P => n + 1 \in P
  PROVE  Nat \subseteq P
<1> DEFINE T == Nat \ P
<1> SUFFICES ASSUME T # {} PROVE FALSE
  OBVIOUS
<1>1. T \subseteq Nat
  OBVIOUS
<1>2. PICK m \in T : \A k \in T : m <= k
  <2> HIDE DEF T
  <2> QED
    BY <1>1, LeastOf
<1>3. m # 0 /\ m - 1 \in Nat /\ ~(m <= m - 1)
  OBVIOUS
<1>4. m - 1 \in P
  BY <1>2, <1>3
<1> QED
  BY <1>3, <1>4

\* The same up to a bound.
LEMMA UpTo ==
  ASSUME NEW n \in Nat, NEW P, 0 \in P, \A i \in 0 .. n - 1 : i \in P => i + 1 \in P
  PROVE  0 .. n \subseteq P
<1> DEFINE Q == {i \in Nat : i <= n => i \in P}
<1>1. 0 \in Q
  OBVIOUS
<1>2. ASSUME NEW i \in Nat, i \in Q
      PROVE  i + 1 \in Q
  BY <1>2
<1>3. Nat \subseteq Q
  <2> HIDE DEF Q
  <2> QED
    BY <1>1, <1>2, AllOf
<1> QED
  BY <1>3

\* f starts at b and goes on by step, up to n.
Iterates(f, n, b, step) == f[0] = b /\ \A i \in 1 .. n : f[i] = step[<<f[i - 1], i>>]

\* There is such a function.
LEMMA Iteration ==
  ASSUME NEW n \in Nat, NEW S, NEW b \in S, NEW step, step \in [S \X (1 .. n) -> S]
  PROVE  \E f \in [0 .. n -> S] : Iterates(f, n, b, step)
<1> DEFINE Goes(f, i) == f[i] = step[<<f[i - 1], i>>]
           Good(f, k) == f[0] = b /\ \A i \in 1 .. k : Goes(f, i)
           P == {k \in Nat : k <= n => \E f \in [0 .. k -> S] : Good(f, k)}
<1>1. 0 \in P
  <2> DEFINE f == [i \in 0 .. 0 |-> b]
  <2>1. f \in [0 .. 0 -> S] /\ Good(f, 0)
    OBVIOUS
  <2> QED
    BY <2>1
<1>2. ASSUME NEW k \in 0 .. n - 1, k \in P
      PROVE  k + 1 \in P
  <2>1. PICK f \in [0 .. k -> S] : Good(f, k)
    BY <1>2
  <2> DEFINE v == step[<<f[k], k + 1>>]
             g == [i \in 0 .. k + 1 |-> IF i = k + 1 THEN v ELSE f[i]]
  <2>2. v \in S
    <3>1. f[k] \in S /\ k + 1 \in 1 .. n
      OBVIOUS
    <3>2. <<f[k], k + 1>> \in S \X (1 .. n)
      BY <3>1
    <3> QED
      BY <3>2
  <2>3. g \in [0 .. k + 1 -> S] /\ g[k + 1] = v /\ \A i \in 0 .. k : g[i] = f[i]
    <3> HIDE DEF v
    <3> QED
      BY <2>2
  <2> HIDE DEF g
  <2>4. Good(g, k + 1)
    <3>1. f[0] = b /\ \A i \in 1 .. k : Goes(f, i)
      BY <2>1
    <3> HIDE DEF Goes
    <3>2. g[0] = b
      BY <2>3, <3>1
    <3>3. ASSUME NEW i \in 1 .. k + 1
          PROVE  Goes(g, i)
      <4>1. i - 1 \in 0 .. k /\ g[i - 1] = f[i - 1]
        BY <2>3
      <4>2. CASE i = k + 1
        <5>1. g[i] = v /\ i - 1 = k
          BY <2>3, <4>2
        <5> QED
          BY <4>1, <4>2, <5>1 DEF Goes
      <4>3. CASE i # k + 1
        <5>1. i \in 1 .. k /\ g[i] = f[i]
          BY <2>3, <4>3
        <5>2. Goes(f, i)
          BY <3>1, <5>1
        <5> QED
          BY <4>1, <5>1, <5>2 DEF Goes
      <4> QED
        BY <4>2, <4>3
    <3> QED
      BY <3>2, <3>3
  <2> HIDE DEF Good
  <2> QED
    BY <2>3, <2>4
<1>3. 0 .. n \subseteq P
  <2> HIDE DEF P
  <2> QED
    BY <1>1, <1>2, UpTo
<1>4. n \in 0 .. n
  OBVIOUS
<1> HIDE DEF Good
<1>5. \E f \in [0 .. n -> S] : Good(f, n)
  BY <1>3, <1>4
<1> QED
  BY <1>5 DEF Good, Iterates
=============================================================================
