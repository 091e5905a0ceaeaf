-------------------------- MODULE IntervalInduction ---------------------------
(***************************************************************************)
(* Induction on numbers as facts about sets.  The library states induction *)
(* for an operator, which the provers cannot instantiate; here what is to  *)
(* be proved of a number is that it is in a set.                           *)
(***************************************************************************)
EXTENDS Integers, FiniteSetTheorems, TLAPS

\* A set of numbers up to n has a smallest and a largest element.  The library's
\* order on numbers is an operator, which the provers cannot take; its order on
\* finite sets is a relation: x is smallest when {y \in S : y < x} is.
LEMMA Extremes ==
  ASSUME NEW n \in Nat, NEW S \in SUBSET (1..n), S # {}
  PROVE  /\ \E x \in S : \A y \in S : x <= y
         /\ \E x \in S : \A y \in S : y <= x
<1> DEFINE I == 1..n
<1>0. /\ IsFiniteSet(I)
      /\ S \subseteq I
      /\ \A x \in S : x \in Int
  BY FS_Interval
<1> HIDE DEF I
<1>1. FiniteSubsetsOf(I) = SUBSET I
  BY <1>0, FS_FiniteSubsetsOfFinite
<1>2. IsWellFoundedOn(StrictSubsetOrdering(I), SUBSET I)
  BY <1>1, FS_StrictSubsetOrderingWellFounded
<1>3. \E x \in S : \A y \in S : x <= y
  <2> DEFINE Below(x) == {y \in S : y < x}
             T == {Below(x) : x \in S}
  <2>1. T \subseteq SUBSET I /\ T # {}
    BY <1>0
  <2> HIDE DEF T
  <2>2. \E t \in T : \A u \in T : <<u, t>> \notin StrictSubsetOrdering(I)
    BY <1>2, <2>1, WFMin
  <2> USE DEF T
  <2>3. PICK x \in S : \A y \in S : <<Below(y), Below(x)>> \notin StrictSubsetOrdering(I)
    BY <2>2
  <2>4. ASSUME NEW y \in S, y < x PROVE FALSE
    <3>1. Below(y) \subseteq Below(x)
      <4> SUFFICES ASSUME NEW z \in S, z < y PROVE z < x
        OBVIOUS
      <4>1. x \in Int /\ y \in Int /\ z \in Int
        BY <1>0
      <4> QED
        BY <2>4, <4>1
    <3>2. y \in Below(x) /\ y \notin Below(y)
      BY <1>0, <2>4
    <3>3. Below(y) \in SUBSET I /\ Below(x) \in SUBSET I
      BY <1>0
    <3> QED
      BY <2>3, <3>1, <3>2, <3>3 DEF StrictSubsetOrdering
  <2> QED
    BY <1>0, <2>4
<1>4. \E x \in S : \A y \in S : y <= x
  <2> DEFINE Above(x) == {y \in S : x < y}
             T == {Above(x) : x \in S}
  <2>1. T \subseteq SUBSET I /\ T # {}
    BY <1>0
  <2> HIDE DEF T
  <2>2. \E t \in T : \A u \in T : <<u, t>> \notin StrictSubsetOrdering(I)
    BY <1>2, <2>1, WFMin
  <2> USE DEF T
  <2>3. PICK x \in S : \A y \in S : <<Above(y), Above(x)>> \notin StrictSubsetOrdering(I)
    BY <2>2
  <2>4. ASSUME NEW y \in S, x < y PROVE FALSE
    <3>1. Above(y) \subseteq Above(x)
      <4> SUFFICES ASSUME NEW z \in S, y < z PROVE x < z
        OBVIOUS
      <4>1. x \in Int /\ y \in Int /\ z \in Int
        BY <1>0
      <4> QED
        BY <2>4, <4>1
    <3>2. y \in Above(x) /\ y \notin Above(y)
      BY <1>0, <2>4
    <3>3. Above(y) \in SUBSET I /\ Above(x) \in SUBSET I
      BY <1>0
    <3> QED
      BY <2>3, <3>1, <3>2, <3>3 DEF StrictSubsetOrdering
  <2> QED
    BY <1>0, <2>4
<1> QED
  BY <1>3, <1>4

\* What holds of 0, and of i + 1 when it holds of i, holds up to n.
LEMMA IntervalInduction ==
  ASSUME NEW n \in Nat, NEW S, 0 \in S,
         \A i \in 0..n : i < n /\ i \in S => i + 1 \in S
  PROVE  0..n \subseteq S
<1> DEFINE Outside == {i \in 1..n : i \notin S}
<1>1. SUFFICES Outside = {}
  <2>1. \A i \in 0..n : i = 0 \/ i \in 1..n
    OBVIOUS
  <2> QED
    BY <2>1
<1>2. SUFFICES ASSUME Outside # {} PROVE FALSE
  OBVIOUS
<1>3. Outside \in SUBSET (1..n)
  OBVIOUS
<1> HIDE DEF Outside
<1>4. PICK x \in Outside : \A y \in Outside : x <= y
  BY <1>2, <1>3, Extremes
<1> USE DEF Outside
<1>5. x \in 1..n /\ x \notin S
  BY <1>4
<1>6. x - 1 \in 0..n /\ x - 1 < n /\ (x - 1) + 1 = x
  BY <1>5
<1>7. x - 1 \in S
  <2>1. CASE x = 1
    BY <2>1
  <2>2. CASE x # 1
    <3>1. x - 1 \in 1..n /\ x - 1 < x
      BY <1>5, <2>2
    <3>2. x - 1 \notin Outside
      BY <1>4, <1>5, <3>1
    <3> QED
      BY <3>1, <3>2
  <2> QED
    BY <2>1, <2>2
<1> QED
  BY <1>5, <1>6, <1>7

Stepping(step, n, V) == \A i \in 1..n : \A v \in V : step[i][v] \in V

\* A function that is defined by recursion on 0..n exists: a recursive definition
\* is a CHOOSE to the provers, and this is what there is to choose.
LEMMA RecursionExists ==
  ASSUME NEW n \in Nat, NEW V, NEW c \in V, NEW step, Stepping(step, n, V)
  PROVE  \E f \in [0..n -> V] :
           f[0] = c /\ \A i \in 1..n : f[i] = step[i][f[i - 1]]
<1> DEFINE Good(f, k) == f[0] = c /\ \A i \in 1..k : f[i] = step[i][f[i - 1]]
           S == {k \in 0..n : \E f \in [0..k -> V] : Good(f, k)}
<1>1. 0 \in S
  <2> DEFINE f == [i \in 0..0 |-> c]
  <2>1. f \in [0..0 -> V] /\ Good(f, 0)
    OBVIOUS
  <2> HIDE DEF f, Good
  <2>2. \E h \in [0..0 -> V] : Good(h, 0)
    BY <2>1
  <2>3. 0 \in 0..n
    OBVIOUS
  <2> QED
    BY <2>2, <2>3
<1>2. ASSUME NEW k \in 0..n, k < n, k \in S PROVE k + 1 \in S
  <2>1. PICK f \in [0..k -> V] : Good(f, k)
    BY <1>2
  <2>2. k + 1 \in 1..n /\ f[k] \in V
    BY <1>2
  <2>3. step[k + 1][f[k]] \in V
    BY <2>2 DEF Stepping
  <2> DEFINE g == [i \in 0..(k + 1) |-> IF i <= k THEN f[i] ELSE step[k + 1][f[k]]]
  <2>4. g \in [0..(k + 1) -> V]
    BY <2>3
  <2>5. g[0] = c
    BY <2>1
  <2>6. ASSUME NEW i \in 1..(k + 1) PROVE g[i] = step[i][g[i - 1]]
    <3>1. CASE i <= k
      <4>1. i \in 1..k /\ i - 1 \in 0..k
        BY <3>1
      <4> QED
        BY <2>1, <4>1
    <3>2. CASE i = k + 1
      <4>1. i - 1 = k /\ ~(i <= k) /\ k \in 0..(k + 1)
        BY <3>2
      <4> QED
        BY <3>2, <4>1
    <3> QED
      BY <3>1, <3>2
  <2>7. \E h \in [0..(k + 1) -> V] : Good(h, k + 1)
    <3>1. Good(g, k + 1)
      BY <2>5, <2>6
    <3> HIDE DEF g
    <3> QED
      BY <2>4, <3>1
  <2> QED
    BY <2>2, <2>7
<1> HIDE DEF S
<1>3. 0..n \subseteq S
  BY <1>1, <1>2, IntervalInduction
<1>4. n \in S
  BY <1>3
<1> QED
  BY <1>4 DEF S
=============================================================================
