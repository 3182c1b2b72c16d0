--------------------------- MODULE InductionLemmas ---------------------------
(***************************************************************************)
(* Induction over the natural numbers, for a set instead of a predicate,   *)
(* and what it says of recursive functions: that they exist, what bounds   *)
(* the sum of a list, and that a set which only grows stops growing.       *)
(***************************************************************************)
EXTENDS Integers, WellFoundedInduction, FiniteSetTheorems, TLAPS

(* A set of natural numbers that is not empty has a least element.        *)
LEMMA LeastElement ==
    ASSUME NEW T \in SUBSET Nat, T # {}
    PROVE  \E x \in T : \A y \in T : x <= y
<1>1. IsWellFoundedOn(OpToRel(<, Nat), Nat)
  BY NatLessThanWellFounded
<1>2. PICK x \in T : \A y \in T : ~ (<<y, x>> \in OpToRel(<, Nat))
  BY <1>1, WFMin
<1>3. \A y \in T : ~(y < x)
  BY <1>2 DEF OpToRel
<1>4. \A y \in T : x <= y
  BY <1>3
<1> QED
  BY <1>4

(* A set that holds 0, and with every number the next, holds them all.     *)
LEMMA Induction ==
    ASSUME NEW T \in SUBSET Nat, 0 \in T, \A n \in T : n + 1 \in T
    PROVE T = Nat
<1> SUFFICES ASSUME Nat \ T # {} PROVE FALSE
  OBVIOUS
<1>1. PICK x \in Nat \ T : \A y \in Nat \ T : x <= y
  BY LeastElement
<1>2. x # 0
  OBVIOUS
<1>3. x - 1 \in Nat /\ x - 1 \notin T
  BY <1>2
<1> QED
  BY <1>1, <1>3


(* The functions with values in V that are defined by recursion up to m.   *)
Recursions(m, V, base, next) ==
    {g \in [0..m -> V] : g[0] = base /\ \A i \in 1..m : g[i] = next[i][g[i - 1]]}

(* A function that is defined by recursion exists.                         *)
LEMMA RecursionExists ==
    ASSUME NEW m \in Nat, NEW V, NEW base \in V, NEW next \in [1..m -> [V -> V]]
    PROVE  \E g : g \in Recursions(m, V, base, next)
<1> DEFINE Defines(g, n) == g[0] = base /\ \A i \in 1..n : g[i] = next[i][g[i - 1]]
           T == {n \in Nat : n <= m => \E g \in [0..n -> V] : Defines(g, n)}
<1>1. 0 \in T
  <2>1. PICK g \in [0..0 -> V] : g = [i \in 0..0 |-> base]
    OBVIOUS
  <2>2. Defines(g, 0)
    BY <2>1
  <2> QED
    BY <2>2
<1>2. ASSUME NEW n \in T
      PROVE  n + 1 \in T
  <2> SUFFICES ASSUME n + 1 <= m
               PROVE  \E g \in [0..(n + 1) -> V] : Defines(g, n + 1)
    OBVIOUS
  <2>1. n \in Nat /\ n + 1 \in 1..m
    OBVIOUS
  <2>2. PICK g \in [0..n -> V] : Defines(g, n)
    BY <2>1
  <2>3. PICK v \in V : v = next[n + 1][g[n]]
    BY <2>1
  <2>4. PICK h : h = [i \in 0..(n + 1) |-> IF i = n + 1 THEN v ELSE g[i]]
    OBVIOUS
  <2>5. h \in [0..(n + 1) -> V] /\ h[n + 1] = v /\ \A i \in 0..n : h[i] = g[i]
    BY <2>1, <2>4
  <2>6. ASSUME NEW i \in 1..(n + 1)
        PROVE  h[i] = next[i][h[i - 1]]
    <3>1. i - 1 \in 0..n /\ h[i - 1] = g[i - 1]
      BY <2>1, <2>5
    <3>2. CASE i = n + 1
      <4>1. i - 1 = n
        BY <2>1, <3>2
      <4> QED
        BY <2>3, <2>5, <3>1, <3>2, <4>1
    <3>3. CASE i # n + 1
      <4>1. i \in 1..n /\ i \in 0..n
        BY <2>1, <3>3
      <4> QED
        BY <2>2, <2>5, <3>1, <4>1
    <3> QED
      BY <3>2, <3>3
  <2>7. h[0] = base
    <3>1. 0 \in 0..n
      BY <2>1
    <3> QED
      BY <2>2, <2>5, <3>1
  <2>8. Defines(h, n + 1)
    BY <2>6, <2>7
  <2> HIDE DEF Defines
  <2> QED
    BY <2>5, <2>8
<1> HIDE DEF T
<1>3. T = Nat
  <2>1. T \in SUBSET Nat
    BY DEF T
  <2> QED
    BY <1>1, <1>2, <2>1, Induction
<1>4. \E g \in [0..m -> V] : Defines(g, m)
  BY <1>3 DEF T
<1> QED
  BY <1>4 DEF Recursions

(* The values of the recursive definition, as TLA+ writes it.              *)
Unfoldings(m, V, base, next) ==
    {g \in [0..m -> V] : \A i \in 0..m : g[i] = IF i = 0 THEN base ELSE next[i][g[i - 1]]}

(* A recursive definition has a value.                                      *)
LEMMA RecursionUnfolds ==
    ASSUME NEW m \in Nat, NEW V, NEW base \in V, NEW next \in [1..m -> [V -> V]]
    PROVE  \E g : g \in Unfoldings(m, V, base, next)
<1>1. PICK g : g \in Recursions(m, V, base, next)
  BY RecursionExists
<1>2. g \in [0..m -> V] /\ g[0] = base /\ \A i \in 1..m : g[i] = next[i][g[i - 1]]
  BY <1>1 DEF Recursions
<1>3. \A i \in 0..m : i # 0 => i \in 1..m
  OBVIOUS
<1> QED
  BY <1>2, <1>3 DEF Unfoldings

(* A function that adds to the sets of elements of U, and what it makes of  *)
(* a set that is not empty in m turns.                                      *)
Grows(grow, U) ==
    grow \in [SUBSET U -> SUBSET U] /\ \A S \in SUBSET U : S \subseteq grow[S]

Grown(g, m, U, grow) ==
    /\ g \in [0..m -> SUBSET U] /\ g[0] # {}
    /\ \A i \in 1..m : g[i] = grow[g[i - 1]]

(* A set that grows as long as it can, within a finite set of m elements,   *)
(* has stopped growing after m turns.                                       *)
LEMMA GrowthEnds ==
    ASSUME NEW U, IsFiniteSet(U), NEW m \in Nat, Cardinality(U) <= m,
           NEW grow, Grows(grow, U), NEW g, Grown(g, m, U, grow)
    PROVE  grow[g[m]] = g[m]
<1>0. /\ grow \in [SUBSET U -> SUBSET U] /\ \A S \in SUBSET U : S \subseteq grow[S]
      /\ g \in [0..m -> SUBSET U] /\ g[0] # {}
      /\ \A i \in 1..m : g[i] = grow[g[i - 1]]
  BY DEF Grows, Grown
<1> DEFINE T == {n \in Nat : n <= m => grow[g[n]] = g[n] \/ Cardinality(g[n]) >= n + 1}
<1>1. \A n \in 0..m : g[n] \in SUBSET U /\ IsFiniteSet(g[n]) /\ Cardinality(g[n]) \in Nat
  BY <1>0, FS_Subset, FS_CardinalityType
<1>2. 0 \in T
  <2>1. Cardinality(g[0]) # 0
    BY <1>0, <1>1, FS_EmptySet
  <2> QED
    BY <1>1, <2>1
<1>3. ASSUME NEW n \in T
      PROVE  n + 1 \in T
  <2> SUFFICES ASSUME n + 1 <= m
               PROVE  grow[g[n + 1]] = g[n + 1] \/ Cardinality(g[n + 1]) >= (n + 1) + 1
    OBVIOUS
  <2>1. n \in 0..m /\ n + 1 \in 1..m /\ n + 1 \in 0..m /\ (n + 1) - 1 = n
    OBVIOUS
  <2>2. g[n + 1] = grow[g[n]] /\ g[n] \subseteq g[n + 1]
    BY <1>0, <1>1, <2>1
  <2>3. CASE grow[g[n]] = g[n]
    BY <2>2, <2>3
  <2>4. CASE grow[g[n]] # g[n] /\ Cardinality(g[n]) >= n + 1
    <3>1. Cardinality(g[n]) <= Cardinality(g[n + 1]) /\ Cardinality(g[n]) # Cardinality(g[n + 1])
      BY <1>1, <2>1, <2>2, <2>4, FS_Subset
    <3> QED
      BY <1>1, <2>1, <2>4, <3>1
  <2> QED
    BY <2>1, <2>3, <2>4
<1> HIDE DEF T
<1>4. T = Nat
  <2>1. T \in SUBSET Nat
    BY DEF T
  <2> QED
    BY <1>2, <1>3, <2>1, Induction
<1>5. m \in 0..m
  OBVIOUS
<1>6. Cardinality(g[m]) <= Cardinality(U) /\ Cardinality(U) \in Nat
  BY <1>1, <1>5, FS_Subset, FS_CardinalityType
<1> QED
  BY <1>1, <1>4, <1>5, <1>6 DEF T

(* s[i] is the sum of the first i values of f, for every i up to n.         *)
IsRunningSum(s, f, n) == s = [i \in 0..n |-> IF i = 0 THEN 0 ELSE s[i - 1] + f[i]]

(* The recursive definition of a running sum has a value.                   *)
LEMMA RunningSumExists ==
    ASSUME NEW m \in Nat, NEW f, \A i \in 1..m : f[i] \in Nat
    PROVE  \E s : IsRunningSum(s, f, m)
<1> DEFINE next == [i \in 1..m |-> [x \in Nat |-> x + f[i]]]
<1>1. /\ next \in [1..m -> [Nat -> Nat]]
      /\ \A i \in 1..m : \A x \in Nat : next[i][x] = x + f[i]
  OBVIOUS
<1> HIDE DEF next
<1>2. PICK s : s \in Recursions(m, Nat, 0, next)
  BY <1>1, RecursionExists
<1>3. s \in [0..m -> Nat] /\ s[0] = 0 /\ \A i \in 1..m : s[i] = next[i][s[i - 1]]
  BY <1>2 DEF Recursions
<1>4. ASSUME NEW i \in 0..m
      PROVE  s[i] = IF i = 0 THEN 0 ELSE s[i - 1] + f[i]
  <2>1. CASE i # 0
    <3>1. i \in 1..m /\ i - 1 \in 0..m
      BY <2>1
    <3> QED
      BY <1>1, <1>3, <2>1, <3>1
  <2> QED
    BY <1>3, <2>1
<1>5. s = [i \in 0..m |-> IF i = 0 THEN 0 ELSE s[i - 1] + f[i]]
  BY <1>3, <1>4
<1> QED
  BY <1>5 DEF IsRunningSum

(* A sum of m values is at least m times a value that none is below.       *)
LEMMA RunningSumLowerBound ==
    ASSUME NEW m \in Nat, NEW f, NEW low \in Nat,
           \A i \in 1..m : f[i] \in Nat /\ low <= f[i],
           NEW s, IsRunningSum(s, f, m)
    PROVE  s[m] \in Nat /\ m * low <= s[m]
<1> DEFINE T == {n \in Nat : n <= m => s[n] \in Nat /\ n * low <= s[n]}
<1>1. \A i \in 0..m : s[i] = IF i = 0 THEN 0 ELSE s[i - 1] + f[i]
  BY DEF IsRunningSum
<1>2. 0 \in T
  BY <1>1
<1>3. ASSUME NEW n \in T
      PROVE  n + 1 \in T
  <2> SUFFICES ASSUME n + 1 <= m
               PROVE  s[n + 1] \in Nat /\ (n + 1) * low <= s[n + 1]
    OBVIOUS
  <2>1. n \in Nat /\ s[n] \in Nat /\ n * low <= s[n]
    OBVIOUS
  <2>2. n + 1 \in 0..m /\ n + 1 # 0 /\ (n + 1) - 1 = n
    BY <2>1
  <2>3. s[n + 1] = s[n] + f[n + 1] /\ f[n + 1] \in Nat /\ low <= f[n + 1]
    BY <1>1, <2>2
  <2>4. (n + 1) * low = n * low + low /\ n * low \in Nat
    BY <2>1
  <2> QED
    BY <2>1, <2>3, <2>4
<1> HIDE DEF T
<1>4. T = Nat
  <2>1. T \in SUBSET Nat
    BY DEF T
  <2> QED
    BY <1>2, <1>3, <2>1, Induction
<1> QED
  BY <1>4 DEF T

(* A sum of m values is at most m times a value that none is above.        *)
LEMMA RunningSumUpperBound ==
    ASSUME NEW m \in Nat, NEW f, NEW high \in Nat,
           \A i \in 1..m : f[i] \in Nat /\ f[i] <= high,
           NEW s, IsRunningSum(s, f, m)
    PROVE  s[m] \in Nat /\ s[m] <= m * high
<1> DEFINE T == {n \in Nat : n <= m => s[n] \in Nat /\ s[n] <= n * high}
<1>1. \A i \in 0..m : s[i] = IF i = 0 THEN 0 ELSE s[i - 1] + f[i]
  BY DEF IsRunningSum
<1>2. 0 \in T
  BY <1>1
<1>3. ASSUME NEW n \in T
      PROVE  n + 1 \in T
  <2> SUFFICES ASSUME n + 1 <= m
               PROVE  s[n + 1] \in Nat /\ s[n + 1] <= (n + 1) * high
    OBVIOUS
  <2>1. n \in Nat /\ s[n] \in Nat /\ s[n] <= n * high
    OBVIOUS
  <2>2. n + 1 \in 0..m /\ n + 1 # 0 /\ (n + 1) - 1 = n
    BY <2>1
  <2>3. s[n + 1] = s[n] + f[n + 1] /\ f[n + 1] \in Nat /\ f[n + 1] <= high
    BY <1>1, <2>2
  <2>4. (n + 1) * high = n * high + high /\ n * high \in Nat
    BY <2>1
  <2> QED
    BY <2>1, <2>3, <2>4
<1> HIDE DEF T
<1>4. T = Nat
  <2>1. T \in SUBSET Nat
    BY DEF T
  <2> QED
    BY <1>2, <1>3, <2>1, Induction
<1> QED
  BY <1>4 DEF T

(* A recursive definition whose i-th value is in G[i] if the one before is  *)
(* in its set.                                                              *)
Stages(m, G, base, next) ==
    base \in G[0] /\ \A i \in 1..m : \A x \in G[i - 1] : next[i][x] \in G[i]

UnfoldedIn(m, G, base, next) ==
    {g \in [0..m -> UNION {G[i] : i \in 0..m}] :
        \A i \in 0..m : /\ g[i] \in G[i]
                        /\ g[i] = IF i = 0 THEN base ELSE next[i][g[i - 1]]}

(* What holds of the first value and is handed on holds of all of them.     *)
LEMMA StagesHold ==
    ASSUME NEW m \in Nat, NEW G, NEW g, g[0] \in G[0],
           \A i \in 1..m : g[i - 1] \in G[i - 1] => g[i] \in G[i]
    PROVE  \A i \in 0..m : g[i] \in G[i]
<1> DEFINE T == {n \in Nat : n <= m => g[n] \in G[n]}
<1>1. 0 \in T
  OBVIOUS
<1>2. ASSUME NEW n \in T
      PROVE  n + 1 \in T
  <2>1. CASE n + 1 <= m
    <3>1. n + 1 \in 1..m /\ (n + 1) - 1 = n /\ g[n] \in G[n]
      BY <2>1
    <3>2. g[n + 1] \in G[n + 1]
      BY <3>1
    <3> QED
      BY <3>2
  <2>2. CASE ~(n + 1 <= m)
    BY <2>2
  <2> QED
    BY <2>1, <2>2
<1> HIDE DEF T
<1>3. T = Nat
  <2>1. T \in SUBSET Nat
    BY DEF T
  <2> QED
    BY <1>1, <1>2, <2>1, Induction
<1> QED
  BY <1>3 DEF T

(* Such a definition has a value.                                           *)
LEMMA StagesUnfold ==
    ASSUME NEW m \in Nat, NEW G, NEW base, NEW next, Stages(m, G, base, next)
    PROVE  \E g : g \in UnfoldedIn(m, G, base, next)
<1>1. PICK V : V = UNION {G[i] : i \in 0..m}
  OBVIOUS
<1>2. base \in G[0] /\ \A i \in 1..m : \A x \in G[i - 1] : next[i][x] \in G[i]
  BY DEF Stages
<1>3. \A i \in 0..m : G[i] \subseteq V
  BY <1>1
<1>4. \A i \in 1..m : i \in 0..m /\ i - 1 \in 0..m /\ i # 0
  OBVIOUS
<1>5. base \in V
  BY <1>2, <1>3
<1> DEFINE guarded == [i \in 1..m |-> [x \in V |-> IF x \in G[i - 1] THEN next[i][x] ELSE base]]
<1>6. guarded \in [1..m -> [V -> V]]
  <2>1. \A i \in 1..m : \A x \in V : (IF x \in G[i - 1] THEN next[i][x] ELSE base) \in V
    BY <1>2, <1>3, <1>4, <1>5
  <2> QED
    BY <2>1, Zenon
<1>7. \A i \in 1..m : \A x \in G[i - 1] : guarded[i][x] = next[i][x]
  BY <1>3, <1>4
<1> HIDE DEF guarded
<1>8. PICK g : g \in Unfoldings(m, V, base, guarded)
  BY <1>5, <1>6, RecursionUnfolds
<1>9. g \in [0..m -> V] /\ \A i \in 0..m : g[i] = IF i = 0 THEN base ELSE guarded[i][g[i - 1]]
  BY <1>8 DEF Unfoldings
<1>10. g[0] \in G[0]
  BY <1>2, <1>9
<1>11. \A i \in 1..m : g[i - 1] \in G[i - 1] => g[i] \in G[i]
  BY <1>2, <1>4, <1>7, <1>9
<1>12. \A i \in 0..m : g[i] \in G[i]
  BY <1>10, <1>11, StagesHold
<1>13. ASSUME NEW i \in 0..m
       PROVE  g[i] = IF i = 0 THEN base ELSE next[i][g[i - 1]]
  <2>1. CASE i # 0
    <3>1. i \in 1..m /\ i - 1 \in 0..m
      BY <2>1
    <3> QED
      BY <1>7, <1>9, <1>12, <2>1, <3>1
  <2> QED
    BY <1>9, <2>1
<1> QED
  BY <1>1, <1>9, <1>12, <1>13 DEF UnfoldedIn
=============================================================================
