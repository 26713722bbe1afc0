--------------------------- MODULE NaturalsLemmas ---------------------------
(***************************************************************************)
(* Induction over the natural numbers and definition by recursion, stated  *)
(* of sets and functions, so that no operator has to be instantiated.      *)
(***************************************************************************)
EXTENDS Integers, WellFoundedInduction, TLAPS

\* A set of numbers that is not empty has a least element.
LEMMA LeastNumber ==
  ASSUME NEW S \in SUBSET Nat, S # {}
  PROVE  \E m \in S : \A k \in S : m <= k
<1> DEFINE less == OpToRel(<, Nat)
<1>1. IsWellFoundedOn(less, Nat)
  BY NatLessThanWellFounded, Zenon
<1>2. PICK m \in S : \A k \in S : ~ (<<k, m>> \in less)
  BY <1>1, WFMin
<1>3. \A k \in S : ~ (k < m)
  BY <1>2 DEF OpToRel
<1>4. QED
  BY <1>3

\* Induction up to a bound.
LEMMA BoundedInduction ==
  ASSUME NEW N \in Nat, NEW S, 0 \in S, \A n \in 1..N : n - 1 \in S => n \in S
  PROVE  0..N \subseteq S
<1> SUFFICES ASSUME (0..N) \ S # {} PROVE FALSE
  OBVIOUS
<1>1. PICK m \in (0..N) \ S : \A k \in (0..N) \ S : m <= k
  <2>1. (0..N) \ S \in SUBSET Nat
    OBVIOUS
  <2>2. QED
    BY <2>1, LeastNumber
<1>2. m \in 1..N /\ m - 1 \in S
  BY <1>1
<1>3. QED
  BY <1>1, <1>2

\* f is defined by its value at 0 and a step to each number from the one
\* before.
Recursive(f, n, base, step) ==
  f[0] = base /\ \A k \in 1..n : f[k] = step[k][f[k - 1]]

\* Such a definition has a solution.
LEMMA Recursion ==
  ASSUME NEW N \in Nat, NEW S, NEW base \in S, NEW step \in [1..N -> [S -> S]]
  PROVE  \E f \in [0..N -> S] : Recursive(f, N, base, step)
<1> DEFINE Good == {n \in 0..N : \E f \in [0..n -> S] : Recursive(f, n, base, step)}
<1>1. 0 \in Good
  <2> DEFINE g == [k \in 0..0 |-> base]
  <2>1. g \in [0..0 -> S] /\ g[0] = base
    OBVIOUS
  <2>2. Recursive(g, 0, base, step)
    BY <2>1 DEF Recursive
  <2> HIDE DEF g
  <2>3. QED
    BY <2>1, <2>2
<1>2. ASSUME NEW n \in 1..N, n - 1 \in Good PROVE n \in Good
  <2>1. PICK f \in [0..n - 1 -> S] : Recursive(f, n - 1, base, step)
    BY <1>2
  <2> DEFINE g == [k \in 0..n |-> IF k = n THEN step[n][f[n - 1]] ELSE f[k]]
  <2>2. step[n][f[n - 1]] \in S
    <3>1. n - 1 \in 0..n - 1
      OBVIOUS
    <3>2. f[n - 1] \in S
      BY <3>1
    <3>3. QED
      BY <3>2
  <2>3. g \in [0..n -> S]
    <3>1. \A k \in 0..n : k # n => f[k] \in S
      OBVIOUS
    <3>2. QED
      BY <2>2, <3>1
  <2>4. g[0] = base
    BY <2>1 DEF Recursive
  <2>5. ASSUME NEW k \in 1..n PROVE g[k] = step[k][g[k - 1]]
    <3>1. g[k - 1] = f[k - 1]
      OBVIOUS
    <3>2. CASE k = n
      <4>1. g[n] = step[n][f[n - 1]]
        BY DEF g
      <4> HIDE DEF g
      <4>2. QED
        BY <3>1, <3>2, <4>1
    <3>3. CASE k # n
      <4>1. k \in 1..n - 1
        BY <3>3
      <4>2. g[k] = f[k]
        BY <4>1
      <4>3. QED
        BY <2>1, <3>1, <4>1, <4>2 DEF Recursive
    <3>4. QED
      BY <3>2, <3>3
  <2>6. Recursive(g, n, base, step)
    BY <2>4, <2>5 DEF Recursive
  <2> HIDE DEF g
  <2>7. QED
    BY <2>3, <2>6
<1>3. N \in Good
  <2> HIDE DEF Good
  <2>1. 0..N \subseteq Good
    BY <1>1, <1>2, BoundedInduction
  <2>2. QED
    BY <2>1
<1>4. QED
  BY <1>3
=============================================================================
