----------------------------- MODULE Recursion -----------------------------
(***************************************************************************)
(* Lemmas about numbers that the proofs share.  The induction theorems of  *)
(* the library take an operator as a parameter, which the provers do not   *)
(* instantiate; SetInduction says the same of a set of numbers.            *)
(***************************************************************************)
EXTENDS Naturals, WellFoundedInduction, TLAPS

LEMMA LeastNumber ==
  ASSUME NEW A, A \subseteq Nat, A # {}
  PROVE  \E x \in A : \A y \in A : x <= y
<1> DEFINE R == OpToRel(<, Nat)
<1>1. IsWellFoundedOn(R, Nat)
  BY NatLessThanWellFounded
<1>2. \A x, y \in Nat : <<y, x>> \in R <=> y < x
  BY DEF OpToRel
<1> HIDE DEF R
<1>3. PICK x \in A : \A y \in A : ~ (<<y, x>> \in R)
  BY <1>1, WFMin
<1>4. ASSUME NEW y \in A PROVE x <= y
  <2>1. x \in Nat /\ y \in Nat
    OBVIOUS
  <2>2. ~ (y < x)
    BY <1>2, <1>3, <2>1
  <2> QED  BY <2>1, <2>2
<1> QED  BY <1>4

LEMMA SetInduction ==
  ASSUME NEW A, 0 \in A, \A n \in Nat : n \in A => n + 1 \in A
  PROVE  Nat \subseteq A
<1> SUFFICES ASSUME Nat \ A # {} PROVE FALSE
  OBVIOUS
<1>1. PICK x \in Nat \ A : \A y \in Nat \ A : x <= y
  BY LeastNumber
<1>2. x # 0 /\ x - 1 \in Nat
  BY <1>1
<1>3. x - 1 \in A
  <2> SUFFICES ASSUME x - 1 \notin A PROVE FALSE
    OBVIOUS
  <2>1. x <= x - 1
    BY <1>1, <1>2
  <2> QED  BY <1>1, <2>1
<1>4. (x - 1) + 1 \in A
  BY <1>2, <1>3
<1>5. (x - 1) + 1 = x
  BY <1>1
<1> QED  BY <1>1, <1>4, <1>5

(* A function on 0..n may be defined by recursion: F[i] leads from its     *)
(* value at i - 1 to the one at i.                                         *)
LEMMA RecursionExists ==
  ASSUME NEW X, NEW a \in X, NEW n \in Nat, NEW F \in [1..n -> [X -> X]]
  PROVE  \E g \in [0..n -> X] : g[0] = a /\ \A i \in 1..n : g[i] = F[i][g[i - 1]]
<1> DEFINE P(k, g) == g[0] = a /\ \A i \in 1..k : g[i] = F[i][g[i - 1]]
           A == {k \in Nat : k <= n => \E g \in [0..k -> X] : P(k, g)}
<1>1. 0 \in A
  <2> DEFINE g == [i \in 0..0 |-> a]
  <2>1. g \in [0..0 -> X] /\ P(0, g)
    OBVIOUS
  <2> QED  BY <2>1
<1>2. ASSUME NEW k \in Nat, k \in A PROVE k + 1 \in A
  <2> SUFFICES ASSUME k + 1 <= n PROVE \E h \in [0..(k + 1) -> X] : P(k + 1, h)
    OBVIOUS
  <2>0. k <= n /\ k + 1 \in 1..n
    OBVIOUS
  <2>1. PICK g \in [0..k -> X] : P(k, g)
    BY <1>2, <2>0
  <2> HIDE DEF P
  <2> DEFINE e == F[k + 1][g[k]]
             h == [i \in 0..(k + 1) |-> IF i = k + 1 THEN e ELSE g[i]]
  <2>2. /\ \A i \in 0..(k + 1) : i = k + 1 \/ i \in 0..k
        /\ \A i \in 0..k : i \in 0..(k + 1) /\ i # k + 1
        /\ \A i \in 1..(k + 1) : i = k + 1 \/ i \in 1..k
        /\ \A i \in 1..k : i \in 0..k /\ i - 1 \in 0..k
        /\ 0 \in 0..k /\ k \in 0..k /\ (k + 1) - 1 = k /\ k + 1 \in 0..(k + 1)
    OBVIOUS
  <2>3. F[k + 1] \in [X -> X] /\ g[k] \in X
    BY <2>0, <2>2
  <2>4. e \in X
    BY <2>3
  <2> HIDE DEF e
  <2>5. h \in [0..(k + 1) -> X]
    BY <2>2, <2>4
  <2>6. h[k + 1] = e /\ \A i \in 0..k : h[i] = g[i]
    BY <2>2
  <2> HIDE DEF h
  <2>7. ASSUME NEW i \in 1..(k + 1) PROVE h[i] = F[i][h[i - 1]]
    <3>1. CASE i = k + 1
      BY <2>2, <2>6, <3>1 DEF e
    <3>2. CASE i \in 1..k
      BY <2>1, <2>2, <2>6, <3>2 DEF P
    <3> QED  BY <2>2, <3>1, <3>2
  <2>8. P(k + 1, h)
    BY <2>1, <2>2, <2>6, <2>7 DEF P
  <2> QED  BY <2>5, <2>8
<1> HIDE DEF A, P
<1>3. n \in A
  BY <1>1, <1>2, SetInduction
<1> QED  BY <1>3 DEF A, P

(* And it is the only one.                                                 *)
Runs(f, X, n, F) == \A i \in 1..n : f[i - 1] \in X => f[i] = F[i][f[i - 1]]

LEMMA RecursionUnique ==
  ASSUME NEW X, NEW n \in Nat, NEW F \in [1..n -> [X -> X]],
         NEW g, NEW f, \A i \in 0..n : g[i] \in X,
         Runs(g, X, n, F), Runs(f, X, n, F), f[0] = g[0]
  PROVE  \A i \in 0..n : f[i] = g[i]
<1> DEFINE A == {i \in Nat : i <= n => f[i] = g[i]}
<1>1. 0 \in A
  OBVIOUS
<1>2. ASSUME NEW i \in Nat, i \in A PROVE i + 1 \in A
  <2> SUFFICES ASSUME i + 1 <= n PROVE f[i + 1] = g[i + 1]
    OBVIOUS
  <2>1. i + 1 \in 1..n /\ (i + 1) - 1 = i /\ i \in 0..n
    OBVIOUS
  <2>2. f[i] = g[i] /\ g[i] \in X
    BY <1>2, <2>1
  <2> QED  BY <2>1, <2>2 DEF Runs
<1> HIDE DEF A
<1>3. Nat \subseteq A
  BY <1>1, <1>2, SetInduction
<1> QED  BY <1>3 DEF A

LEMMA GreatestNumber ==
  ASSUME NEW n \in Nat, NEW A, A \subseteq 0..n, A # {}
  PROVE  \E x \in A : \A y \in A : x >= y
<1> DEFINE B == {n - y : y \in A}
<1>1. B \subseteq Nat /\ B # {}
  <2>1. \A y \in 0..n : n - y \in Nat
    OBVIOUS
  <2>2. \A y \in A : n - y \in Nat
    BY <2>1
  <2>3. B # {}
    OBVIOUS
  <2> QED  BY <2>2, <2>3
<1>2. PICK b \in B : \A c \in B : b <= c
  <2> HIDE DEF B
  <2> QED  BY <1>1, LeastNumber
<1>3. PICK x \in A : b = n - x
  OBVIOUS
<1>4. ASSUME NEW y \in A PROVE x >= y
  <2>1. n - x <= n - y
    BY <1>2, <1>3
  <2>2. x \in 0..n /\ y \in 0..n
    OBVIOUS
  <2> QED  BY <2>1, <2>2
<1> QED  BY <1>4
=============================================================================
