------------------------------ MODULE Counting ------------------------------
(***************************************************************************)
(* What the proofs need of natural numbers: a least element of every set   *)
(* of them, and from it induction and recursion; remainders; powers of 2.  *)
(*                                                                         *)
(* Properties to be shown by induction are stated as sets of numbers, and  *)
(* the step of a recursion as a function.                                  *)
(***************************************************************************)
EXTENDS Integers, FiniteSetTheorems, TLAPS

(* Every set of natural numbers has a least element, if any.               *)
LEMMA Least ==
  ASSUME NEW S \in SUBSET Nat, S # {}
  PROVE  \E m \in S : \A k \in S : m <= k
<1> DEFINE R == OpToRel(<, Nat)
<1>1. IsWellFoundedOn(R, Nat)
  BY NatLessThanWellFounded
<1>2. \A x, y \in Nat : <<x, y>> \in R <=> x < y
  BY DEF OpToRel
<1> HIDE DEF R
<1>3. PICK m \in S : \A y \in S : ~ (<<y, m>> \in R)
  BY <1>1, WFMin
<1>4. ASSUME NEW k \in S PROVE m <= k
  <2>1. ~ (<<k, m>> \in R)
    BY <1>3
  <2> QED
    BY <1>2, <2>1
<1> QED
  BY <1>4

(* Induction up to a number: what holds of 0, and of each number before m  *)
(* passes on to the next, holds up to m.                                   *)
LEMMA UpTo ==
  ASSUME NEW m \in Nat, NEW S, 0 \in S, \A n \in 0 .. m - 1 : n \in S => n + 1 \in S
  PROVE  0 .. m \subseteq S
<1> DEFINE X == (0 .. m) \ S
<1> SUFFICES ASSUME X # {} PROVE FALSE
  OBVIOUS
<1>1. X \in SUBSET Nat
  OBVIOUS
<1> HIDE DEF X
<1>2. PICK n \in X : \A k \in X : n <= k
  BY <1>1, Least
<1>3. n \in 0 .. m /\ n \notin S
  BY DEF X
<1>4. n # 0 /\ n - 1 \in 0 .. m - 1
  BY <1>3
<1>5. n - 1 \in S
  BY <1>2, <1>3, <1>4 DEF X
<1> QED
  BY <1>3, <1>4, <1>5

(* Functions defined by recursion on 0 .. m exist.                         *)
LEMMA Recursion ==
  ASSUME NEW S, NEW c \in S, NEW m \in Nat, NEW D \in [1 .. m -> [S -> S]]
  PROVE  \E g \in [0 .. m -> S] : g[0] = c /\ \A n \in 1 .. m : g[n] = D[n][g[n - 1]]
<1> DEFINE Upto(k, g) == g[0] = c /\ \A n \in 1 .. k : g[n] = D[n][g[n - 1]]
           K == {k \in 0 .. m : \E g \in [0 .. k -> S] : Upto(k, g)}
<1>1. 0 \in K
  <2> DEFINE g == [n \in 0 .. 0 |-> c]
  <2>1. g \in [0 .. 0 -> S] /\ g[0] = c /\ 0 \in 0 .. m
    OBVIOUS
  <2> HIDE DEF g
  <2> QED
    BY <2>1
<1>2. ASSUME NEW k \in 0 .. m - 1, k \in K PROVE k + 1 \in K
  <2>1. PICK g \in [0 .. k -> S] : Upto(k, g)
    BY <1>2
  <2> DEFINE next == D[k + 1][g[k]]
             h == [n \in 0 .. k + 1 |-> IF n = k + 1 THEN next ELSE g[n]]
  <2>2. k + 1 \in 1 .. m /\ g[k] \in S
    OBVIOUS
  <2>3. next \in S
    BY <2>2
  <2> HIDE DEF next
  <2>4. h \in [0 .. k + 1 -> S]
    BY <2>3
  <2>5. h[0] = c
    BY <2>1
  <2>6. \A n \in 1 .. k + 1 : h[n] = D[n][h[n - 1]]
    <3> TAKE n \in 1 .. k + 1
    <3>1. CASE n = k + 1
      BY <3>1 DEF next
    <3>2. CASE n \in 1 .. k
      BY <2>1, <3>2
    <3> QED
      BY <3>1, <3>2
  <2> HIDE DEF h
  <2>7. k + 1 \in 0 .. m
    OBVIOUS
  <2> QED
    BY <2>4, <2>5, <2>6, <2>7
<1> HIDE DEF K
<1>3. 0 .. m \subseteq K
  BY <1>1, <1>2, UpTo
<1>4. m \in K
  BY <1>3
<1> QED
  BY <1>4 DEF K

(* Recursion once more, its parts named.                                   *)
Maps(S, m) == [1 .. m -> [S -> S]]
Run(g, D, c, m) == g[0] = c /\ \A k \in 1 .. m : g[k] = D[k][g[k - 1]]
Results(S, m) == [0 .. m -> S]

LEMMA Runs ==
  ASSUME NEW S, NEW c \in S, NEW m \in Nat, NEW D \in Maps(S, m)
  PROVE  \E g \in Results(S, m) : Run(g, D, c, m)
<1>1. D \in [1 .. m -> [S -> S]]
  BY DEF Maps
<1>2. \E g \in [0 .. m -> S] : g[0] = c /\ \A n \in 1 .. m : g[n] = D[n][g[n - 1]]
  BY <1>1, Recursion
<1> QED
  BY <1>2 DEF Run, Results

-----------------------------------------------------------------------------
(* Remainders.                                                             *)
LEMMA ModRange ==
  ASSUME NEW a \in Int, NEW len \in Nat \ {0}
  PROVE  a % len \in 0 .. len - 1
OBVIOUS

LEMMA ModSame ==
  ASSUME NEW len \in Nat \ {0}, NEW a \in 0 .. len - 1
  PROVE  a % len = a
OBVIOUS

LEMMA ModBelow ==
  ASSUME NEW len \in Nat \ {0}, NEW a \in -len .. -1
  PROVE  a % len = a + len
OBVIOUS

-----------------------------------------------------------------------------
(* Powers of two count subsets, which is all that is known of them here.   *)
LEMMA PowerOfTwo ==
  ASSUME NEW n \in Nat
  PROVE  2^n \in Nat /\ 2^(n + 1) = 2 * 2^n
<1> DEFINE S == SUBSET (1 .. n)
           T == {A \cup {n + 1} : A \in S}
           f == [A \in S |-> A \cup {n + 1}]
<1>1. IsFiniteSet(1 .. n) /\ Cardinality(1 .. n) = n
  BY FS_Interval
<1>2. IsFiniteSet(1 .. n + 1) /\ Cardinality(1 .. n + 1) = n + 1
  BY FS_Interval
<1>3. IsFiniteSet(S) /\ Cardinality(S) = 2^n
  BY <1>1, FS_SUBSET
<1>4. Cardinality(SUBSET (1 .. n + 1)) = 2^(n + 1)
  BY <1>2, FS_SUBSET
<1>5. Cardinality(S) \in Nat
  BY <1>3, FS_CardinalityType
<1>6. SUBSET (1 .. n + 1) = S \cup T
  <2>1. ASSUME NEW A \in SUBSET (1 .. n + 1) PROVE A \in S \cup T
    <3>1. CASE n + 1 \notin A
      BY <3>1
    <3>2. CASE n + 1 \in A
      <4>1. A \ {n + 1} \in S /\ A = (A \ {n + 1}) \cup {n + 1}
        BY <3>2
      <4> QED
        BY <4>1
    <3> QED
      BY <3>1, <3>2
  <2>2. 1 .. n \subseteq 1 .. n + 1 /\ n + 1 \in 1 .. n + 1
    OBVIOUS
  <2> QED
    BY <2>1, <2>2
<1>7. S \cap T = {}
  OBVIOUS
<1>8. f \in Bijection(S, T)
  <2>1. f \in [S -> T]
    OBVIOUS
  <2>2. \A A, B \in S : f[A] = f[B] => A = B
    <3> SUFFICES ASSUME NEW A \in S, NEW B \in S, f[A] = f[B] PROVE A = B
      OBVIOUS
    <3>1. A = f[A] \ {n + 1} /\ B = f[B] \ {n + 1}
      OBVIOUS
    <3> QED
      BY <3>1
  <2>3. \A t \in T : \E A \in S : f[A] = t
    OBVIOUS
  <2> HIDE DEF f, S, T
  <2> QED
    BY <2>1, <2>2, <2>3 DEF Bijection, Injection, Surjection, IsInjective
<1> HIDE DEF S, T, f
<1>9. IsFiniteSet(T) /\ Cardinality(T) = Cardinality(S)
  BY <1>3, <1>8, FS_Bijection DEF ExistsBijection
<1>10. Cardinality(S \cup T) = Cardinality(S) + Cardinality(T) - Cardinality(S \cap T)
  BY <1>3, <1>9, FS_Union
<1>11. Cardinality(S \cap T) = 0
  BY <1>7, FS_EmptySet
<1>12. Cardinality(S \cup T) = 2 * Cardinality(S)
  BY <1>5, <1>9, <1>10, <1>11
<1>13. 2^(n + 1) = 2 * Cardinality(S)
  BY <1>4, <1>6, <1>12, Zenon
<1>14. 2^n \in Nat
  BY <1>3, <1>5, Zenon
<1> QED
  BY <1>3, <1>13, <1>14, Zenon

LEMMA PowerExceeds ==
  ASSUME NEW m \in Nat
  PROVE  2^m \in Nat /\ 2^m > m
<1> DEFINE K == {n \in Nat : 2^n > n}
<1>1. 0 \in K
  OBVIOUS
<1>2. ASSUME NEW n \in 0 .. m - 1, n \in K PROVE n + 1 \in K
  <2>1. 2^n \in Nat /\ 2^(n + 1) = 2 * 2^n
    BY PowerOfTwo
  <2>2. 2^n > n
    BY <1>2
  <2>3. 2^(n + 1) > n + 1
    BY <2>1, <2>2
  <2> QED
    BY <2>3
<1> HIDE DEF K
<1>3. 0 .. m \subseteq K
  BY <1>1, <1>2, UpTo
<1>4. m \in K
  BY <1>3
<1> QED
  BY <1>4, PowerOfTwo DEF K

=============================================================================
