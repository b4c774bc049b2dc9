--------------------------- MODULE LeastElements ----------------------------
(***************************************************************************)
(* The kernel gives the lowest free descriptor and init_shm looks for the  *)
(* first empty slot: that there is one is proved here, and from it         *)
(* induction over a set, for what is defined by recursion.                 *)
(***************************************************************************)
EXTENDS FiniteSetsExt, WellFoundedInduction, TLAPS

(***************************************************************************)
(* A non-empty set of natural numbers has a least element.                 *)
(***************************************************************************)
LEMMA LeastElement ==
  ASSUME NEW S, S \subseteq Nat, S # {}
  PROVE  \E n \in S : \A m \in S : n <= m
<1> DEFINE R == {pair \in Nat \X Nat : pair[1] < pair[2]}
<1>1. IsWellFoundedOn(R, Nat)
  BY NatLessThanWellFounded, Zenon DEF OpToRel
<1>2. PICK n \in S : \A m \in S : ~(<<m, n>> \in R)
  <2> HIDE DEF R
  <2> QED BY <1>1, WFMin
<1>3. ASSUME NEW m \in S PROVE n <= m
  <2>1. m \in Nat /\ n \in Nat
    OBVIOUS
  <2>2. m < n => <<m, n>> \in R
    BY <2>1
  <2>3. ~(m < n)
    BY <1>2, <2>2
  <2> QED  BY <2>1, <2>3
<1> QED  BY <1>3

(***************************************************************************)
(* Induction, for a set in the place of a predicate.                       *)
(***************************************************************************)
LEMMA Induction ==
  ASSUME NEW B, 0 \in B, \A n \in Nat : n \in B => n + 1 \in B
  PROVE  Nat \subseteq B
<1> SUFFICES ASSUME Nat \ B # {} PROVE FALSE
  OBVIOUS
<1>1. PICK n \in Nat \ B : \A m \in Nat \ B : n <= m
  <2> DEFINE S == Nat \ B
  <2>1. S \subseteq Nat /\ S # {}
    OBVIOUS
  <2> HIDE DEF S
  <2>2. \E n \in S : \A m \in S : n <= m
    BY <2>1, LeastElement
  <2> QED  BY <2>2 DEF S
<1>2. n # 0 /\ n - 1 \in Nat /\ ~(n <= n - 1)
  BY <1>1
<1>3. n - 1 \in B
  BY <1>1, <1>2
<1>4. (n - 1) + 1 = n
  BY <1>1
<1> QED  BY <1>1, <1>2, <1>3, <1>4

\* f goes step by step from a, with next.
Iterates(f, S, a, next) ==
  f \in [Nat -> S] /\ f[0] = a /\ \A n \in Nat : f[n + 1] = next[f[n]]

(***************************************************************************)
(* Definition by recursion, for a function in the place of an operator.    *)
(***************************************************************************)
LEMMA Recursion ==
  ASSUME NEW S, NEW a \in S, NEW next \in [S -> S]
  PROVE  \E f : Iterates(f, S, a, next)
<1> DEFINE UpTo(g, n) == /\ g \in [0..n -> S] /\ g[0] = a
                         /\ \A m \in Nat : m < n => g[m + 1] = next[g[m]]
           B == {n \in Nat : \E g : UpTo(g, n)}
           f == [n \in Nat |-> (CHOOSE g : UpTo(g, n))[n]]
<1>1. \A n \in Nat : \E g : UpTo(g, n)
  <2>1. 0 \in B
    <3>1. UpTo([m \in 0..0 |-> a], 0)
      OBVIOUS
    <3> QED  BY <3>1
  <2>2. ASSUME NEW n \in Nat, n \in B PROVE n + 1 \in B
    <3>1. PICK g : UpTo(g, n)
      BY <2>2
    <3> DEFINE h == [m \in 0 .. n + 1 |-> IF m = n + 1 THEN next[g[n]] ELSE g[m]]
    <3>2. \A m \in 0..n : m \in 0 .. n + 1 /\ m # n + 1 /\ h[m] = g[m]
      OBVIOUS
    <3>3. h \in [0 .. n + 1 -> S] /\ h[0] = a /\ h[n + 1] = next[g[n]]
      BY <3>1
    <3>4. ASSUME NEW m \in Nat, m < n + 1 PROVE h[m + 1] = next[h[m]]
      <4>1. CASE m = n
        BY <3>2, <3>3, <4>1
      <4>2. CASE m < n
        <5>1. m \in 0..n /\ m + 1 \in 0..n
          BY <4>2
        <5> QED  BY <3>1, <3>2, <4>2, <5>1
      <4> QED  BY <3>4, <4>1, <4>2
    <3> HIDE DEF h
    <3>5. UpTo(h, n + 1)
      BY <3>3, <3>4
    <3> QED  BY <3>5
  <2> HIDE DEF B
  <2>3. Nat \subseteq B
    BY <2>1, <2>2, Induction
  <2> QED  BY <2>3 DEF B
<1>2. ASSUME NEW n \in Nat, NEW k \in Nat, NEW g, NEW h, UpTo(g, n), UpTo(h, k)
      PROVE  \A m \in Nat : m <= n /\ m <= k => g[m] = h[m]
  <2> DEFINE C == {m \in Nat : m <= n /\ m <= k => g[m] = h[m]}
  <2>1. 0 \in C
    BY <1>2
  <2>2. ASSUME NEW m \in Nat, m \in C PROVE m + 1 \in C
    <3> SUFFICES ASSUME m + 1 <= n, m + 1 <= k PROVE g[m + 1] = h[m + 1]
      OBVIOUS
    <3>1. m < n /\ m < k
      BY <2>2
    <3>2. g[m] = h[m]
      BY <2>2, <3>1
    <3> QED  BY <1>2, <3>1, <3>2
  <2> HIDE DEF C
  <2>3. Nat \subseteq C
    BY <2>1, <2>2, Induction
  <2> QED  BY <2>3 DEF C
<1> HIDE DEF B
<1> DEFINE G(n) == CHOOSE g : UpTo(g, n)
<1>3. \A n \in Nat : UpTo(G(n), n) /\ f[n] = G(n)[n]
  BY <1>1
<1> HIDE DEF f, G
<1>4. f[0] = a
  BY <1>3
<1>5. \A n \in Nat : f[n] \in S
  BY <1>3
<1>6. ASSUME NEW n \in Nat PROVE f[n + 1] = next[f[n]]
  <2>1. UpTo(G(n + 1), n + 1) /\ UpTo(G(n), n)
    BY <1>3
  <2> HIDE DEF UpTo
  <2>2. G(n + 1)[n] = G(n)[n]
    BY <1>2, <2>1
  <2>3. G(n + 1)[n + 1] = next[G(n + 1)[n]]
    BY <2>1 DEF UpTo
  <2> QED  BY <1>3, <2>2, <2>3
<1>7. f \in [Nat -> S]
  BY <1>5 DEF f
<1> QED  BY <1>4, <1>6, <1>7 DEF Iterates

(***************************************************************************)
(* What Max and Min choose.                                                *)
(***************************************************************************)
LEMMA GreatestIs ==
  ASSUME NEW S \in SUBSET Int, NEW m \in S, \A x \in S : m >= x
  PROVE  Max(S) = m
<1> DEFINE P(x) == x \in S /\ \A y \in S : x >= y
<1>1. P(m)
  OBVIOUS
<1>2. \A x : P(x) => x = m
  OBVIOUS
<1>3. (CHOOSE x \in S : \A y \in S : x >= y) = m
  BY <1>1, <1>2
<1> QED  BY <1>3 DEF Max

LEMMA LeastIs ==
  ASSUME NEW S \in SUBSET Int, NEW m \in S, \A x \in S : m <= x
  PROVE  Min(S) = m
<1> DEFINE P(x) == x \in S /\ \A y \in S : x <= y
<1>1. P(m)
  OBVIOUS
<1>2. \A x : P(x) => x = m
  OBVIOUS
<1>3. (CHOOSE x \in S : \A y \in S : x <= y) = m
  BY <1>1, <1>2
<1> QED  BY <1>3 DEF Min
=============================================================================
