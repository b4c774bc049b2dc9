--------------------------- MODULE SvgPlotProofs ----------------------------
(***************************************************************************)
(* Proofs about the numbers of SvgPlot, for every precision: rounding to a *)
(* float keeps the order of numbers, leaves floats alone and moves no      *)
(* number by more than half of the distance between floats; and what       *)
(* follows for scales and grid lines.                                      *)
(***************************************************************************)
EXTENDS SvgPlot, LeastElements

-----------------------------------------------------------------------------
(* Powers of two                                                           *)

LEMMA Pow2Type ==
  /\ Pow2 \in [Nat -> Nat]
  /\ Pow2[0] = 1 /\ \A n \in Nat : Pow2[n + 1] = 2 * Pow2[n]
<1> DEFINE IsPow2(f) == f = [k \in Nat |-> IF k = 0 THEN 1 ELSE 2 * f[k - 1]]
           twice == [n \in Nat |-> 2 * n]
<1>1. twice \in [Nat -> Nat]
  OBVIOUS
<1>2. PICK f : Iterates(f, Nat, 1, twice)
  <2>1. 1 \in Nat
    OBVIOUS
  <2> HIDE DEF twice
  <2> QED  BY <1>1, <2>1, Recursion, Zenon
<1>3. /\ f \in [Nat -> Nat]
      /\ f[0] = 1 /\ \A n \in Nat : f[n + 1] = 2 * f[n]
  BY <1>2 DEF Iterates
<1>4. IsPow2(f)
  <2>1. ASSUME NEW k \in Nat
        PROVE  f[k] = IF k = 0 THEN 1 ELSE 2 * f[k - 1]
    <3>1. CASE k = 0
      BY <1>3, <3>1
    <3>2. CASE k # 0
      <4>1. k - 1 \in Nat /\ (k - 1) + 1 = k
        BY <3>2
      <4> QED  BY <1>3, <3>2, <4>1
    <3> QED  BY <3>1, <3>2
  <2> QED  BY <1>3, <2>1
<1>5. IsPow2(Pow2)
  <2>1. Pow2 = CHOOSE g : IsPow2(g)
    BY DEF Pow2
  <2> HIDE DEF IsPow2
  <2> QED  BY <1>4, <2>1
<1>6. Pow2[0] = 1 /\ \A n \in Nat : Pow2[n + 1] = 2 * Pow2[n]
  <2>1. Pow2[0] = 1
    BY <1>5
  <2>2. ASSUME NEW n \in Nat PROVE Pow2[n + 1] = 2 * Pow2[n]
    <3>1. n + 1 \in Nat /\ n + 1 # 0 /\ (n + 1) - 1 = n
      OBVIOUS
    <3> QED  BY <1>5, <3>1
  <2> QED  BY <2>1, <2>2
<1> DEFINE B == {n \in Nat : Pow2[n] \in Nat}
<1>7. 0 \in B
  BY <1>6
<1>8. ASSUME NEW n \in Nat, n \in B PROVE n + 1 \in B
  BY <1>6, <1>8
<1>9. Nat \subseteq B
  <2> HIDE DEF B
  <2> QED  BY <1>7, <1>8, Induction
<1>10. Pow2 = [k \in Nat |-> Pow2[k]]
  BY <1>5
<1> QED  BY <1>6, <1>9, <1>10

\* They grow, beyond every bound.
LEMMA Pow2Grows ==
  /\ \A n \in Nat : Pow2[n] > n
  /\ \A m, n \in Nat : Pow2[m] <= Pow2[m + n]
<1> DEFINE B == {n \in Nat : Pow2[n] > n}
           C(m) == {n \in Nat : Pow2[m] <= Pow2[m + n]}
<1>1. Nat \subseteq B
  <2>1. 0 \in B
    BY Pow2Type
  <2>2. ASSUME NEW n \in Nat, n \in B PROVE n + 1 \in B
    BY Pow2Type, <2>2
  <2> HIDE DEF B
  <2> QED  BY <2>1, <2>2, Induction
<1>2. ASSUME NEW m \in Nat PROVE Nat \subseteq C(m)
  <2>1. 0 \in C(m)
    BY Pow2Type
  <2>2. ASSUME NEW n \in Nat, n \in C(m) PROVE n + 1 \in C(m)
    <3>1. Pow2[m + (n + 1)] = 2 * Pow2[m + n]
      <4>1. m + (n + 1) = (m + n) + 1 /\ m + n \in Nat
        OBVIOUS
      <4> QED  BY <4>1, Pow2Type
    <3> QED  BY <2>2, <3>1, Pow2Type
  <2> HIDE DEF C
  <2> QED  BY <2>1, <2>2, Induction
<1> QED  BY <1>1, <1>2

\* A smaller one divides a greater one.
LEMMA Pow2Divides ==
  ASSUME NEW m \in Nat, NEW n \in Nat, m <= n
  PROVE  \E q \in Nat \ {0} : Pow2[n] = q * Pow2[m]
<1> DEFINE B == {k \in Nat : \E q \in Nat \ {0} : Pow2[m + k] = q * Pow2[m]}
<1>1. 0 \in B
  <2>1. Pow2[m + 0] = 1 * Pow2[m]
    BY Pow2Type
  <2> QED  BY <2>1
<1>2. ASSUME NEW k \in Nat, k \in B PROVE k + 1 \in B
  <2>1. PICK q \in Nat \ {0} : Pow2[m + k] = q * Pow2[m]
    BY <1>2
  <2>2. Pow2[m + (k + 1)] = 2 * Pow2[m + k]
    <3>1. m + (k + 1) = (m + k) + 1 /\ m + k \in Nat
      OBVIOUS
    <3> QED  BY <3>1, Pow2Type
  <2>3. 2 * q \in Nat \ {0} /\ Pow2[m] \in Nat
    BY Pow2Type
  <2>4. 2 * (q * Pow2[m]) = (2 * q) * Pow2[m]
    BY <2>3
  <2> QED  BY <2>1, <2>2, <2>3, <2>4
<1> HIDE DEF B
<1>3. n - m \in B
  BY <1>1, <1>2, Induction
<1>4. m + (n - m) = n
  OBVIOUS
<1> QED  BY <1>3, <1>4 DEF B

LEMMA Pow2Ordered ==
  ASSUME NEW m \in Nat, NEW n \in Nat
  PROVE  /\ Pow2[m] \in Nat /\ Pow2[m] >= 1
         /\ m <= n => Pow2[m] <= Pow2[n]
         /\ m < n => 2 * Pow2[m] <= Pow2[n]
<1>1. Pow2[m] \in Nat /\ Pow2[m] >= 1
  BY Pow2Type, Pow2Grows
<1>2. ASSUME NEW k \in Nat, k <= n PROVE Pow2[k] <= Pow2[n]
  <2>1. n - k \in Nat /\ k + (n - k) = n
    BY <1>2
  <2> QED  BY <2>1, Pow2Grows
<1>3. ASSUME m < n PROVE 2 * Pow2[m] <= Pow2[n]
  BY <1>2, <1>3, Pow2Type
<1> QED  BY <1>1, <1>2, <1>3

-----------------------------------------------------------------------------
(* The distance between floats                                             *)

\* The least of the numbers whose floats are 10 * Pow2[k] apart.
Low(k) == Half * (10 * Pow2[k])

InBinade(v, k) == Low(k) <= AbsVal(v) /\ AbsVal(v) < 2 * Low(k)

LEMMA HalfIs ==
  /\ Half \in Nat /\ Half >= 1 /\ Pow2[Precision] = 2 * Half
  /\ One = 160 * Half /\ Low(0) = 10 * Half
<1> DEFINE n == Precision - 1
<1>1. n \in Nat /\ Precision = n + 1 /\ n + 1 \in Nat
  BY PlotAssumption
<1>2. /\ Pow2[n] \in Nat /\ Pow2[n] >= 1 /\ Pow2[n + 1] = 2 * Pow2[n]
      /\ Pow2[0] = 1
  BY <1>1, Pow2Ordered, Pow2Type
<1>3. Pow2[n + 1] = Pow2[Precision]
  BY <1>1
<1> QED  BY <1>2, <1>3 DEF Half, One, Low

LEMMA LowIs ==
  ASSUME NEW k \in Nat
  PROVE  /\ Low(k) \in Nat /\ Low(k) >= 10 * Half /\ Low(k) >= 10
         /\ Low(k + 1) = 2 * Low(k)
         /\ \A n \in Nat : k < n => 2 * Low(k) <= Low(n)
<1>1. ASSUME NEW a \in Nat, NEW b \in Nat, a <= b
      PROVE  Half * a <= Half * b
  BY <1>1, HalfIs
<1>2. \A n \in Nat : Pow2[n] \in Nat /\ Pow2[n] >= 1
  BY Pow2Ordered
<1>3. Low(k) \in Nat /\ Low(k) >= 10 * Half
  <2>1. 10 \in Nat /\ 10 * Pow2[k] \in Nat /\ 10 <= 10 * Pow2[k]
    BY <1>2
  <2>2. Half * 10 <= Half * (10 * Pow2[k])
    BY <1>1, <2>1
  <2> QED  BY <2>1, <2>2, HalfIs DEF Low
<1>4. Low(k + 1) = 2 * Low(k)
  <2>1. 10 * Pow2[k + 1] = 2 * (10 * Pow2[k])
    BY <1>2, Pow2Type
  <2>2. \A a \in Nat : Half * (2 * a) = 2 * (Half * a)
    BY HalfIs
  <2>3. 10 * Pow2[k] \in Nat
    BY <1>2
  <2> QED  BY <2>1, <2>2, <2>3 DEF Low
<1>5. ASSUME NEW n \in Nat, k < n PROVE 2 * Low(k) <= Low(n)
  <2>1. 2 * (10 * Pow2[k]) <= 10 * Pow2[n]
    BY <1>2, <1>5, Pow2Ordered
  <2>2. 2 * (10 * Pow2[k]) \in Nat /\ 10 * Pow2[n] \in Nat /\ 10 * Pow2[k] \in Nat
    BY <1>2
  <2>3. Half * (2 * (10 * Pow2[k])) <= Half * (10 * Pow2[n])
    BY <1>1, <2>1, <2>2
  <2>4. \A a \in Nat : Half * (2 * a) = 2 * (Half * a)
    BY HalfIs
  <2> QED  BY <2>2, <2>3, <2>4 DEF Low
<1> QED  BY <1>3, <1>4, <1>5, HalfIs

LEMMA AbsIs ==
  ASSUME NEW v \in Int
  PROVE  /\ AbsVal(v) \in Nat /\ AbsVal(-v) = AbsVal(v)
         /\ v >= 0 => AbsVal(v) = v
         /\ v < 0 => AbsVal(v) = -v
         /\ AbsVal(AbsVal(v)) = AbsVal(v)
BY DEF AbsVal

\* A number that is not small has one binade, and its half is in the one below.
LEMMA BinadeExists ==
  ASSUME NEW v \in Int, AbsVal(v) >= 10 * Half
  PROVE  \E k \in Nat : InBinade(v, k)
<1> DEFINE S == {m \in Nat : AbsVal(v) < Low(m)}
<1>1. AbsVal(v) \in Nat
  BY AbsIs
<1>2. AbsVal(v) \in S
  <2>1. /\ Pow2[AbsVal(v)] \in Nat /\ Pow2[AbsVal(v)] > AbsVal(v)
        /\ Half \in Nat /\ Half >= 1
    BY <1>1, Pow2Grows, Pow2Type, HalfIs
  <2>2. \A a \in Nat : Half * a >= a
    BY <2>1
  <2>3. Low(AbsVal(v)) >= 10 * Pow2[AbsVal(v)]
    BY <2>1, <2>2 DEF Low
  <2>4. Low(AbsVal(v)) \in Nat
    BY <1>1, LowIs
  <2>5. AbsVal(v) < Low(AbsVal(v))
    BY <1>1, <2>1, <2>3, <2>4
  <2> QED  BY <1>1, <2>5
<1>3. PICK m \in S : \A n \in S : m <= n
  <2>1. S \subseteq Nat /\ S # {}
    BY <1>2
  <2> HIDE DEF S
  <2> QED  BY <2>1, LeastElement
<1>4. m \in Nat /\ AbsVal(v) < Low(m)
  BY <1>3
<1>5. m # 0
  BY <1>1, <1>4, HalfIs
<1>6. m - 1 \in Nat /\ (m - 1) + 1 = m
  BY <1>4, <1>5
<1>7. ~(AbsVal(v) < Low(m - 1))
  <2>1. m - 1 \notin S
    BY <1>3, <1>4, <1>6
  <2> QED  BY <1>6, <2>1
<1>8. Low(m) = 2 * Low(m - 1) /\ Low(m - 1) \in Nat
  BY <1>6, LowIs
<1>9. InBinade(v, m - 1)
  BY <1>1, <1>4, <1>7, <1>8 DEF InBinade
<1> QED  BY <1>6, <1>9

LEMMA BinadeOrder ==
  ASSUME NEW v \in Int, NEW w \in Int, NEW k \in Nat, NEW l \in Nat,
         InBinade(v, k), InBinade(w, l), AbsVal(v) <= AbsVal(w)
  PROVE  k <= l
<1> SUFFICES ASSUME l < k PROVE FALSE
  OBVIOUS
<1>1. 2 * Low(l) <= Low(k) /\ Low(l) \in Nat /\ Low(k) \in Nat
  BY LowIs
<1>2. AbsVal(v) \in Nat /\ AbsVal(w) \in Nat
  BY AbsIs
<1> QED  BY <1>1, <1>2 DEF InBinade

LEMMA BinadeHalved ==
  ASSUME NEW v \in Int, NEW k \in Nat, InBinade(v, k + 1)
  PROVE  /\ AbsVal(v) \div 2 \in Nat /\ AbsVal(v) \div 2 \in Int
         /\ InBinade(AbsVal(v) \div 2, k)
<1>1. Low(k + 1) = 2 * Low(k) /\ Low(k) \in Nat
  BY LowIs
<1>2. AbsVal(v) \in Nat
  BY AbsIs
<1>3. AbsVal(v) \div 2 \in Nat
  BY <1>2
<1>4. AbsVal(AbsVal(v) \div 2) = AbsVal(v) \div 2
  BY <1>3, AbsIs
<1> QED  BY <1>1, <1>2, <1>3, <1>4 DEF InBinade

\* The definition of Ulp.
IsUlp(f) ==
  f = [v \in Int |->
         IF AbsVal(v) < 10 * Half THEN 1
         ELSE IF AbsVal(v) < 20 * Half THEN 10
         ELSE 2 * f[AbsVal(v) \div 2]]

\* The binade of a number and the distances, without recursion.
Scale(v) == CHOOSE k \in Nat : InBinade(v, k)

UlpOf == [v \in Int |-> IF AbsVal(v) < 10 * Half THEN 1 ELSE 10 * Pow2[Scale(v)]]

LEMMA ScaleIs ==
  ASSUME NEW v \in Int, NEW k \in Nat, InBinade(v, k)
  PROVE  Scale(v) = k /\ AbsVal(v) >= 10 * Half
<1>1. \A l \in Nat : InBinade(v, l) => l = k
  <2>1. ASSUME NEW l \in Nat, InBinade(v, l) PROVE l = k
    <3>1. AbsVal(v) <= AbsVal(v)
      BY AbsIs
    <3>2. l <= k /\ k <= l
      BY <2>1, <3>1, BinadeOrder
    <3> QED  BY <3>2
  <2> QED  BY <2>1
<1>2. AbsVal(v) >= 10 * Half
  BY LowIs, AbsIs, HalfIs DEF InBinade
<1> QED  BY <1>1, <1>2 DEF Scale

\* There are such distances.
LEMMA UlpExists == IsUlp(UlpOf)
<1>1. ASSUME NEW v \in Int
      PROVE  UlpOf[v] = IF AbsVal(v) < 10 * Half THEN 1
                        ELSE IF AbsVal(v) < 20 * Half THEN 10
                        ELSE 2 * UlpOf[AbsVal(v) \div 2]
  <2>0. AbsVal(v) \in Nat /\ One = 160 * Half /\ Half \in Nat /\ Low(0) = 10 * Half
    BY AbsIs, HalfIs
  <2>1. CASE AbsVal(v) < 10 * Half
    BY <2>1 DEF UlpOf
  <2>2. CASE ~(AbsVal(v) < 10 * Half) /\ AbsVal(v) < 20 * Half
    <3>1. InBinade(v, 0) /\ ~(AbsVal(v) < 10 * Half)
      BY <2>0, <2>2 DEF InBinade
    <3>2. Scale(v) = 0
      BY <3>1, ScaleIs
    <3>3. UlpOf[v] = 10
      BY <3>1, <3>2, Pow2Type DEF UlpOf
    <3> QED  BY <2>2, <3>3
  <2>3. CASE ~(AbsVal(v) < 20 * Half)
    <3>1. AbsVal(v) >= 2 * Low(0) /\ AbsVal(v) >= 10 * Half
      BY <2>0, <2>3
    <3>2. PICK k \in Nat : InBinade(v, k)
      BY <3>1, BinadeExists
    <3>3. k # 0
      BY <2>0, <3>1, <3>2 DEF InBinade
    <3>4. k - 1 \in Nat /\ (k - 1) + 1 = k
      BY <3>3
    <3> DEFINE h == AbsVal(v) \div 2
    <3>5. h \in Nat /\ h \in Int /\ InBinade(h, k - 1)
      BY <3>2, <3>4, BinadeHalved
    <3> HIDE DEF h
    <3>6. Scale(h) = k - 1 /\ AbsVal(h) >= 10 * Half /\ Scale(v) = k
      BY <3>2, <3>4, <3>5, ScaleIs
    <3>7. AbsVal(h) \in Nat
      BY <3>5, AbsIs
    <3>8. UlpOf[h] = 10 * Pow2[k - 1] /\ UlpOf[v] = 10 * Pow2[k]
      BY <2>0, <3>1, <3>5, <3>6, <3>7 DEF UlpOf
    <3>9. Pow2[k] = 2 * Pow2[k - 1] /\ Pow2[k - 1] \in Nat
      BY <3>4, Pow2Type
    <3>10. UlpOf[v] = 2 * UlpOf[h]
      BY <3>8, <3>9
    <3>11. ~(AbsVal(v) < 10 * Half)
      BY <2>0, <2>3
    <3> QED  BY <2>3, <3>10, <3>11 DEF h
  <2> QED  BY <2>1, <2>2, <2>3
<1>2. UlpOf = [v \in Int |-> UlpOf[v]]
  BY DEF UlpOf
<1> HIDE DEF UlpOf
<1> QED  BY <1>1, <1>2 DEF IsUlp

LEMMA UlpIsUlp == IsUlp(Ulp)
<1>1. Ulp = CHOOSE f : IsUlp(f)
  BY DEF Ulp, IsUlp
<1> QED  BY <1>1, UlpExists

LEMMA UlpStep ==
  ASSUME NEW v \in Int
  PROVE  Ulp[v] = IF AbsVal(v) < 10 * Half THEN 1
                  ELSE IF AbsVal(v) < 20 * Half THEN 10
                  ELSE 2 * Ulp[AbsVal(v) \div 2]
BY UlpIsUlp DEF IsUlp

(***************************************************************************)
(* The distance between floats is a power of two, by the binade.           *)
(***************************************************************************)
LEMMA UlpIs ==
  ASSUME NEW v \in Int
  PROVE  /\ AbsVal(v) < 10 * Half => Ulp[v] = 1
         /\ \A k \in Nat : InBinade(v, k) => Ulp[v] = 10 * Pow2[k]
<1> DEFINE B == {k \in Nat : \A w \in Int : InBinade(w, k) => Ulp[w] = 10 * Pow2[k]}
<1>0. /\ One = 160 * Half /\ Half \in Nat /\ Low(0) = 10 * Half
      /\ \A w \in Int : AbsVal(w) \in Nat
  BY AbsIs, HalfIs
<1>1. AbsVal(v) < 10 * Half => Ulp[v] = 1
  BY <1>0, UlpStep
<1>2. 0 \in B
  <2>1. ASSUME NEW w \in Int, InBinade(w, 0) PROVE Ulp[w] = 10 * Pow2[0]
    <3>1. ~(AbsVal(w) < 10 * Half) /\ AbsVal(w) < 20 * Half
      BY <1>0, <2>1 DEF InBinade
    <3> QED  BY <3>1, UlpStep, Pow2Type
  <2> QED  BY <2>1
<1>3. ASSUME NEW k \in Nat, k \in B PROVE k + 1 \in B
  <2>1. ASSUME NEW w \in Int, InBinade(w, k + 1)
        PROVE  Ulp[w] = 10 * Pow2[k + 1]
    <3>1. AbsVal(w) >= 2 * Low(k) /\ Low(k) >= 10 * Half /\ Low(k) \in Nat
      BY <2>1, LowIs DEF InBinade
    <3>2. ~(AbsVal(w) < 10 * Half) /\ ~(AbsVal(w) < 20 * Half)
      BY <1>0, <3>1
    <3>3. Ulp[w] = 2 * Ulp[AbsVal(w) \div 2]
      BY <3>2, UlpStep
    <3>4. Ulp[AbsVal(w) \div 2] = 10 * Pow2[k]
      BY <1>3, <2>1, BinadeHalved
    <3> QED  BY <3>3, <3>4, Pow2Type
  <2> QED  BY <2>1
<1>4. Nat \subseteq B
  <2> HIDE DEF B
  <2> QED  BY <1>2, <1>3, Induction
<1> QED  BY <1>1, <1>4

-----------------------------------------------------------------------------
(* Rounding                                                                *)

LEMMA Multiples ==
  ASSUME NEW a \in Int, NEW b \in Int, NEW u \in Nat \ {0}
  PROVE  /\ a * u \in Int /\ (a + 1) * u = a * u + u /\ (-a) * u = -(a * u)
         /\ a <= b => a * u <= b * u
         /\ a < b => a * u + u <= b * u
<1>1. ASSUME NEW c \in Int, NEW d \in Int, c <= d PROVE c * u <= d * u
  BY <1>1
<1>2. a * u \in Int /\ (a + 1) * u = a * u + u /\ (-a) * u = -(a * u)
  OBVIOUS
<1>3. ASSUME a < b PROVE a * u + u <= b * u
  <2>1. a + 1 \in Int /\ a + 1 <= b
    BY <1>3
  <2>2. (a + 1) * u <= b * u
    BY <1>1, <2>1
  <2> QED  BY <1>2, <2>2
<1> QED  BY <1>1, <1>2, <1>3

\* What the multiple of u is that is nearest to v.
LEMMA NearestIs ==
  ASSUME NEW v \in Int, NEW u \in Nat \ {0}
  PROVE  \E n \in Int :
           /\ n * u <= v /\ v < n * u + u
           /\ Nearest(v, u) =
                IF 2 * (v - n * u) < u \/ (2 * (v - n * u) = u /\ n % 2 = 0)
                THEN n * u ELSE n * u + u
<1> DEFINE n == v \div u
           r == v % u
<1>1. n \in Int /\ r \in 0 .. u - 1 /\ v = n * u + r
  OBVIOUS
<1>2. Nearest(v, u) = IF 2 * r < u \/ (2 * r = u /\ n % 2 = 0)
                      THEN n * u ELSE (n + 1) * u
  BY DEF Nearest
<1> HIDE DEF n, r
<1>3. r = v - n * u /\ (n + 1) * u = n * u + u /\ n * u \in Int
  BY <1>1, Multiples
<1>4. n * u <= v /\ v < n * u + u
  BY <1>1, <1>3
<1> QED  BY <1>1, <1>2, <1>3, <1>4

(***************************************************************************)
(* The nearest multiple is at most half a distance away, and on the same   *)
(* side of every other multiple.                                           *)
(***************************************************************************)
LEMMA NearestBetween ==
  ASSUME NEW v \in Int, NEW u \in Nat \ {0}
  PROVE  /\ \E m \in Int : Nearest(v, u) = m * u
         /\ Nearest(v, u) \in Int
         /\ 2 * (Nearest(v, u) - v) <= u /\ 2 * (v - Nearest(v, u)) <= u
         /\ \A a \in Int : a * u <= v => a * u <= Nearest(v, u)
         /\ \A a \in Int : v <= a * u => Nearest(v, u) <= a * u
<1>1. PICK n \in Int :
        /\ n * u <= v /\ v < n * u + u
        /\ Nearest(v, u) =
             IF 2 * (v - n * u) < u \/ (2 * (v - n * u) = u /\ n % 2 = 0)
             THEN n * u ELSE n * u + u
  BY NearestIs
<1> DEFINE N == Nearest(v, u)
           p == n * u
<1>2. p \in Int /\ (n + 1) * u = p + u /\ n + 1 \in Int
  BY Multiples
<1>3. /\ p <= v /\ v < p + u
      /\ N = p \/ N = p + u
      /\ N = p => 2 * (v - p) <= u
      /\ N = p + u => 2 * (v - p) >= u
  BY <1>1, <1>2
<1>4. \E m \in Int : N = m * u
  BY <1>2, <1>3
<1>5. ASSUME NEW a \in Int, a * u <= v PROVE a * u <= N
  <2>1. a * u \in Int /\ (n < a => p + u <= a * u) /\ (a <= n => a * u <= p)
    BY Multiples
  <2>2. a <= n
    BY <1>2, <1>3, <1>5, <2>1
  <2> QED  BY <1>2, <1>3, <2>1, <2>2
<1>6. ASSUME NEW a \in Int, v <= a * u PROVE N <= a * u
  <2>1. a * u \in Int /\ (a < n => a * u + u <= p) /\ (n < a => p + u <= a * u)
    BY Multiples
  <2>2. CASE a = n
    <3>1. v = p
      BY <1>2, <1>3, <1>6, <2>2
    <3>2. N # p + u
      BY <1>2, <1>3, <3>1
    <3> QED  BY <1>2, <1>3, <1>6, <2>2, <3>2
  <2>3. CASE n < a
    BY <1>2, <1>3, <2>1, <2>3
  <2>4. CASE a < n
    BY <1>2, <1>3, <1>6, <2>1, <2>4
  <2> QED  BY <2>2, <2>3, <2>4
<1>7. N \in Int /\ 2 * (N - v) <= u /\ 2 * (v - N) <= u
  BY <1>2, <1>3
<1> HIDE DEF N
<1> QED  BY <1>4, <1>5, <1>6, <1>7 DEF N

\* With one distance, the nearest multiples keep the order ...
LEMMA NearestMonotone ==
  ASSUME NEW v \in Int, NEW w \in Int, NEW u \in Nat \ {0}, v <= w
  PROVE  Nearest(v, u) <= Nearest(w, u)
<1>1. PICK n \in Int :
        /\ n * u <= v /\ v < n * u + u
        /\ Nearest(v, u) =
             IF 2 * (v - n * u) < u \/ (2 * (v - n * u) = u /\ n % 2 = 0)
             THEN n * u ELSE n * u + u
  BY NearestIs
<1>2. PICK m \in Int :
        /\ m * u <= w /\ w < m * u + u
        /\ Nearest(w, u) =
             IF 2 * (w - m * u) < u \/ (2 * (w - m * u) = u /\ m % 2 = 0)
             THEN m * u ELSE m * u + u
  BY NearestIs
<1>3. /\ n * u \in Int /\ m * u \in Int
      /\ (m < n => m * u + u <= n * u) /\ (n < m => n * u + u <= m * u)
  BY Multiples
<1>4. CASE n = m
  <2> DEFINE p == n * u
  <2>1. /\ p \in Int /\ p <= v /\ p <= w
        /\ Nearest(v, u) = IF 2 * (v - p) < u \/ (2 * (v - p) = u /\ n % 2 = 0)
                           THEN p ELSE p + u
        /\ Nearest(w, u) = IF 2 * (w - p) < u \/ (2 * (w - p) = u /\ n % 2 = 0)
                           THEN p ELSE p + u
    BY <1>1, <1>2, <1>3, <1>4
  <2> HIDE DEF p
  <2> QED  BY <2>1
<1>5. CASE n < m
  <2>1. Nearest(v, u) <= n * u + u /\ m * u <= Nearest(w, u)
    BY <1>1, <1>2, <1>3
  <2>2. Nearest(v, u) \in Int /\ Nearest(w, u) \in Int
    BY NearestBetween
  <2> QED  BY <1>3, <1>5, <2>1, <2>2
<1>6. CASE m < n
  BY <1>1, <1>2, <1>3, <1>6
<1> QED  BY <1>4, <1>5, <1>6

\* ... and are as far on the other side of zero.
LEMMA NearestSymmetric ==
  ASSUME NEW v \in Int, NEW u \in Nat \ {0}
  PROVE  Nearest(-v, u) = -Nearest(v, u)
<1>1. PICK n \in Int :
        /\ n * u <= v /\ v < n * u + u
        /\ Nearest(v, u) =
             IF 2 * (v - n * u) < u \/ (2 * (v - n * u) = u /\ n % 2 = 0)
             THEN n * u ELSE n * u + u
  BY NearestIs
<1>2. -v \in Int
  OBVIOUS
<1>3. PICK m \in Int :
        /\ m * u <= -v /\ -v < m * u + u
        /\ Nearest(-v, u) =
             IF 2 * (-v - m * u) < u \/ (2 * (-v - m * u) = u /\ m % 2 = 0)
             THEN m * u ELSE m * u + u
  BY <1>2, NearestIs
<1> DEFINE p == n * u
           k == -n
           l == -n - 1
<1>4. /\ p \in Int /\ m * u \in Int /\ k \in Int /\ l \in Int
      /\ k * u = -p /\ l * u = -p - u
  <2>1. k \in Int /\ l \in Int /\ l + 1 = k
    OBVIOUS
  <2>2. k * u = -p /\ p \in Int /\ m * u \in Int
    BY Multiples
  <2>3. (l + 1) * u = l * u + u /\ l * u \in Int
    BY <2>1, Multiples
  <2> HIDE DEF k, l, p
  <2> QED  BY <2>1, <2>2, <2>3
<1>5. m = k \/ m = l
  <2>1. ASSUME m > k PROVE FALSE
    <3>1. k * u + u <= m * u
      BY <1>4, <2>1, Multiples
    <3> QED  BY <1>1, <1>3, <1>4, <3>1
  <2>2. ASSUME m < l PROVE FALSE
    <3>1. m * u + u <= l * u
      BY <1>4, <2>2, Multiples
    <3> QED  BY <1>1, <1>3, <1>4, <3>1
  <2> QED  BY <2>1, <2>2
<1>6. (m = k => m % 2 = n % 2) /\ (m = l => (m % 2 = 0 <=> n % 2 # 0))
  OBVIOUS
<1> HIDE DEF k, l
<1>7. CASE m = k
  <2>1. v = p
    BY <1>1, <1>3, <1>4, <1>7
  <2>2. Nearest(v, u) = p /\ Nearest(-v, u) = -p
    BY <1>1, <1>3, <1>4, <1>7, <2>1
  <2> QED  BY <1>4, <2>2
<1>8. CASE m = l
  <2>1. -v - m * u = u - (v - p)
    BY <1>4, <1>8
  <2> DEFINE d == v - p
  <2>2. /\ d \in Int /\ p = v - d
        /\ Nearest(v, u) = IF 2 * d < u \/ (2 * d = u /\ n % 2 = 0) THEN p ELSE p + u
        /\ Nearest(-v, u) = IF 2 * (u - d) < u \/ (2 * (u - d) = u /\ n % 2 # 0)
                            THEN -p - u ELSE -p
    BY <1>1, <1>3, <1>4, <1>6, <1>8, <2>1
  <2> HIDE DEF d, p
  <2> QED  BY <1>4, <2>2
<1> QED  BY <1>5, <1>7, <1>8

-----------------------------------------------------------------------------
(* Floats                                                                  *)

LEMMA FloatIs ==
  ASSUME NEW v \in Int
  PROVE  /\ Ulp[v] \in Nat \ {0}
         /\ Float[v] = Nearest(v, Ulp[v])
         /\ Float[v] \in Int
         /\ 2 * (Float[v] - v) <= Ulp[v] /\ 2 * (v - Float[v]) <= Ulp[v]
<1>1. Ulp[v] \in Nat \ {0}
  <2>1. CASE AbsVal(v) < 10 * Half
    BY <2>1, UlpIs
  <2>2. CASE ~(AbsVal(v) < 10 * Half)
    <3>1. PICK k \in Nat : InBinade(v, k)
      BY <2>2, BinadeExists, AbsIs, HalfIs
    <3>2. Ulp[v] = 10 * Pow2[k] /\ Pow2[k] \in Nat /\ Pow2[k] >= 1
      BY <3>1, UlpIs, Pow2Ordered
    <3> QED  BY <3>2
  <2> QED  BY <2>1, <2>2
<1>2. Float[v] = Nearest(v, Ulp[v])
  BY DEF Float
<1> QED  BY <1>1, <1>2, NearestBetween

\* Small numbers are floats.
LEMMA FloatOfSmall ==
  ASSUME NEW v \in Int, AbsVal(v) < 10 * Half
  PROVE  Float[v] = v
<1>1. Float[v] = Nearest(v, 1)
  BY UlpIs, FloatIs
<1>2. v * 1 = v
  OBVIOUS
<1>3. 1 \in Nat \ {0}
  OBVIOUS
<1>4. /\ v * 1 <= v => v * 1 <= Nearest(v, 1)
      /\ v <= v * 1 => Nearest(v, 1) <= v * 1
  BY <1>3, NearestBetween, Zenon
<1>5. Nearest(v, 1) \in Int
  BY <1>3, NearestBetween, Zenon
<1> QED  BY <1>1, <1>2, <1>4, <1>5

\* The ends of a binade are floats: rounding does not leave it.
LEMMA FloatOfBinade ==
  ASSUME NEW v \in Int, v >= 0, NEW k \in Nat, InBinade(v, k)
  PROVE  /\ Low(k) <= Float[v] /\ Float[v] <= 2 * Low(k)
         /\ \E m \in Int : Float[v] = m * (10 * Pow2[k])
         /\ Ulp[v] = 10 * Pow2[k] /\ Low(k) <= v /\ v < 2 * Low(k)
<1> DEFINE u == 10 * Pow2[k]
<1>1. u \in Nat \ {0} /\ Ulp[v] = u
  BY Pow2Ordered, UlpIs
<1>2. Low(k) = Half * u /\ Half \in Nat /\ Low(k) \in Nat
  BY HalfIs, LowIs DEF Low
<1> HIDE DEF u
<1>3. Low(k) <= v /\ v < 2 * Low(k)
  BY AbsIs DEF InBinade
<1>4. 2 * Half \in Int /\ Half \in Int /\ (2 * Half) * u = 2 * Low(k)
  <2>1. (2 * Half) * u = 2 * (Half * u)
    BY <1>1, <1>2
  <2> QED  BY <1>2, <2>1
<1>5. Float[v] = Nearest(v, u)
  BY <1>1, FloatIs
<1>6. Half * u <= v => Half * u <= Nearest(v, u)
  BY <1>1, <1>4, NearestBetween
<1>7. v <= (2 * Half) * u => Nearest(v, u) <= (2 * Half) * u
  BY <1>1, <1>4, NearestBetween
<1>8. \E m \in Int : Nearest(v, u) = m * u
  BY <1>1, NearestBetween
<1>9. Low(k) <= Float[v] /\ Float[v] <= 2 * Low(k)
  BY <1>2, <1>3, <1>4, <1>5, <1>6, <1>7
<1> QED  BY <1>1, <1>3, <1>5, <1>8, <1>9 DEF u

LEMMA FloatSymmetric ==
  ASSUME NEW v \in Int
  PROVE  Ulp[-v] = Ulp[v] /\ Float[-v] = -Float[v]
<1>1. -v \in Int /\ AbsVal(-v) = AbsVal(v)
  BY AbsIs
<1>2. Ulp[-v] = Ulp[v]
  BY <1>1, UlpStep
<1> QED  BY <1>1, <1>2, FloatIs, NearestSymmetric

LEMMA FloatSign ==
  ASSUME NEW v \in Int
  PROVE  /\ v >= 0 => Float[v] >= 0
         /\ v <= 0 => Float[v] <= 0
         /\ v > 0 => Float[v] > 0
<1>1. 0 * Ulp[v] = 0 /\ 0 \in Int
  BY FloatIs
<1>2. Ulp[v] \in Nat \ {0}
  BY FloatIs
<1>3. /\ 0 * Ulp[v] <= v => 0 * Ulp[v] <= Nearest(v, Ulp[v])
      /\ v <= 0 * Ulp[v] => Nearest(v, Ulp[v]) <= 0 * Ulp[v]
  BY <1>1, <1>2, NearestBetween, Zenon
<1>4. ASSUME v > 0 PROVE Float[v] > 0
  <2>1. CASE AbsVal(v) < 10 * Half
    BY <1>4, <2>1, FloatOfSmall
  <2>2. CASE ~(AbsVal(v) < 10 * Half)
    <3>1. PICK k \in Nat : InBinade(v, k)
      BY <2>2, BinadeExists, AbsIs, HalfIs
    <3>2. Low(k) <= Float[v] /\ Low(k) \in Nat /\ Low(k) >= 10
      BY <1>4, <3>1, FloatOfBinade, LowIs
    <3> QED  BY <3>2, FloatIs
  <2> QED  BY <2>1, <2>2
<1> QED  BY <1>1, <1>3, <1>4, FloatIs

LEMMA FloatMonotoneFromZero ==
  ASSUME NEW v \in Int, NEW w \in Int, 0 <= v, v <= w
  PROVE  Float[v] <= Float[w]
<1>0. /\ AbsVal(v) = v /\ AbsVal(w) = w /\ Half \in Nat
      /\ Float[v] \in Int /\ Float[w] \in Int
  BY AbsIs, HalfIs, FloatIs
<1>1. CASE v < 10 * Half /\ w < 10 * Half
  BY <1>0, <1>1, FloatOfSmall
<1>2. CASE v < 10 * Half /\ ~(w < 10 * Half)
  <2>1. PICK l \in Nat : InBinade(w, l)
    BY <1>0, <1>2, BinadeExists
  <2>2. Low(l) <= Float[w] /\ Low(l) \in Nat /\ Low(l) >= 10 * Half
    <3>1. w >= 0
      OBVIOUS
    <3>2. Low(l) <= Float[w]
      BY <2>1, <3>1, FloatOfBinade
    <3> QED  BY <3>2, LowIs
  <2>3. Float[v] = v
    BY <1>0, <1>2, FloatOfSmall
  <2> QED  BY <1>0, <1>2, <2>2, <2>3
<1>3. CASE ~(v < 10 * Half)
  <2>1. PICK k \in Nat : InBinade(v, k)
    BY <1>0, <1>3, BinadeExists
  <2>2. PICK l \in Nat : InBinade(w, l)
    BY <1>0, <1>3, BinadeExists
  <2>3. k <= l
    BY <1>0, <2>1, <2>2, BinadeOrder
  <2>4. CASE k = l
    <3>1. Ulp[v] = Ulp[w]
      BY <2>1, <2>2, <2>4, UlpIs
    <3> QED  BY <3>1, FloatIs, NearestMonotone
  <2>5. CASE k < l
    <3>1. Float[v] <= 2 * Low(k) /\ Low(l) <= Float[w]
      BY <2>1, <2>2, FloatOfBinade
    <3>2. 2 * Low(k) <= Low(l) /\ Low(k) \in Nat /\ Low(l) \in Nat
      BY <2>5, LowIs
    <3> QED  BY <1>0, <3>1, <3>2
  <2> QED  BY <2>3, <2>4, <2>5
<1> QED  BY <1>0, <1>1, <1>2, <1>3

(***************************************************************************)
(* Rounding keeps the order of numbers.                                    *)
(***************************************************************************)
LEMMA FloatMonotone ==
  ASSUME NEW v \in Int, NEW w \in Int, v <= w
  PROVE  Float[v] <= Float[w]
<1>0. Float[v] \in Int /\ Float[w] \in Int
  BY FloatIs
<1>1. CASE 0 <= v
  BY <1>1, FloatMonotoneFromZero
<1>2. CASE v < 0 /\ 0 <= w
  BY <1>0, <1>2, FloatSign
<1>3. CASE v < 0 /\ w < 0
  <2>1. /\ -w \in Int /\ -v \in Int /\ 0 <= -w /\ -w <= -v
        /\ Float[-w] = -Float[w] /\ Float[-v] = -Float[v]
    BY <1>3, FloatSymmetric
  <2>2. Float[-w] <= Float[-v]
    BY <2>1, FloatMonotoneFromZero
  <2> QED  BY <1>0, <2>1, <2>2
<1> QED  BY <1>1, <1>2, <1>3

LEMMA FloatOfMultiple ==
  ASSUME NEW v \in Int, NEW m \in Int, v = m * Ulp[v]
  PROVE  Float[v] = v
<1>1. Ulp[v] \in Nat \ {0}
  BY FloatIs
<1>2. /\ m * Ulp[v] <= v => m * Ulp[v] <= Nearest(v, Ulp[v])
      /\ v <= m * Ulp[v] => Nearest(v, Ulp[v]) <= m * Ulp[v]
  BY <1>1, NearestBetween, Zenon
<1>3. \A a, b \in Int : (a <= b /\ b <= a => a = b) /\ a <= a
  OBVIOUS
<1>4. v <= Nearest(v, Ulp[v]) /\ Nearest(v, Ulp[v]) <= v
  BY <1>2, <1>3, Zenon
<1>5. Float[v] = Nearest(v, Ulp[v]) /\ Float[v] \in Int
  BY FloatIs, Zenon
<1> QED  BY <1>3, <1>4, <1>5, Zenon

(***************************************************************************)
(* What has been rounded once stays as it is.                              *)
(***************************************************************************)
LEMMA FloatIdempotent ==
  ASSUME NEW v \in Int
  PROVE  Float[Float[v]] = Float[v]
<1>1. ASSUME NEW w \in Int, w >= 0 PROVE Float[Float[w]] = Float[w]
  <2>0. /\ Float[w] \in Int /\ Float[w] >= 0 /\ AbsVal(w) = w
        /\ AbsVal(Float[w]) = Float[w] /\ Half \in Nat
    BY <1>1, FloatIs, FloatSign, AbsIs, HalfIs
  <2>1. CASE w < 10 * Half
    BY <2>0, <2>1, FloatOfSmall
  <2>2. CASE ~(w < 10 * Half)
    <3>1. PICK k \in Nat : InBinade(w, k)
      BY <2>0, <2>2, BinadeExists
    <3>2. PICK m \in Int : Float[w] = m * (10 * Pow2[k])
      BY <1>1, <3>1, FloatOfBinade
    <3>3. Low(k) <= Float[w] /\ Float[w] <= 2 * Low(k) /\ Low(k) \in Nat
      BY <1>1, <3>1, FloatOfBinade, LowIs
    <3>4. CASE Float[w] < 2 * Low(k)
      <4>1. InBinade(Float[w], k)
        BY <2>0, <3>3, <3>4 DEF InBinade
      <4>2. Ulp[Float[w]] = 10 * Pow2[k]
        BY <2>0, <4>1, UlpIs
      <4> QED  BY <2>0, <3>2, <4>2, FloatOfMultiple
    <3>5. CASE Float[w] = 2 * Low(k)
      <4>1. k + 1 \in Nat /\ Low(k + 1) = 2 * Low(k) /\ Low(k) >= 10
        BY LowIs
      <4>2. InBinade(Float[w], k + 1)
        BY <2>0, <3>3, <3>5, <4>1 DEF InBinade
      <4>3. Ulp[Float[w]] = 10 * Pow2[k + 1]
        BY <2>0, <4>1, <4>2, UlpIs
      <4>4. Float[w] = Half * Ulp[Float[w]]
        BY <3>5, <4>1, <4>3 DEF Low
      <4> QED  BY <2>0, <4>4, FloatOfMultiple
    <3> QED  BY <2>0, <3>3, <3>4, <3>5
  <2> QED  BY <2>1, <2>2
<1>2. CASE v >= 0
  BY <1>1, <1>2
<1>3. CASE v < 0
  <2>1. -v \in Int /\ -v >= 0 /\ Float[-v] = -Float[v] /\ Float[v] \in Int
    BY <1>3, FloatSymmetric, FloatIs
  <2>2. Float[Float[-v]] = Float[-v]
    BY <1>1, <2>1
  <2>3. Float[-Float[v]] = -Float[Float[v]] /\ Float[Float[v]] \in Int
    BY <2>1, FloatSymmetric, FloatIs
  <2> QED  BY <2>1, <2>2, <2>3
<1> QED  BY <1>2, <1>3

\* Greater numbers are farther apart.
LEMMA UlpMonotone ==
  ASSUME NEW v \in Int, NEW w \in Int, AbsVal(v) <= AbsVal(w)
  PROVE  Ulp[v] <= Ulp[w]
<1>0. AbsVal(v) \in Nat /\ AbsVal(w) \in Nat /\ Half \in Nat
  BY AbsIs, HalfIs
<1>1. CASE AbsVal(v) < 10 * Half
  BY <1>1, UlpIs, FloatIs
<1>2. CASE ~(AbsVal(v) < 10 * Half)
  <2>1. PICK k \in Nat : InBinade(v, k)
    BY <1>0, <1>2, BinadeExists
  <2>2. PICK l \in Nat : InBinade(w, l)
    BY <1>0, <1>2, BinadeExists
  <2>3. k <= l
    BY <2>1, <2>2, BinadeOrder
  <2>4. Pow2[k] <= Pow2[l] /\ Pow2[k] \in Nat /\ Pow2[l] \in Nat
    BY <2>3, Pow2Ordered
  <2>5. Ulp[v] = 10 * Pow2[k] /\ Ulp[w] = 10 * Pow2[l]
    BY <2>1, <2>2, UlpIs
  <2> QED  BY <2>4, <2>5
<1> QED  BY <1>1, <1>2

(***************************************************************************)
(* A float plus more than half of the distance to the next one is rounded  *)
(* to another float: the sum of svg_generator.c:385 and :408 moves on.     *)
(***************************************************************************)
LEMMA AdvanceMoves ==
  ASSUME NEW from \in Int, Float[from] = from,
         NEW by \in Int, 2 * by > Ulp[from]
  PROVE  Advance(from, by) > from
<1> DEFINE w == from + by
<1>0. /\ w \in Int /\ w > from /\ Float[w] \in Int
      /\ Ulp[from] \in Nat \ {0} /\ Ulp[w] \in Nat
      /\ by = w - from /\ Half \in Nat
  BY FloatIs, HalfIs
<1>d. Advance(from, by) = Float[w]
  BY DEF Advance
<1> HIDE DEF w
<1>1. Float[w] >= from
  BY <1>0, FloatMonotone
<1> SUFFICES ASSUME Float[w] = from PROVE FALSE
  BY <1>0, <1>1, <1>d
<1>2. Ulp[w] > Ulp[from]
  <2>1. 2 * (w - Float[w]) <= Ulp[w]
    BY <1>0, FloatIs
  <2> QED  BY <1>0, <2>1
<1>3. AbsVal(w) > AbsVal(from)
  BY <1>0, <1>2, UlpMonotone, AbsIs
<1>4. from >= 0 /\ AbsVal(from) = from /\ AbsVal(w) = w
  <2>1. CASE from < 0 /\ w <= 0
    BY <1>0, <1>3, <2>1, AbsIs
  <2>2. CASE from < 0 /\ w > 0
    BY <1>0, <2>2, FloatSign
  <2> QED  BY <1>0, <2>1, <2>2, AbsIs
<1>5. ~(w < 10 * Half)
  BY <1>0, <1>2, <1>4, UlpIs
<1>6. PICK k \in Nat : InBinade(w, k)
  BY <1>0, <1>4, <1>5, BinadeExists
<1>7. Low(k) <= Float[w] /\ w < 2 * Low(k) /\ Ulp[w] = 10 * Pow2[k]
      /\ Low(k) \in Nat
  <2>1. w >= 0
    BY <1>0, <1>4
  <2>2. Low(k) \in Nat
    BY LowIs
  <2>3. Low(k) <= Float[w] /\ w < 2 * Low(k) /\ Ulp[w] = 10 * Pow2[k]
    BY <1>0, <1>6, <2>1, FloatOfBinade, Zenon
  <2> QED  BY <2>2, <2>3
<1>8. InBinade(from, k)
  BY <1>0, <1>4, <1>7 DEF InBinade
<1>9. Ulp[from] = Ulp[w]
  BY <1>7, <1>8, UlpIs
<1> QED  BY <1>0, <1>2, <1>9

\* Half of a distance between floats is a float.
LEMMA FloatOfHalfUlp ==
  ASSUME NEW k \in Nat
  PROVE  Float[5 * Pow2[k]] = 5 * Pow2[k]
<1>0. Half \in Nat /\ Half >= 1 /\ Pow2[k] \in Nat /\ 5 * Pow2[k] \in Int
      /\ Pow2[k] >= 1 /\ AbsVal(5 * Pow2[k]) = 5 * Pow2[k]
  BY HalfIs, Pow2Ordered, AbsIs
<1>1. CASE 5 * Pow2[k] < 10 * Half
  BY <1>0, <1>1, FloatOfSmall
<1>2. CASE ~(5 * Pow2[k] < 10 * Half)
  <2>1. k # 0
    BY <1>0, <1>2, Pow2Type
  <2>2. k - 1 \in Nat /\ (k - 1) + 1 = k
    BY <2>1
  <2> DEFINE h == 5 * Pow2[k]
             n == k - 1
  <2>3. h = 10 * Pow2[n] /\ Pow2[n] \in Nat /\ Pow2[n] >= 1
    <3>1. Pow2[(k - 1) + 1] = 2 * Pow2[k - 1]
      BY <2>2, Pow2Type
    <3>2. Pow2[k] = 2 * Pow2[k - 1]
      BY <2>2, <3>1
    <3>3. Pow2[k - 1] \in Nat /\ Pow2[k - 1] >= 1
      BY <2>2, Pow2Ordered
    <3> QED  BY <3>2, <3>3
  <2>4. h \in Int /\ AbsVal(h) = h /\ ~(h < 10 * Half)
    BY <1>0, <1>2
  <2>5. n \in Nat
    BY <2>2
  <2> HIDE DEF h, n
  <2>6. PICK j \in Nat : InBinade(h, j)
    BY <1>0, <2>4, BinadeExists
  <2>7. Low(j) <= h /\ 10 * Pow2[j] <= Low(j) /\ Pow2[j] \in Nat
    <3>1. Low(j) <= h
      BY <2>4, <2>6 DEF InBinade
    <3>2. \A a \in Nat : a <= Half * a
      BY <1>0
    <3>3. 10 * Pow2[j] \in Nat /\ Pow2[j] \in Nat
      BY Pow2Ordered
    <3> QED  BY <3>1, <3>2, <3>3 DEF Low
  <2>8. Pow2[j] <= Pow2[n]
    <3>1. Low(j) \in Nat
      BY LowIs
    <3> QED  BY <2>3, <2>4, <2>7, <3>1
  <2>9. j <= n
    <3>1. n < j => 2 * Pow2[n] <= Pow2[j]
      BY <2>5, Pow2Ordered
    <3> QED  BY <2>3, <2>5, <2>7, <2>8, <3>1
  <2>10. PICK q \in Nat \ {0} : Pow2[n] = q * Pow2[j]
    BY <2>5, <2>9, Pow2Divides
  <2>11. Ulp[h] = 10 * Pow2[j]
    BY <2>4, <2>6, UlpIs
  <2>12. h = q * Ulp[h]
    <3>1. 10 * (q * Pow2[j]) = q * (10 * Pow2[j])
      BY <2>7
    <3> QED  BY <2>3, <2>10, <2>11, <3>1
  <2>13. Float[h] = h
    BY <2>4, <2>12, FloatOfMultiple
  <2> QED  BY <2>13 DEF h
<1> QED  BY <1>1, <1>2

(***************************************************************************)
(* A number whose float is more than half of a distance is so itself: the  *)
(* horizontal lines are spaced by a tenth that is a double.                *)
(***************************************************************************)
LEMMA MoreThanHalf ==
  ASSUME NEW v \in Int, NEW d \in Int, 2 * Float[d] > Ulp[v]
  PROVE  2 * d > Ulp[v]
<1>0. Ulp[v] \in Nat \ {0} /\ Float[d] \in Int
  BY FloatIs
<1> SUFFICES ASSUME 2 * d <= Ulp[v] PROVE FALSE
  BY <1>0
<1>1. CASE AbsVal(v) < 10 * Half
  <2>1. d <= 0
    BY <1>1, UlpIs
  <2> QED  BY <1>0, <2>1, FloatSign
<1>2. CASE ~(AbsVal(v) < 10 * Half)
  <2>1. PICK k \in Nat : InBinade(v, k)
    BY <1>2, BinadeExists, AbsIs, HalfIs
  <2>2. Ulp[v] = 10 * Pow2[k] /\ Pow2[k] \in Nat
    BY <2>1, UlpIs, Pow2Ordered
  <2>3. d <= 5 * Pow2[k] /\ 5 * Pow2[k] \in Int
    BY <2>2
  <2>4. Float[d] <= Float[5 * Pow2[k]]
    BY <2>3, FloatMonotone
  <2>5. Float[d] <= 5 * Pow2[k]
    BY <2>4, FloatOfHalfUlp
  <2> QED  BY <1>0, <2>2, <2>5
<1> QED  BY <1>1, <1>2

-----------------------------------------------------------------------------
(* Scales                                                                  *)

LEMMA HalfIsLarge == Half >= 1024
<1>1. Pow2[10] = 1024
  <2>1. /\ Pow2[0 + 1] = 2 /\ Pow2[1 + 1] = 4 /\ Pow2[2 + 1] = 8
    BY Pow2Type
  <2>2. /\ Pow2[3 + 1] = 16 /\ Pow2[4 + 1] = 32 /\ Pow2[5 + 1] = 64
    BY <2>1, Pow2Type
  <2>3. /\ Pow2[6 + 1] = 128 /\ Pow2[7 + 1] = 256 /\ Pow2[8 + 1] = 512
    BY <2>2, Pow2Type
  <2>4. Pow2[9 + 1] = 1024
    BY <2>3, Pow2Type
  <2> QED  BY <2>4
<1>2. 10 \in Nat /\ Precision - 1 \in Nat /\ 10 <= Precision - 1
  BY PlotAssumption
<1>3. Pow2[10] <= Pow2[Precision - 1]
  BY <1>2, Pow2Ordered
<1> QED  BY <1>1, <1>3, HalfIs DEF Half

LEMMA Pow2Sum ==
  ASSUME NEW m \in Nat, NEW n \in Nat
  PROVE  Pow2[m] * Pow2[n] = Pow2[m + n]
<1> DEFINE B == {k \in Nat : Pow2[m] * Pow2[k] = Pow2[m + k]}
<1>1. 0 \in B
  BY Pow2Type
<1>2. ASSUME NEW k \in Nat, k \in B PROVE k + 1 \in B
  <2>1. Pow2[m + (k + 1)] = 2 * Pow2[m + k] /\ Pow2[k + 1] = 2 * Pow2[k]
    <3>1. m + (k + 1) = (m + k) + 1 /\ m + k \in Nat
      OBVIOUS
    <3> QED  BY <3>1, Pow2Type
  <2>2. \A a, b \in Nat : a * (2 * b) = 2 * (a * b)
    OBVIOUS
  <2>3. Pow2[m] \in Nat /\ Pow2[k] \in Nat
    BY Pow2Type
  <2> QED  BY <1>2, <2>1, <2>2, <2>3
<1> HIDE DEF B
<1>3. n \in B
  BY <1>1, <1>2, Induction
<1> QED  BY <1>3 DEF B

\* A number with so few digits is a float.
LEMMA FloatOfDigits ==
  ASSUME NEW n \in Nat, n < 2 * Half, NEW e \in Nat
  PROVE  LET v == n * (10 * Pow2[e]) IN v \in Nat /\ Float[v] = v
<1> DEFINE u == 10 * Pow2[e]
           v == n * u
<1>1. u \in Nat \ {0} /\ Pow2[e] \in Nat
  BY Pow2Ordered
<1>2. v \in Nat /\ v < 2 * Low(e) /\ Half \in Nat /\ Low(e) \in Nat
  <2>1. Low(e) = Half * u /\ Half \in Nat /\ Low(e) \in Nat
    BY HalfIs, LowIs DEF Low
  <2> HIDE DEF u
  <2>2. n * u + u <= (2 * Half) * u /\ n * u \in Nat
    BY <1>1, <2>1, Multiples
  <2>3. (2 * Half) * u = 2 * (Half * u)
    BY <1>1, <2>1
  <2> QED  BY <1>1, <2>1, <2>2, <2>3
<1> HIDE DEF v
<1>3. CASE v < 10 * Half
  BY <1>2, <1>3, FloatOfSmall, AbsIs DEF v
<1>4. CASE ~(v < 10 * Half)
  <2>1. PICK k \in Nat : InBinade(v, k)
    BY <1>2, <1>4, BinadeExists, AbsIs
  <2>2. k <= e
    <3>1. ASSUME e < k PROVE FALSE
      <4>1. 2 * Low(e) <= Low(k) /\ Low(k) \in Nat
        BY <3>1, LowIs
      <4> QED  BY <1>2, <2>1, <4>1, AbsIs DEF InBinade
    <3> QED  BY <3>1
  <2>3. PICK q \in Nat \ {0} : Pow2[e] = q * Pow2[k]
    BY <2>2, Pow2Divides
  <2>4. Ulp[v] = 10 * Pow2[k] /\ Pow2[k] \in Nat
    BY <1>2, <2>1, UlpIs, Pow2Ordered
  <2>5. v = (n * q) * Ulp[v]
    <3>1. \A a \in Nat : n * (10 * (q * a)) = (n * q) * (10 * a)
      OBVIOUS
    <3> QED  BY <2>3, <2>4, <3>1 DEF v
  <2>6. Float[v] = v
    BY <1>2, <2>5, FloatOfMultiple
  <2> QED  BY <1>2, <2>6 DEF v
<1> QED  BY <1>3, <1>4

\* What a float is of its digits.
LEMMA DigitsAre ==
  ASSUME NEW v \in Nat, Float[v] = v
  PROVE  /\ Digits(v) \in Nat /\ Digits(v) * Ulp[v] = v
         /\ Digits(v) <= 10 * Half
<1> DEFINE u == Ulp[v]
<1>1. u \in Nat \ {0} /\ AbsVal(v) = v /\ Half \in Nat
  BY FloatIs, AbsIs, HalfIs
<1>2. PICK m \in Int : v = m * u
  <2>1. v \in Int /\ Float[v] = Nearest(v, u)
    BY FloatIs
  <2>2. \E m \in Int : Nearest(v, u) = m * u
    BY <1>1, <2>1, NearestBetween, Zenon
  <2> QED  BY <2>1, <2>2
<1>3. Digits(v) = v \div u
  BY <1>1 DEF Digits
<1> HIDE DEF u
<1>4. v \div u = m
  BY <1>1, <1>2
<1>5. m >= 0
  BY <1>1, <1>2
<1>6. m <= 10 * Half
  <2>1. CASE v < 10 * Half
    <3>1. m <= m * u
      BY <1>1, <1>5
    <3> QED  BY <1>1, <1>2, <2>1, <3>1
  <2>2. CASE ~(v < 10 * Half)
    <3>1. PICK k \in Nat : InBinade(v, k)
      BY <1>1, <2>2, BinadeExists
    <3>2. v < 2 * Low(k) /\ Low(k) = Half * u
      BY <1>1, <3>1, UlpIs DEF InBinade, Low, u
    <3>3. ASSUME 2 * Half < m PROVE FALSE
      <4>1. (2 * Half) * u <= m * u /\ (2 * Half) * u = 2 * (Half * u)
            /\ m * u \in Int /\ Half * u \in Int
        BY <1>1, <3>3, Multiples
      <4> QED  BY <1>2, <3>2, <4>1
    <3> QED  BY <1>1, <3>3
  <2> QED  BY <2>1, <2>2
<1> QED  BY <1>2, <1>3, <1>4, <1>5, <1>6 DEF u

LEMMA SpanIs ==
  ASSUME NEW range, range.min \in Int, range.max \in Int,
         range.min <= range.max
  PROVE  /\ Span(range) \in Nat
         /\ Span(range) = 0 <=> range.min = range.max
         /\ Tenth(range) \in Nat
<1>1. range.max - range.min \in Nat /\ range.max - range.min \in Int
  OBVIOUS
<1>2. Span(range) = Float[range.max - range.min]
  BY DEF Span
<1>3. range.min = range.max => Span(range) = 0
  BY <1>1, <1>2, FloatSign, FloatIs
<1>4. range.min # range.max => Span(range) > 0
  <2>1. range.min # range.max => range.max - range.min > 0
    OBVIOUS
  <2> QED  BY <1>1, <1>2, <2>1, FloatSign
<1>5. Span(range) \in Nat
  BY <1>1, <1>2, FloatSign, FloatIs
<1> QED  BY <1>3, <1>4, <1>5 DEF Tenth

\* The lengths that ranges are scaled to.
LEMMA PixelsAre ==
  ASSUME NEW pixels \in {InnerWidth, InnerHeight}
  PROVE  /\ pixels \in {900, 200} /\ pixels \in Nat
         /\ pixels <= Half /\ 2 * pixels + 1 < 2 * Half
<1>1. pixels \in {900, 200}
  BY DEF InnerWidth, InnerHeight, PLOT_WIDTH, PLOT_HEIGHT, Padding
<1> QED  BY <1>1, HalfIs, HalfIsLarge

\* The power of two under mx and my.
LEMMA ShiftIs ==
  ASSUME NEW a \in Nat, a <= 10 * Half, NEW pixels \in {InnerWidth, InnerHeight}
  PROVE  /\ \E j \in Nat : Shift(pixels)[a] = Pow2[j]
         /\ a <= pixels * Shift(pixels)[a]
<1> DEFINE S == {j \in 0..Precision : a <= pixels * Pow2[j]}
<1>0. pixels \in Nat /\ pixels >= 200
  BY PixelsAre
<1>1. Precision \in Nat /\ Half \in Nat /\ Pow2[Precision] = 2 * Half
  BY HalfIs, PlotAssumption
<1>2. Precision \in S
  <2>1. 200 * (2 * Half) <= pixels * (2 * Half)
    BY <1>0, <1>1
  <2>2. a <= pixels * Pow2[Precision]
    BY <1>0, <1>1, <2>1
  <2> QED  BY <1>1, <2>2
<1>3. PICK j \in S : \A i \in S : j <= i
  <2>1. S \subseteq Nat /\ S # {}
    BY <1>2
  <2> HIDE DEF S
  <2> QED  BY <2>1, LeastElement
<1>4. Min(S) = j
  <2>1. S \in SUBSET Int
    OBVIOUS
  <2> HIDE DEF S
  <2> QED  BY <1>3, <2>1, LeastIs
<1>5. Shift(pixels)[a] = Pow2[Min(S)]
  BY <1>0 DEF Shift
<1>6. j \in Nat /\ a <= pixels * Pow2[j]
  BY <1>3
<1> HIDE DEF S
<1> QED  BY <1>4, <1>5, <1>6

\* mx and my are at most half of their last digit too long.
LEMMA FactorIs ==
  ASSUME NEW a \in Nat \ {0}, a <= 10 * Half,
         NEW pixels \in {InnerWidth, InnerHeight}
  PROVE  LET m == Factor(pixels)[a]
             n == pixels * Shift(pixels)[a] * Half
         IN  m \in Nat /\ n \in Nat /\ 2 * (m * a) <= 2 * n + a
<1> DEFINE m == Factor(pixels)[a]
           n == pixels * Shift(pixels)[a] * Half
<1>1. pixels \in Nat /\ Half \in Nat /\ Shift(pixels)[a] \in Nat
  BY PixelsAre, HalfIs, ShiftIs, Pow2Type
<1>2. n \in Nat /\ n \in Int
  BY <1>1
<1>3. m = Nearest(n, a) \div a
  BY <1>1 DEF Factor
<1> HIDE DEF m, n
<1>4. PICK k \in Int : Nearest(n, a) = k * a
  BY <1>2, NearestBetween
<1>5. 2 * (k * a - n) <= a /\ k * a \in Int
  BY <1>2, <1>4, NearestBetween
<1>6. 0 <= k * a
  <2>1. 0 \in Int /\ 0 * a = 0
    BY Multiples
  <2>2. 0 * a <= n => 0 * a <= Nearest(n, a)
    BY <1>2, <2>1, NearestBetween, Zenon
  <2> QED  BY <1>2, <1>4, <2>1, <2>2
<1>7. k >= 0
  <2>1. ASSUME k < 0 PROVE FALSE
    <3>1. k * a + a <= 0 * a /\ 0 * a = 0
      BY <2>1, Multiples
    <3> QED  BY <1>5, <1>6, <3>1
  <2> QED  BY <2>1
<1>8. (k * a) \div a = k
  OBVIOUS
<1> QED  BY <1>2, <1>3, <1>4, <1>5, <1>7, <1>8 DEF m, n

LEMMA DivAtMost ==
  ASSUME NEW n \in Nat, NEW d \in Nat \ {0}, NEW x \in Nat, n <= x * d
  PROVE  n \div d \in 0..x
<1> DEFINE q == n \div d
<1>1. q \in Nat /\ q * d <= n
  OBVIOUS
<1> HIDE DEF q
<1>2. ASSUME x < q PROVE FALSE
  <2>1. x * d + d <= q * d /\ x * d \in Int /\ q * d \in Int
    BY <1>1, <1>2, Multiples
  <2> QED  BY <1>1, <2>1
<1> QED  BY <1>1, <1>2 DEF q

(***************************************************************************)
(* A float of at most Pow2[i] times the digits of the range is, times mx   *)
(* or my, not more than half a pixel beyond as many ranges: both roundings *)
(* stop at a number of pixels and a half, which is a float.                *)
(***************************************************************************)
LEMMA SizeWithin ==
  ASSUME NEW a \in Nat \ {0}, a <= 10 * Half, NEW b \in Nat, NEW i \in Nat,
         b <= a * Pow2[i], NEW pixels \in {InnerWidth, InnerHeight}
  PROVE  (16 * Float[10 * (b * Factor(pixels)[a])]) \div Shift(pixels)[a]
           \in 0 .. Pow2[i] * (80 * Half * (2 * pixels + 1))
<1>1. PICK j \in Nat : Shift(pixels)[a] = Pow2[j]
  BY ShiftIs
<1> DEFINE m == Factor(pixels)[a]
           h == Pow2[j]
           q == Pow2[i]
           w == 2 * pixels + 1
           P == q * (h * Half)
<1>2. /\ m \in Nat /\ h \in Nat \ {0} /\ q \in Nat \ {0} /\ Half \in Nat \ {0}
      /\ pixels \in Nat /\ pixels <= Half /\ w \in Nat /\ w < 2 * Half
  BY FactorIs, PixelsAre, Pow2Ordered, HalfIs
<1>3. a <= pixels * h
  BY <1>1, ShiftIs
<1>4. 2 * (m * a) <= 2 * (pixels * h * Half) + a
  BY <1>1, FactorIs
<1> HIDE DEF m
<1>5. 2 * (m * a) <= w * (h * Half)
  <2>1. pixels * h <= Half * h
    BY <1>2
  <2>2. Half * h = h * Half /\ h * Half \in Nat /\ pixels * h \in Nat
    BY <1>2
  <2>3. pixels * h * Half = pixels * (h * Half)
    BY <1>2
  <2> DEFINE g == h * Half
  <2>4. a <= g /\ g \in Nat /\ 2 * (m * a) <= 2 * (pixels * g) + a
    BY <1>3, <1>4, <2>1, <2>2, <2>3
  <2> HIDE DEF g, h
  <2>5. w * g = 2 * (pixels * g) + g /\ pixels * g \in Nat /\ m * a \in Nat
    BY <1>2, <2>4
  <2>6. 2 * (m * a) <= w * g
    <3> HIDE DEF w
    <3> QED  BY <2>4, <2>5
  <2> QED  BY <2>6 DEF g
<1>6. 2 * (b * m) <= w * P
  <2>1. b * m <= (a * q) * m
    <3>1. a * q \in Int
      BY <1>2
    <3> HIDE DEF q
    <3>2. \A c, d \in Int, e \in Nat : c <= d => c * e <= d * e
      OBVIOUS
    <3> QED  BY <1>2, <3>1, <3>2 DEF q
  <2>2. (a * q) * m = q * (m * a) /\ m * a \in Nat /\ b * m \in Nat
    BY <1>2
  <2> DEFINE c == m * a
             g == h * Half
  <2>3. c \in Nat /\ g \in Nat /\ 2 * c <= w * g /\ b * m <= q * c
    BY <1>2, <1>5, <2>1, <2>2
  <2> HIDE DEF c, g, q, w
  <2>4. q * (2 * c) <= q * (w * g) /\ w * g \in Nat
    BY <1>2, <2>3 DEF q
  <2>5. q * (2 * c) = 2 * (q * c) /\ q * (w * g) = w * (q * g)
        /\ q * c \in Nat /\ w * (q * g) \in Nat
    BY <1>2, <2>3 DEF q
  <2>6. 2 * (b * m) <= w * (q * g)
    BY <2>2, <2>3, <2>4, <2>5
  <2> QED  BY <2>6 DEF g
\* The bound is a float.
<1>7. PICK e \in Nat : P = 2 * Pow2[e]
  <2> DEFINE n == Precision - 1
             k == i + (j + n)
  <2>1. n \in Nat /\ n >= 1 /\ j + n \in Nat /\ k \in Nat /\ k - 1 \in Nat
        /\ (k - 1) + 1 = k
    BY PlotAssumption
  <2>2. P = Pow2[k]
    <3>1. Pow2[j] * Pow2[n] = Pow2[j + n]
      BY <2>1, Pow2Sum
    <3>2. Pow2[i] * Pow2[j + n] = Pow2[i + (j + n)]
      BY <2>1, Pow2Sum
    <3> QED  BY <3>1, <3>2 DEF Half
  <2> HIDE DEF P
  <2>3. Pow2[(k - 1) + 1] = 2 * Pow2[k - 1]
    BY <2>1, Pow2Type
  <2> QED  BY <2>1, <2>2, <2>3
<1> DEFINE B == w * (10 * Pow2[e])
           F == Float[10 * (b * m)]
<1>8. B \in Nat /\ Float[B] = B
  BY <1>2, FloatOfDigits
<1>9. B = 5 * (w * P) /\ w * P \in Nat
  <2>1. Pow2[e] \in Nat
    BY Pow2Type
  <2> HIDE DEF w, P
  <2> QED  BY <1>2, <1>7, <2>1
<1>10. F \in Nat /\ F <= B
  <2>1. b * m \in Nat
    BY <1>2
  <2>2. 10 * (b * m) \in Int /\ 10 * (b * m) >= 0 /\ 10 * (b * m) <= B
    <3> HIDE DEF B, w, P
    <3> QED  BY <1>6, <1>8, <1>9, <2>1
  <2> HIDE DEF B
  <2>3. Float[10 * (b * m)] <= Float[B]
    BY <1>8, <2>2, FloatMonotone
  <2> QED  BY <1>8, <2>2, <2>3, FloatIs, FloatSign
<1> DEFINE X == q * (80 * Half * w)
<1>11. X \in Nat /\ 16 * B = X * h
  <2>1. X \in Nat
    BY <1>2
  <2>2. 16 * B = 80 * (w * P)
    <3> HIDE DEF w, P, B
    <3> QED  BY <1>8, <1>9
  <2>3. w * P = (q * (Half * w)) * h
    <3> HIDE DEF w, q, h
    <3> QED  BY <1>2 DEF q, h
  <2>4. X = 80 * (q * (Half * w)) /\ q * (Half * w) \in Nat
    <3> HIDE DEF w
    <3> QED  BY <1>2
  <2> DEFINE y == q * (Half * w)
  <2>5. y \in Nat /\ X = 80 * y /\ w * P = y * h
    BY <2>3, <2>4
  <2> HIDE DEF X, y, B, h
  <2>6. (80 * y) * h = 80 * (y * h)
    BY <1>2, <2>5 DEF h
  <2> QED  BY <2>1, <2>2, <2>5, <2>6
<1> HIDE DEF F, B, X
<1>12. 16 * F \in Nat /\ 16 * F <= X * h
  BY <1>8, <1>10, <1>11
<1>13. (16 * F) \div h \in 0..X
  BY <1>2, <1>11, <1>12, DivAtMost
<1> QED  BY <1>1, <1>13 DEF F, X, m

(***************************************************************************)
(* A range of at least one is drawn as long as it should be, but for less  *)
(* than half a pixel.                                                      *)
(***************************************************************************)
LEMMA ProductWithin ==
  ASSUME NEW s \in Nat, Float[s] = s, One <= s,
         NEW f \in 0..s, Float[f] = f,
         NEW pixels \in {InnerWidth, InnerHeight}
  PROVE  Product(pixels)[s][f] \in 0 .. One * pixels + 80 * Half
<1> DEFINE a    == Digits(s)
           b    == Digits(f)
           u    == Ulp[s]
           w    == Ulp[f]
           size == (16 * Float[10 * (b * Factor(pixels)[a])]) \div Shift(pixels)[a]
           Y    == 80 * Half * (2 * pixels + 1)
<1>1. /\ Half \in Nat /\ Half >= 1 /\ One = 160 * Half /\ f \in Nat
      /\ AbsVal(s) = s /\ AbsVal(f) = f
  BY HalfIs, AbsIs
<1>2. PICK k \in Nat : InBinade(s, k)
  BY <1>1, BinadeExists
<1>3. /\ u = 10 * Pow2[k] /\ Pow2[k] \in Nat /\ Pow2[k] >= 1
      /\ w \in Nat \ {0} /\ w <= u
  <2>1. AbsVal(f) <= AbsVal(s)
    BY <1>1
  <2>2. w <= u
    BY <1>1, <2>1, UlpMonotone
  <2> QED  BY <1>1, <1>2, <2>2, UlpIs, FloatIs, Pow2Ordered
<1>4. /\ a \in Nat /\ a * u = s /\ a <= 10 * Half
      /\ b \in Nat /\ b * w = f
  BY <1>1, DigitsAre
\* The digits of the number are so many times those of the range, or fewer.
<1>5. PICK i \in Nat : b <= a * Pow2[i] /\ Pow2[i] <= u \div w
  <2>1. CASE f < 10 * Half
    <3>1. w = 1 /\ b = f
      <4>1. w = 1
        BY <1>1, <2>1, UlpIs
      <4> HIDE DEF b, w
      <4> QED  BY <1>4, <4>1
    <3>2. Pow2[3] = 8 /\ Pow2[4] = 16 /\ Pow2[0] = 1
      <4>1. /\ Pow2[0] = 1 /\ Pow2[0 + 1] = 2 * Pow2[0]
            /\ Pow2[1 + 1] = 2 * Pow2[1] /\ Pow2[2 + 1] = 2 * Pow2[2]
            /\ Pow2[3 + 1] = 2 * Pow2[3]
        BY Pow2Type
      <4> QED  BY <4>1
    <3>3. 4 <= k
      <4>1. ASSUME k < 4 PROVE FALSE
        <5>1. 2 * Low(k) <= Low(4) /\ Low(4) = Half * 160 /\ Low(k) \in Nat
          BY <3>2, <4>1, LowIs DEF Low
        <5> QED  BY <1>1, <1>2, <5>1 DEF InBinade
      <4> QED  BY <4>1
    <3>4. 16 <= Pow2[k]
      BY <3>2, <3>3, Pow2Ordered
    <3>5. Half <= a
      <4>1. Half * u <= s
        BY <1>1, <1>2, <1>3 DEF InBinade, Low
      <4> HIDE DEF a, u
      <4>2. u \in Nat \ {0}
        BY <1>3
      <4>3. ASSUME a < Half PROVE FALSE
        <5>1. a * u + u <= Half * u /\ a * u \in Int /\ Half * u \in Int
          BY <1>1, <1>4, <4>2, <4>3, Multiples
        <5> QED  BY <1>4, <4>1, <4>2, <5>1
      <4> QED  BY <1>1, <1>4, <4>3
    <3> HIDE DEF a, b, u, w
    <3>6. b <= a * 16
      BY <1>1, <1>4, <2>1, <3>1, <3>5
    <3>7. 16 <= u \div w
      BY <1>3, <3>1, <3>4
    <3>8. 4 \in Nat /\ b <= a * Pow2[4] /\ Pow2[4] <= u \div w
      BY <3>2, <3>6, <3>7
    <3> QED  BY <3>8
  <2>2. CASE ~(f < 10 * Half)
    <3>1. PICK l \in Nat : InBinade(f, l)
      BY <1>1, <2>2, BinadeExists
    <3>2. l <= k
      BY <1>1, <1>2, <3>1, BinadeOrder
    <3>3. w = 10 * Pow2[l] /\ Pow2[l] \in Nat /\ Pow2[l] >= 1
      BY <1>1, <3>1, UlpIs, Pow2Ordered
    <3>4. k - l \in Nat /\ l + (k - l) = k
      BY <3>2
    <3> DEFINE q == Pow2[k - l]
    <3>5. u = q * w /\ q \in Nat
      <4>1. Pow2[l] * q = Pow2[k] /\ q \in Nat
        BY <3>4, Pow2Sum, Pow2Type
      <4> HIDE DEF q, u, w
      <4>2. \A c, d \in Nat : 10 * (c * d) = d * (10 * c)
        OBVIOUS
      <4> QED  BY <1>3, <3>3, <4>1, <4>2
    <3> HIDE DEF a, b, u, w, q
    <3>6. u \div w = q
      BY <1>3, <3>5
    <3>7. b <= a * q
      <4>1. a * u = (a * q) * w /\ a * q \in Int
        BY <1>3, <1>4, <3>5
      <4>2. ASSUME a * q < b PROVE FALSE
        <5>1. (a * q) * w + w <= b * w /\ b * w \in Int /\ (a * q) * w \in Int
          BY <1>3, <1>4, <4>1, <4>2, Multiples
        <5> QED  BY <1>1, <1>3, <1>4, <4>1, <5>1
      <4> QED  BY <1>4, <4>1, <4>2
    <3>8. k - l \in Nat /\ b <= a * Pow2[k - l] /\ Pow2[k - l] <= u \div w
      BY <3>4, <3>5, <3>6, <3>7 DEF q
    <3> QED  BY <3>8
  <2> QED  BY <2>1, <2>2
<1>6. a # 0
  <2> HIDE DEF a, u
  <2> QED  BY <1>1, <1>3, <1>4 DEF u
<1>7. size \in 0 .. Pow2[i] * Y
  <2>1. a \in Nat \ {0}
    BY <1>4, <1>6
  <2> HIDE DEF a, b
  <2> QED  BY <1>4, <1>5, <2>1, SizeWithin
<1>8. Product(pixels)[s][f] = size \div (u \div w)
  <2>1. s \in Int /\ f \in Int /\ w <= u
    BY <1>1, <1>3
  <2> QED  BY <2>1 DEF Product
<1> HIDE DEF size, a, b
<1>9. /\ Y \in Nat /\ Pow2[i] \in Nat /\ u \div w \in Nat \ {0}
      /\ Pow2[i] <= u \div w
  <2>1. Y \in Nat /\ Pow2[i] \in Nat /\ Pow2[i] >= 1
    BY <1>1, PixelsAre, Pow2Ordered
  <2>2. u \div w \in Nat
    <3>1. u \in Nat
      BY <1>3
    <3> HIDE DEF u, w
    <3> QED  BY <1>3, <3>1
  <2> HIDE DEF u, w, Y
  <2> QED  BY <1>5, <2>1, <2>2
<1>10. Y = One * pixels + 80 * Half
  <2>1. pixels \in Nat
    BY PixelsAre
  <2> QED  BY <1>1, <2>1
<1> DEFINE r == u \div w
<1>11. size <= Y * r /\ size \in Nat
  <2>1. Pow2[i] * Y <= Y * r /\ Pow2[i] * Y \in Nat /\ Y * r \in Nat
    <3> DEFINE e == Pow2[i]
    <3>1. e \in Nat /\ r \in Nat /\ Y \in Nat /\ e <= r
      BY <1>9
    <3> HIDE DEF e, r, Y
    <3>2. e * Y <= r * Y /\ e * Y \in Nat /\ r * Y = Y * r /\ Y * r \in Nat
      BY <3>1
    <3> QED  BY <3>2 DEF e
  <2> HIDE DEF Y, r
  <2> QED  BY <1>7, <2>1
<1> HIDE DEF Y, r
<1>12. size \div r \in 0..Y
  BY <1>9, <1>11, DivAtMost DEF r
<1> QED  BY <1>8, <1>10, <1>12 DEF r

\* A range that has no length, or whose ends are different whole numbers.
Apart(range) ==
  /\ range.min \in Int /\ range.max \in Int
  /\ range.min = range.max \/ One <= range.max - range.min

LEMMA OneIs ==
  One \in Nat \ {0} /\ One = 10 * Pow2[Precision + 3] /\ Float[One] = One
<1>1. /\ Precision - 1 \in Nat /\ 4 \in Nat /\ Precision + 3 \in Nat
      /\ (Precision - 1) + 4 = Precision + 3
  BY PlotAssumption
<1>2. Pow2[4] = 16
  <2>1. /\ Pow2[0] = 1 /\ Pow2[0 + 1] = 2 * Pow2[0]
        /\ Pow2[1 + 1] = 2 * Pow2[1] /\ Pow2[2 + 1] = 2 * Pow2[2]
        /\ Pow2[3 + 1] = 2 * Pow2[3]
    BY Pow2Type
  <2> QED  BY <2>1
<1>3. Half * 16 = Pow2[Precision + 3]
  BY <1>1, <1>2, Pow2Sum DEF Half
<1>4. One = 10 * Pow2[Precision + 3] /\ One \in Nat \ {0}
  BY <1>3, HalfIs
<1>5. Float[1 * (10 * Pow2[Precision + 3])] = 1 * (10 * Pow2[Precision + 3])
  BY <1>1, HalfIs, FloatOfDigits
<1> QED  BY <1>4, <1>5

(***************************************************************************)
(* What lies in a range is drawn within the pixels it is scaled to, or     *)
(* less than one behind them.                                              *)
(***************************************************************************)
LEMMA CoordinateWithin ==
  ASSUME NEW range, Apart(range), range.min # range.max,
         NEW v \in range.min .. range.max,
         NEW pixels \in {InnerWidth, InnerHeight}
  PROVE  Coordinate(v, range, pixels) \in 0 .. One * pixels + 80 * Half
<1> DEFINE d == range.max - range.min
           s == Span(range)
           f == Float[v - range.min]
<1>1. /\ range.min \in Int /\ range.max \in Int /\ v \in Int
      /\ d \in Int /\ One <= d /\ v - range.min \in Int
      /\ 0 <= v - range.min /\ v - range.min <= d
  BY DEF Apart
<1>2. s = Float[d]
  BY DEF Span
<1> HIDE DEF d
<1>3. One <= s /\ s \in Nat
  <2>1. Float[One] <= Float[d]
    BY <1>1, OneIs, FloatMonotone
  <2>2. s \in Int
    BY <1>1, <1>2, FloatIs
  <2> HIDE DEF s
  <2> QED  BY <1>2, <2>1, <2>2, OneIs
<1>4. f \in 0..s
  <2>1. Float[v - range.min] <= Float[d]
    BY <1>1, FloatMonotone
  <2>2. Float[v - range.min] \in Nat
    BY <1>1, FloatIs, FloatSign
  <2> HIDE DEF s
  <2> QED  BY <1>2, <1>3, <2>1, <2>2
<1>5. Float[f] = f /\ Float[s] = s
  BY <1>1, <1>2, FloatIdempotent
<1>6. Coordinate(v, range, pixels) = Product(pixels)[s][f]
  <2>1. (f < 0) = FALSE /\ (s < 0) = FALSE
    <3> HIDE DEF f, s
    <3> QED  BY <1>3, <1>4
  <2> QED  BY <2>1 DEF Coordinate
<1> HIDE DEF s, f
<1> QED  BY <1>3, <1>4, <1>5, <1>6, ProductWithin

LEMMA PixelWithin ==
  ASSUME NEW c \in Int, NEW p \in Int, NEW q \in Int,
         One * p <= c, c < One * q + One
  PROVE  Pixel(c) \in p..q
<1> DEFINE n == c \div One
           r == c % One
<1>1. One \in Nat \ {0}
  BY OneIs
<1>2. n \in Int /\ r \in 0 .. One - 1 /\ c = One * n + r
  BY <1>1
<1>3. Pixel(c) = n
  BY DEF Pixel
<1> HIDE DEF n, r
<1>4. One * n = n * One /\ One * p = p * One /\ One * q = q * One
      /\ n * One \in Int /\ p * One \in Int /\ q * One \in Int
  BY <1>1, <1>2
<1>5. ASSUME n < p PROVE FALSE
  <2>1. n * One + One <= p * One
    BY <1>1, <1>2, <1>5, Multiples
  <2> QED  BY <1>1, <1>2, <1>4, <2>1
<1>6. ASSUME q < n PROVE FALSE
  <2>1. q * One + One <= n * One
    BY <1>1, <1>2, <1>6, Multiples
  <2> QED  BY <1>1, <1>2, <1>4, <2>1
<1> QED  BY <1>2, <1>3, <1>5, <1>6

LEMMA ScaledWithin ==
  ASSUME NEW range, Apart(range), range.min # range.max,
         NEW v \in range.min .. range.max,
         NEW pixels \in {InnerWidth, InnerHeight}
  PROVE  Scaled(v, range, pixels) \in 0..pixels
<1> DEFINE c == Coordinate(v, range, pixels)
<1>1. c \in 0 .. One * pixels + 80 * Half
  BY CoordinateWithin
<1>2. Span(range) # 0
  BY OneIs, SpanIs DEF Apart
<1>3. Scaled(v, range, pixels) = Pixel(c)
  BY <1>2 DEF Scaled
<1> HIDE DEF c
<1>4. /\ pixels \in Nat /\ One = 160 * Half /\ Half \in Nat /\ Half >= 1
      /\ One * pixels \in Int /\ One * 0 = 0
  BY HalfIs, PixelsAre
<1>5. c \in Int /\ One * 0 <= c /\ c < One * pixels + One
  BY <1>1, <1>4
<1> QED  BY <1>3, <1>4, <1>5, PixelWithin

\* Where the lines of the grids are drawn.
LEMMA LinesWithin ==
  ASSUME NEW range, Apart(range), range.min # range.max,
         NEW v \in range.min .. range.max
  PROVE  /\ Pixel(Float[Coordinate(v, range, InnerWidth) + One * Padding])
              \in 50..950
         /\ Pixel(Float[Float[One * PLOT_HEIGHT
                                - Coordinate(v, range, InnerHeight)]
                          - One * Padding])
              \in 49..250
<1>1. One = 160 * Half /\ Half \in Nat /\ Half >= 1024
  BY HalfIs, HalfIsLarge
\* Pixels and their halves are floats.
<1>2. ASSUME NEW n \in Nat, n < 2048
      PROVE  80 * Half * n \in Nat /\ Float[80 * Half * n] = 80 * Half * n
  <2>1. /\ Precision - 1 \in Nat /\ 3 \in Nat /\ Precision + 2 \in Nat
        /\ (Precision - 1) + 3 = Precision + 2
    BY PlotAssumption
  <2>2. Pow2[3] = 8
    <3>1. /\ Pow2[0] = 1 /\ Pow2[0 + 1] = 2 * Pow2[0]
          /\ Pow2[1 + 1] = 2 * Pow2[1] /\ Pow2[2 + 1] = 2 * Pow2[2]
      BY Pow2Type
    <3> QED  BY <3>1
  <2>3. Half * 8 = Pow2[Precision + 2]
    BY <2>1, <2>2, Pow2Sum DEF Half
  <2>4. n * (10 * Pow2[Precision + 2]) = 80 * Half * n
    BY <1>1, <2>3
  <2>5. n < 2 * Half
    BY <1>1, <1>2
  <2> QED  BY <2>1, <2>4, <2>5, FloatOfDigits
<1> DEFINE c == Coordinate(v, range, InnerWidth)
           e == Coordinate(v, range, InnerHeight)
<1>3. c \in 0 .. One * 900 + 80 * Half
  BY CoordinateWithin DEF InnerWidth, PLOT_WIDTH, Padding
<1>4. e \in 0 .. One * 200 + 80 * Half
  BY CoordinateWithin DEF InnerHeight, PLOT_HEIGHT, Padding
<1> HIDE DEF c, e
<1>5. Pixel(Float[c + One * 50]) \in 50..950
  <2>1. /\ Float[80 * Half * 100] = 80 * Half * 100
        /\ Float[80 * Half * 1901] = 80 * Half * 1901
    BY <1>2
  <2>2. c + One * 50 \in Int /\ 80 * Half * 100 <= c + One * 50
        /\ c + One * 50 <= 80 * Half * 1901
    BY <1>1, <1>3
  <2> DEFINE g == Float[c + One * 50]
  <2>3. /\ 80 * Half * 100 <= g /\ g <= 80 * Half * 1901 /\ g \in Int
    <3>1. 80 * Half * 100 \in Int /\ 80 * Half * 1901 \in Int
      BY <1>1
    <3> QED  BY <2>1, <2>2, <3>1, FloatMonotone, FloatIs
  <2> HIDE DEF g
  <2>4. One * 50 <= g /\ g < One * 950 + One
    BY <1>1, <2>3
  <2>5. Pixel(g) \in 50..950
    <3> DEFINE p == 50
               q == 950
    <3>1. p \in Int /\ q \in Int /\ One * p <= g /\ g < One * q + One
      BY <2>4
    <3> HIDE DEF p, q
    <3>2. Pixel(g) \in p..q
      BY <2>3, <3>1, PixelWithin
    <3> QED  BY <3>2 DEF p, q
  <2> QED  BY <2>5 DEF g
<1>6. Pixel(Float[Float[One * 300 - e] - One * 50]) \in 49..250
  <2>1. /\ Float[80 * Half * 199] = 80 * Half * 199
        /\ Float[80 * Half * 600] = 80 * Half * 600
        /\ Float[80 * Half * 99] = 80 * Half * 99
        /\ Float[80 * Half * 500] = 80 * Half * 500
    BY <1>2
  <2>2. One * 300 - e \in Int /\ 80 * Half * 199 <= One * 300 - e
        /\ One * 300 - e <= 80 * Half * 600
    BY <1>1, <1>4
  <2> DEFINE g == Float[One * 300 - e]
  <2>3. 80 * Half * 199 <= g /\ g <= 80 * Half * 600 /\ g \in Int
    <3>1. 80 * Half * 199 \in Int /\ 80 * Half * 600 \in Int
      BY <1>1
    <3> QED  BY <2>1, <2>2, <3>1, FloatMonotone, FloatIs
  <2> HIDE DEF g
  <2>4. g - One * 50 \in Int /\ 80 * Half * 99 <= g - One * 50
        /\ g - One * 50 <= 80 * Half * 500
    BY <1>1, <2>3
  <2> DEFINE h == Float[g - One * 50]
  <2>5. 80 * Half * 99 <= h /\ h <= 80 * Half * 500 /\ h \in Int
    <3>1. 80 * Half * 99 \in Int /\ 80 * Half * 500 \in Int
      BY <1>1
    <3> QED  BY <2>1, <2>4, <3>1, FloatMonotone, FloatIs
  <2> HIDE DEF h
  <2>6. One * 49 <= h /\ h < One * 250 + One
    BY <1>1, <2>5
  <2>7. Pixel(h) \in 49..250
    <3> DEFINE p == 49
               q == 250
    <3>1. p \in Int /\ q \in Int /\ One * p <= h /\ h < One * q + One
      BY <2>6
    <3> HIDE DEF p, q
    <3>2. Pixel(h) \in p..q
      BY <2>5, <3>1, PixelWithin
    <3> QED  BY <3>2 DEF p, q
  <2> QED  BY <2>7 DEF g, h
<1> QED
  BY <1>5, <1>6 DEF c, e, Padding, PLOT_HEIGHT

-----------------------------------------------------------------------------
(* Ranges                                                                  *)

IsFloat(v) == v \in Int /\ Float[v] = v

LEMMA RoundedIsFloat ==
  ASSUME NEW v \in Int
  PROVE  IsFloat(Float[v])
BY FloatIs, FloatIdempotent DEF IsFloat

LEMMA AdvanceIs ==
  ASSUME NEW from \in Int, NEW by \in Int
  PROVE  /\ IsFloat(Advance(from, by)) /\ Advance(from, by) \in Int
         /\ \A v \in Int : IsFloat(v) /\ v <= from + by => v <= Advance(from, by)
<1>1. from + by \in Int /\ Advance(from, by) = Float[from + by]
  BY DEF Advance
<1>2. ASSUME NEW v \in Int, IsFloat(v), v <= from + by
      PROVE  v <= Float[from + by]
  BY <1>1, <1>2, FloatMonotone DEF IsFloat
<1> QED  BY <1>1, <1>2, RoundedIsFloat, FloatIs

\* The lowest and the highest of finitely many numbers.
LEMMA Lowest ==
  ASSUME NEW N \in Nat, NEW y, \A n \in 0..N : y[n] \in Int
  PROVE  \E m \in 0..N : \A n \in 0..N : y[m] <= y[n]
<1> DEFINE B == {k \in Nat : k <= N => \E m \in 0..k : \A n \in 0..k : y[m] <= y[n]}
<1>1. 0 \in B
  OBVIOUS
<1>2. ASSUME NEW k \in Nat, k \in B PROVE k + 1 \in B
  <2> SUFFICES ASSUME k + 1 <= N
               PROVE  \E m \in 0 .. k + 1 : \A n \in 0 .. k + 1 : y[m] <= y[n]
    OBVIOUS
  <2>1. PICK m \in 0..k : \A n \in 0..k : y[m] <= y[n]
    BY <1>2
  <2>2. /\ m \in 0..N /\ k + 1 \in 0..N /\ m \in 0 .. k + 1
        /\ k + 1 \in 0 .. k + 1
        /\ \A n \in 0 .. k + 1 : n \in 0..N /\ (n \in 0..k \/ n = k + 1)
    OBVIOUS
  <2>3. y[m] \in Int /\ y[k + 1] \in Int
    BY <2>2
  <2>4. CASE y[m] <= y[k + 1]
    BY <2>1, <2>2, <2>4
  <2>5. CASE ~(y[m] <= y[k + 1])
    <3>1. \A n \in 0 .. k + 1 : y[k + 1] <= y[n]
      BY <2>1, <2>2, <2>3, <2>5
    <3> QED  BY <2>2, <3>1
  <2> QED  BY <2>4, <2>5
<1> HIDE DEF B
<1>3. N \in B
  BY <1>1, <1>2, Induction
<1> QED  BY <1>3 DEF B

LEMMA Highest ==
  ASSUME NEW N \in Nat, NEW y, \A n \in 0..N : y[n] \in Int
  PROVE  \E m \in 0..N : \A n \in 0..N : y[m] >= y[n]
<1> DEFINE z == [n \in 0..N |-> -y[n]]
<1>1. \A n \in 0..N : z[n] = -y[n] /\ z[n] \in Int
  OBVIOUS
<1> HIDE DEF z
<1>2. PICK m \in 0..N : \A n \in 0..N : z[m] <= z[n]
  BY <1>1, Lowest
<1>3. \A n \in 0..N : y[m] >= y[n]
  BY <1>1, <1>2
<1> QED  BY <1>3

\* max_min: the range's ends are data, and all data lie between them.
LEMMA MaxMinIs ==
  ASSUME NEW N \in Nat, NEW y, DOMAIN y = 0..N, \A n \in 0..N : IsFloat(y[n])
  PROVE  /\ IsFloat(MaxMin(y).min) /\ IsFloat(MaxMin(y).max)
         /\ \A n \in 0..N : y[n] \in MaxMin(y).min .. MaxMin(y).max
         /\ MaxMin(y).min <= MaxMin(y).max
         /\ \E m, n \in 0..N : MaxMin(y) = [min |-> y[m], max |-> y[n]]
<1> DEFINE values == {y[n] : n \in DOMAIN y}
<1>1. \A n \in 0..N : y[n] \in Int
  BY DEF IsFloat
<1>2. PICK low \in 0..N : \A n \in 0..N : y[low] <= y[n]
  BY <1>1, Lowest
<1>3. PICK high \in 0..N : \A n \in 0..N : y[high] >= y[n]
  BY <1>1, Highest
<1>4. values \in SUBSET Int /\ y[low] \in values /\ y[high] \in values
      /\ \A v \in values : y[low] <= v /\ y[high] >= v
  BY <1>1, <1>2, <1>3
<1>5. MaxMin(y) = [min |-> Min(values), max |-> Max(values)]
  BY DEF MaxMin
<1> HIDE DEF values
<1>6. Min(values) = y[low] /\ Max(values) = y[high]
  BY <1>4, GreatestIs, LeastIs
<1>7. MaxMin(y) = [min |-> y[low], max |-> y[high]]
  BY <1>5, <1>6
<1> QED  BY <1>1, <1>2, <1>3, <1>7

-----------------------------------------------------------------------------
(* Lines of a grid                                                         *)

\* Numbers are farther from zero than from their neighbours.
LEMMA UlpBelow ==
  ASSUME NEW v \in Nat \ {0}
  PROVE  Ulp[v] \in Nat /\ Ulp[v] <= v
<1>0. AbsVal(v) = v /\ Half \in Nat /\ Half >= 1 /\ v \in Int /\ Ulp[v] \in Nat
  BY AbsIs, HalfIs, FloatIs
<1>1. CASE v < 10 * Half
  BY <1>0, <1>1, UlpIs
<1>2. CASE ~(v < 10 * Half)
  <2>1. PICK k \in Nat : InBinade(v, k)
    BY <1>0, <1>2, BinadeExists
  <2> DEFINE u == 10 * Pow2[k]
  <2>2. Ulp[v] = u /\ u \in Nat /\ Half * u <= v
    BY <1>0, <2>1, UlpIs, Pow2Ordered DEF InBinade, Low
  <2> HIDE DEF u
  <2>3. u <= Half * u
    BY <1>0, <2>2
  <2> QED  BY <1>0, <2>2, <2>3
<1> QED  BY <1>1, <1>2

\* A tenth of a range that is empty or upside down is not more than the range.
LEMMA TenthBackwards ==
  ASSUME NEW d \in Nat \ {0}
  PROVE  Float[Float[-d] \div 10] >= -d
<1> DEFINE f == Float[d]
           c == -((-f) \div 10)
<1>1. /\ f \in Nat \ {0} /\ Float[-d] = -f
      /\ 2 * f <= 3 * d /\ (d = 1 => f = 1)
  <2>1. Float[-d] = -f /\ f \in Int /\ f > 0 /\ 2 * (f - d) <= Ulp[d]
    BY FloatSymmetric, FloatIs, FloatSign
  <2>2. Ulp[d] \in Nat /\ Ulp[d] <= d
    BY UlpBelow
  <2>3. d = 1 => f = 1
    BY FloatOfSmall, AbsIs, HalfIs
  <2> QED  BY <2>1, <2>2, <2>3
<1> HIDE DEF f
<1>2. c \in Nat \ {0} /\ 10 * c <= f + 9 /\ -c = (-f) \div 10
  BY <1>1
<1> HIDE DEF c
<1>3. 2 * (Float[c] - c) <= Ulp[c] /\ Float[c] \in Int /\ Float[-c] = -Float[c]
  BY <1>2, FloatIs, FloatSymmetric
<1>4. Ulp[c] \in Nat /\ Ulp[c] <= c
  BY <1>2, UlpBelow
<1>5. Float[c] <= d
  <2>1. CASE d = 1
    <3>1. c = 1
      BY <1>1, <1>2, <2>1
    <3> QED  BY <1>3, <1>4, <2>1, <3>1
  <2>2. CASE d >= 2
    BY <1>1, <1>2, <1>3, <1>4, <2>2
  <2> QED  BY <2>1, <2>2
<1> QED  BY <1>1, <1>2, <1>3, <1>5

(***************************************************************************)
(* The first line of a grid is not before the range; if the range is       *)
(* upside down, it is already behind it, and no line is drawn.             *)
(***************************************************************************)
LEMMA FirstLine ==
  ASSUME NEW range, IsFloat(range.min), IsFloat(range.max)
  PROVE  LET first == Advance(range.min, Float[Tenth(range)])
         IN  /\ IsFloat(first)
             /\ range.min <= first \/ range.max <= first
             /\ range.min <= range.max => range.min <= first
<1> DEFINE by == Float[Tenth(range)]
<1>1. range.min \in Int /\ range.max \in Int
  BY DEF IsFloat
<1>2. Tenth(range) \in Int /\ by \in Int
  <2>1. range.max - range.min \in Int
    BY <1>1
  <2>2. Float[range.max - range.min] \in Int
    BY <2>1, FloatIs
  <2>3. Tenth(range) \in Int
    BY <2>2 DEF Tenth, Span
  <2> QED  BY <2>3, FloatIs
<1>3. CASE range.min <= range.max
  <2>1. Tenth(range) >= 0
    BY <1>1, <1>3, SpanIs
  <2>2. by >= 0
    BY <1>2, <2>1, FloatSign
  <2> HIDE DEF by
  <2>3. range.min <= range.min + by
    BY <1>1, <1>2, <2>2
  <2> QED  BY <1>1, <1>2, <2>3, AdvanceIs DEF by
<1>4. CASE ~(range.min <= range.max)
  <2> DEFINE d == range.min - range.max
  <2>1. d \in Nat \ {0} /\ range.max - range.min = -d
    BY <1>1, <1>4
  <2>2. by = Float[Float[-d] \div 10]
    BY <2>1 DEF Tenth, Span
  <2> HIDE DEF by
  <2>3. by >= -d
    BY <2>1, <2>2, TenthBackwards
  <2>4. range.max <= range.min + by
    BY <1>1, <1>2, <2>3
  <2> QED  BY <1>1, <1>2, <1>4, <2>4, AdvanceIs DEF by
<1> QED  BY <1>3, <1>4

(***************************************************************************)
(* Every further line is in the range or behind it; and if a tenth is more *)
(* than half of the distance between floats, it is another line, whether   *)
(* the tenth is a float or a double.                                       *)
(***************************************************************************)
LEMMA NextLine ==
  ASSUME NEW range, range.min \in Int, range.max \in Int, IsFloat(range.min),
         NEW from, IsFloat(from), range.min <= from, from < range.max,
         NEW by \in {Tenth(range), Float[Tenth(range)]}
  PROVE  /\ IsFloat(Advance(from, by)) /\ range.min <= Advance(from, by)
         /\ 2 * Float[Tenth(range)] > Max({Ulp[range.min], Ulp[range.max]})
              => Advance(from, by) > from
<1>1. from \in Int /\ Float[from] = from
  BY DEF IsFloat
<1>2. range.min <= range.max
  BY <1>1
<1>3. Tenth(range) \in Nat
  BY <1>2, SpanIs
<1>4. Float[Tenth(range)] \in Nat
  BY <1>3, FloatIs, FloatSign
<1>5. by \in Nat
  BY <1>3, <1>4
<1>6. IsFloat(Advance(from, by)) /\ range.min <= Advance(from, by)
  <2>1. range.min <= from + by /\ from \in Int /\ by \in Int
    BY <1>1, <1>5
  <2>2. /\ IsFloat(Advance(from, by))
        /\ \A v \in Int : IsFloat(v) /\ v <= from + by => v <= Advance(from, by)
    BY <2>1, AdvanceIs
  <2> QED  BY <2>1, <2>2
<1>7. ASSUME 2 * Float[Tenth(range)] > Max({Ulp[range.min], Ulp[range.max]})
      PROVE  Advance(from, by) > from
  <2> DEFINE low  == Ulp[range.min]
             high == Ulp[range.max]
             ends == {low, high}
  <2>1. low \in Nat /\ high \in Nat /\ Ulp[from] \in Nat
    BY <1>1, FloatIs
  <2>2. Ulp[from] <= low \/ Ulp[from] <= high
    <3>1. \/ AbsVal(from) <= AbsVal(range.min)
          \/ AbsVal(from) <= AbsVal(range.max)
      BY <1>1 DEF AbsVal
    <3> QED  BY <1>1, <3>1, UlpMonotone
  <2>3. Max(ends) \in Nat /\ Max(ends) >= low /\ Max(ends) >= high
    <3> HIDE DEF low, high
    <3>1. CASE low <= high
      <4>1. ends \in SUBSET Int /\ high \in ends /\ \A x \in ends : high >= x
        BY <2>1, <3>1
      <4> HIDE DEF ends
      <4>2. Max(ends) = high
        BY <4>1, GreatestIs
      <4> QED  BY <2>1, <3>1, <4>2
    <3>2. CASE ~(low <= high)
      <4>1. ends \in SUBSET Int /\ low \in ends /\ \A x \in ends : low >= x
        BY <2>1, <3>2
      <4> HIDE DEF ends
      <4>2. Max(ends) = low
        BY <4>1, GreatestIs
      <4> QED  BY <2>1, <3>2, <4>2
    <3> QED  BY <3>1, <3>2
  <2>4. 2 * Float[Tenth(range)] > Max(ends)
    BY <1>7
  <2> HIDE DEF low, high, ends
  <2>5. 2 * Float[Tenth(range)] > Ulp[from]
    BY <1>4, <2>1, <2>2, <2>3, <2>4
  <2>6. 2 * by > Ulp[from]
    <3>1. CASE by = Float[Tenth(range)]
      BY <2>5, <3>1
    <3>2. CASE by = Tenth(range)
      <4>1. 2 * Tenth(range) > Ulp[from]
        BY <1>1, <1>3, <2>5, MoreThanHalf
      <4> QED  BY <3>2, <4>1
    <3> QED  BY <3>1, <3>2
  <2> QED  BY <1>1, <1>5, <2>6, AdvanceMoves
<1> QED  BY <1>6, <1>7

\* A float has at least Half distances in it, but for the smallest.
LEMMA UlpOfHalf ==
  ASSUME NEW v \in Int
  PROVE  Ulp[v] \in Nat \ {0} /\ (Ulp[v] = 1 \/ Half * Ulp[v] <= AbsVal(v))
<1>0. Half \in Nat /\ AbsVal(v) \in Nat
  BY HalfIs, AbsIs
<1>1. CASE AbsVal(v) < 10 * Half
  BY <1>1, UlpIs, FloatIs
<1>2. CASE ~(AbsVal(v) < 10 * Half)
  <2>1. PICK k \in Nat : InBinade(v, k)
    BY <1>0, <1>2, BinadeExists
  <2>2. Ulp[v] = 10 * Pow2[k] /\ Low(k) <= AbsVal(v)
    BY <2>1, UlpIs DEF InBinade
  <2> QED  BY <2>2, FloatIs DEF Low
<1> QED  BY <1>1, <1>2

\* Half in terms of the power that bounds what a grid is fine enough for.
LEMMA HalfOfWide ==
  Pow2[Precision - 4] \in Nat \ {0} /\ Half = 8 * Pow2[Precision - 4]
<1> DEFINE n == Precision - 4
<1>1. /\ n \in Nat /\ n + 1 \in Nat /\ n + 2 \in Nat
      /\ (n + 1) + 1 = n + 2 /\ (n + 2) + 1 = Precision - 1
  BY PlotAssumption
<1> HIDE DEF n
<1>2. /\ Pow2[n + 1] = 2 * Pow2[n]
      /\ Pow2[n + 2] = 2 * Pow2[n + 1]
      /\ Pow2[Precision - 1] = 2 * Pow2[n + 2]
  BY <1>1, Pow2Type
<1>3. Pow2[n] \in Nat /\ Pow2[n] >= 1
  BY <1>1, Pow2Ordered
<1> QED  BY <1>2, <1>3 DEF Half, n

(***************************************************************************)
(* Where the grids of svg_generator.c:385 and :408 are fine enough: if the *)
(* ends of a range, which are whole numbers or at least one apart, are not *)
(* farther from 0 than Pow2[Precision - 4] times its width.  For positions *)
(* in floats of 24 digits: below 2^20 steps, however little they vary.     *)
(***************************************************************************)
LEMMA FineIfWide ==
  ASSUME NEW range, range.min \in Int, range.max \in Int,
         NEW d \in Int, d = range.max - range.min, d >= One,
         AbsVal(range.min) <= Pow2[Precision - 4] * d,
         AbsVal(range.max) <= Pow2[Precision - 4] * d
  PROVE  2 * Float[Tenth(range)] > Max({Ulp[range.min], Ulp[range.max]})
<1> DEFINE q == Pow2[Precision - 4]
           F == Float[d]
           T == F \div 10
           ends == {Ulp[range.min], Ulp[range.max]}
<1>1. q \in Nat \ {0} /\ Half = 8 * q /\ Half >= 8 /\ One = 160 * Half
  BY HalfOfWide, HalfIs
<1>2. d >= 1280 /\ d \in Nat
  BY <1>1
<1>3. Tenth(range) = T
  BY DEF Tenth, Span
<1> HIDE DEF q
\* An eighth of the width is at least the distance at each end,
<1>4. ASSUME NEW w \in Int, AbsVal(w) <= q * d PROVE 8 * Ulp[w] <= d
  <2>1. Ulp[w] \in Nat \ {0} /\ (Ulp[w] = 1 \/ Half * Ulp[w] <= AbsVal(w))
    BY UlpOfHalf
  <2>2. CASE Ulp[w] = 1
    BY <1>2, <2>2
  <2>3. CASE Half * Ulp[w] <= AbsVal(w)
    <3> DEFINE u == 8 * Ulp[w]
    <3>1. u \in Nat /\ Half * Ulp[w] = u * q /\ u * q \in Int
      BY <1>1, <2>1
    <3> HIDE DEF u
    <3>2. u * q <= d * q
      <4>1. d * q = q * d /\ q * d \in Int /\ AbsVal(w) \in Int
        BY <1>1, AbsIs
      <4>2. u * q <= AbsVal(w)
        BY <2>3, <3>1
      <4> QED  BY <1>4, <3>1, <4>1, <4>2
    <3>3. ASSUME d < u PROVE FALSE
      <4>1. d * q + q <= u * q /\ d * q \in Int /\ u * q \in Int
        BY <1>1, <3>1, <3>3, Multiples
      <4> QED  BY <1>1, <3>2, <4>1
    <3>4. u <= d
      BY <3>1, <3>3
    <3> QED  BY <3>4 DEF u
  <2> QED  BY <2>1, <2>2, <2>3
\* and rounding loses at most a sixteenth of a number.
<1>5. ASSUME NEW v \in Nat, v >= 8
      PROVE  Float[v] \in Int /\ 16 * Float[v] >= 15 * v
  <2>1. /\ Float[v] \in Int /\ 2 * (v - Float[v]) <= Ulp[v]
        /\ Ulp[v] \in Nat \ {0} /\ (Ulp[v] = 1 \/ Half * Ulp[v] <= v)
    BY FloatIs, UlpOfHalf, AbsIs
  <2>2. 8 * Ulp[v] <= v
    <3>1. CASE Half * Ulp[v] <= v
      <4>1. 8 * Ulp[v] <= Half * Ulp[v]
        BY <1>1, <2>1
      <4> QED  BY <1>1, <2>1, <3>1, <4>1
    <3> QED  BY <1>5, <2>1, <3>1
  <2> QED  BY <2>1, <2>2
<1>6. F \in Int /\ 16 * F >= 15 * d
  BY <1>2, <1>5
<1> HIDE DEF F
<1>7. T \in Int /\ 10 * T >= F - 9 /\ T >= 8
  BY <1>2, <1>6
<1> HIDE DEF T
<1>8. Float[T] \in Int /\ 16 * Float[T] >= 15 * T
  BY <1>5, <1>7
<1>9. 16 * Float[T] > d
  BY <1>2, <1>6, <1>7, <1>8
<1>10. /\ 8 * Ulp[range.min] <= d /\ Ulp[range.min] \in Nat
       /\ 8 * Ulp[range.max] <= d /\ Ulp[range.max] \in Nat
  BY <1>4, UlpOfHalf DEF q
<1>11. Max(ends) \in Int /\ 8 * Max(ends) <= d
  <2> DEFINE low  == Ulp[range.min]
             high == Ulp[range.max]
  <2>1. low \in Int /\ high \in Int /\ ends = {low, high}
    BY <1>10
  <2>2. CASE low <= high
    <3>1. ends \in SUBSET Int /\ high \in ends /\ \A x \in ends : high >= x
      BY <2>1, <2>2
    <3> HIDE DEF ends, low
    <3>2. Max(ends) = high
      BY <3>1, GreatestIs
    <3> QED  BY <1>10, <3>2
  <2>3. CASE ~(low <= high)
    <3>1. ends \in SUBSET Int /\ low \in ends /\ \A x \in ends : low >= x
      BY <2>1, <2>3
    <3> HIDE DEF ends, high
    <3>2. Max(ends) = low
      BY <3>1, GreatestIs
    <3> QED  BY <1>10, <3>2
  <2> QED  BY <2>2, <2>3
<1> HIDE DEF ends
<1>12. 2 * Float[T] > Max(ends)
  BY <1>8, <1>9, <1>11
<1> QED  BY <1>3, <1>12 DEF ends

(***************************************************************************)
(* And where they are not: between 2^21 and 2^22 steps, in floats of 24    *)
(* digits, a position that varies by one has a grid whose line never       *)
(* moves, neither by the float nor by the double that is a tenth of the    *)
(* height, and the loop of svg_generator.c:408 never ends.                 *)
(***************************************************************************)
THEOREM LineStuck ==
  ASSUME NEW a \in Nat,
         2 * Pow2[Precision - 4] <= a, a + 1 <= 4 * Pow2[Precision - 4],
         NEW range, range = [min |-> One * a, max |-> One * (a + 1)],
         NEW by \in {Tenth(range), Float[Tenth(range)]}
  PROVE  Advance(range.min, by) = range.min /\ range.min < range.max
<1> DEFINE q == Pow2[Precision - 4]
           u == 320 * q
           k == Precision + 1
<1>1. q \in Nat \ {0} /\ Half = 8 * q /\ One = 1280 * q
  BY HalfOfWide, HalfIs
<1>2. Pow2[k] = 32 * q /\ k \in Nat /\ Low(k) = (8 * q) * u
  <2>1. Pow2[Precision] = 2 * Half /\ Pow2[k] = 2 * Pow2[Precision] /\ k \in Nat
    BY HalfIs, Pow2Type, PlotAssumption
  <2> QED  BY <1>1, <2>1 DEF Low
<1>3. One = 4 * u /\ u \in Nat \ {0} /\ One \in Nat
  BY <1>1
<1> HIDE DEF q, k
\* The tenth is 128 * q, and its float that to half a distance there.
<1>4. Tenth(range) = 128 * q
  <2>0. Pow2[4] = 16
    <3>1. /\ Pow2[0] = 1 /\ Pow2[0 + 1] = 2 * Pow2[0]
          /\ Pow2[1 + 1] = 2 * Pow2[1] /\ Pow2[2 + 1] = 2 * Pow2[2]
          /\ Pow2[3 + 1] = 2 * Pow2[3]
      BY Pow2Type
    <3> QED  BY <3>1
  <2>1. range.max - range.min = One
    <3>1. One * (a + 1) = One * a + One /\ One * a \in Int
      BY <1>3
    <3> QED  BY <1>3, <3>1
  <2>2. Float[One] = One
    <3>1. InBinade(One, 4)
      <4>1. Low(4) = 1280 * q
        BY <1>1, <2>0 DEF Low
      <4> QED  BY <1>1, <4>1, AbsIs DEF InBinade
    <3>2. Ulp[One] = 160
      BY <1>3, <2>0, <3>1, UlpIs
    <3>3. One = (8 * q) * Ulp[One] /\ 8 * q \in Int
      BY <1>1, <3>2
    <3> QED  BY <1>3, <3>3, FloatOfMultiple
  <2>3. Tenth(range) = One \div 10
    BY <2>1, <2>2 DEF Tenth, Span
  <2> QED  BY <1>1, <2>3
<1>5. by \in Nat /\ 2 * by < u /\ by < One
  <2>1. 128 * q \in Int /\ AbsVal(128 * q) = 128 * q
    BY <1>1, AbsIs
  <2>2. InBinade(128 * q, 0)
    <3>1. Low(0) = 80 * q
      BY <1>1, HalfIs
    <3> QED  BY <1>1, <2>1, <3>1 DEF InBinade
  <2>3. Ulp[128 * q] = 10
    <3>1. 0 \in Nat /\ \A j \in Nat : InBinade(128 * q, j) => Ulp[128 * q] = 10 * Pow2[j]
      BY <2>1, UlpIs
    <3>2. Ulp[128 * q] = 10 * Pow2[0]
      BY <2>2, <3>1, Zenon
    <3> QED  BY <3>2, Pow2Type
  <2>4. Float[128 * q] \in Nat /\ 2 * (Float[128 * q] - 128 * q) <= 10
    BY <1>1, <2>1, <2>3, FloatIs, FloatSign
  <2> QED  BY <1>1, <1>4, <2>1, <2>4
<1> DEFINE n == 4 * a
           v == range.min + by
<1>6. /\ range.min = n * u /\ n \in Nat /\ v \in Int /\ range.min \in Int
      /\ n * u <= v /\ 2 * (v - n * u) < u
      /\ range.max = n * u + 4 * u
  <2>1. One * a = n * u /\ One * (a + 1) = n * u + 4 * u /\ n * u \in Int
    BY <1>3
  <2> QED  BY <1>3, <1>5, <2>1
<1>7. Ulp[v] = u
  <2>1. (8 * q) * u <= n * u /\ n * u + 4 * u <= (16 * q) * u
    <3>1. 8 * q <= n /\ n + 4 <= 16 * q /\ 8 * q \in Int /\ 16 * q \in Int
          /\ n + 4 \in Int /\ n \in Int
      BY <1>1 DEF q
    <3>2. (n + 4) * u = n * u + 4 * u
      BY <1>3, <3>1
    <3> HIDE DEF u, n
    <3> QED  BY <1>3, <3>1, <3>2, Multiples
  <2>2. (16 * q) * u = 2 * ((8 * q) * u) /\ (8 * q) * u \in Nat
    BY <1>1, <1>3
  <2>3. v >= 0 /\ Low(k) <= v /\ v < 2 * Low(k)
    <3> HIDE DEF v, u, n
    <3> QED  BY <1>2, <1>3, <1>6, <2>1, <2>2
  <2>4. InBinade(v, k)
    BY <1>6, <2>3, AbsIs DEF InBinade
  <2> QED  BY <1>1, <1>2, <1>6, <2>4, UlpIs
<1>8. Nearest(v, u) = n * u
  <2> HIDE DEF u, v, n
  <2>1. PICK m \in Int :
          /\ m * u <= v /\ v < m * u + u
          /\ Nearest(v, u) =
               IF 2 * (v - m * u) < u \/ (2 * (v - m * u) = u /\ m % 2 = 0)
               THEN m * u ELSE m * u + u
    BY <1>3, <1>6, NearestIs
  <2>2. m = n
    <3>1. ASSUME m < n PROVE FALSE
      <4>1. m * u + u <= n * u /\ m * u \in Int /\ n * u \in Int
        BY <1>3, <1>6, <3>1, Multiples
      <4> QED  BY <1>3, <1>6, <2>1, <4>1
    <3>2. ASSUME n < m PROVE FALSE
      <4>1. n * u + u <= m * u /\ m * u \in Int /\ n * u \in Int
        BY <1>3, <1>6, <3>2, Multiples
      <4> QED  BY <1>3, <1>6, <2>1, <4>1
    <3> QED  BY <1>6, <3>1, <3>2
  <2> QED  BY <1>6, <2>1, <2>2
<1>9. Float[v] = range.min
  BY <1>6, <1>7, <1>8, FloatIs
<1>10. range.min < range.max
  BY <1>3, <1>6
<1> QED  BY <1>9, <1>10 DEF Advance
=============================================================================
