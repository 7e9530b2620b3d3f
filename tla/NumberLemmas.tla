----------------------------- MODULE NumberLemmas -----------------------------
(***************************************************************************)
(* Least and greatest numbers, induction, recursion and the sizes of images, *)
(* in the form that the provers can use: about sets and functions instead of *)
(* operators.                                                              *)
(***************************************************************************)
EXTENDS Integers, FiniteSetTheorems, TLAPS

(* A set of natural numbers has a least one. *)
LEMMA NatLeast ==
  ASSUME NEW T, T \subseteq Nat, T # {}
  PROVE  \E x \in T : \A y \in T : x <= y
<1> DEFINE R == OpToRel(<, Nat)
<1>1. IsWellFoundedOn(R, Nat)
  BY NatLessThanWellFounded
<1>2. \A x \in T, y \in T : y < x => <<y, x>> \in R
  BY DEF OpToRel
<1> HIDE DEF R
<1>3. PICK x \in T : \A y \in T : ~ (<<y, x>> \in R)
  BY <1>1, WFMin
<1>4. \A y \in T : ~ (y < x)
  BY ONLY <1>2, <1>3
<1>5. \A y \in T : x <= y
  BY ONLY <1>3, <1>4, T \subseteq Nat
<1> QED BY <1>3, <1>5

(* Induction: a set that holds 0 and with a number the next. *)
LEMMA NatSteps ==
  ASSUME NEW S, 0 \in S, \A n \in Nat : n \in S => n + 1 \in S
  PROVE  Nat \subseteq S
<1> SUFFICES ASSUME Nat \ S # {} PROVE FALSE
  OBVIOUS
<1>1. PICK x \in Nat \ S : \A y \in Nat \ S : x <= y
  BY NatLeast
<1>2. x # 0 /\ x - 1 \in Nat
  BY <1>1
<1>3. x - 1 \in S
  BY <1>1, <1>2
<1> QED BY <1>1, <1>2, <1>3

LEMMA NatGreatest ==
  ASSUME NEW T, T \subseteq Nat, T # {}, NEW b \in Nat, \A t \in T : t <= b
  PROVE  \E x \in T : \A y \in T : y <= x
<1> DEFINE B == {n \in Nat : \A t \in T : t <= n}
<1>1. PICK x \in B : \A y \in B : x <= y
  BY NatLeast
<1>2. CASE x \in T
  BY <1>1, <1>2
<1>3. CASE x \notin T
  <2>1. \A t \in T : t <= x /\ t # x /\ t \in Nat /\ x \in Nat
    BY <1>1, <1>3
  <2>2. x - 1 \in Nat
    <3>1. PICK t \in T : TRUE
      OBVIOUS
    <3> QED BY <3>1, <2>1
  <2>3. \A t \in T : t <= x - 1
    BY <2>1
  <2>4. x - 1 \in B
    BY <2>2, <2>3
  <2> QED BY <1>1, <2>2, <2>4
<1> QED BY <1>2, <1>3

(* The numbers of a finite family have a bound. *)
LEMMA Bounded ==
  ASSUME NEW n \in Nat, NEW h, \A i \in 1 .. n : h[i] \in Nat
  PROVE  \E b \in Nat : \A i \in 1 .. n : h[i] <= b
<1> DEFINE S == {k \in Nat : k <= n => \E b \in Nat : \A i \in 1 .. k : h[i] <= b}
<1>1. 0 \in S
  <2>1. \A i \in 1 .. 0 : h[i] <= 0
    OBVIOUS
  <2> QED BY <2>1
<1>2. ASSUME NEW k \in Nat, k \in S PROVE k + 1 \in S
  <2> SUFFICES ASSUME k + 1 <= n PROVE \E b \in Nat : \A i \in 1 .. k + 1 : h[i] <= b
    OBVIOUS
  <2>1. PICK b \in Nat : \A i \in 1 .. k : h[i] <= b
    BY <1>2
  <2>2. h[k + 1] \in Nat
    OBVIOUS
  <2>3. b + h[k + 1] \in Nat /\ \A i \in 1 .. k + 1 : h[i] <= b + h[k + 1]
    <3> SUFFICES ASSUME NEW i \in 1 .. k + 1 PROVE h[i] <= b + h[k + 1]
      BY <2>2
    <3>1. CASE i = k + 1
      BY <3>1, <2>2
    <3>2. CASE i \in 1 .. k
      <4>1. h[i] \in Nat /\ h[i] <= b
        BY <3>2, <2>1
      <4> QED BY <4>1, <2>2
    <3> QED BY <3>1, <3>2
  <2> QED BY <2>3
<1>3. n \in S
  BY <1>1, <1>2, NatSteps
<1> QED BY <1>3

LEMMA FiniteBounded ==
  ASSUME NEW T, T \subseteq Nat, IsFiniteSet(T)
  PROVE  \E b \in Nat : \A t \in T : t <= b
<1>1. PICK n \in Nat : ExistsSurjection(1 .. n, T)
  BY FS_NatSurjection
<1>2. PICK f \in Surjection(1 .. n, T) : TRUE
  BY <1>1 DEF ExistsSurjection
<1>3. (\A i \in 1 .. n : f[i] \in T) /\ (\A t \in T : \E i \in 1 .. n : f[i] = t)
  BY <1>2 DEF Surjection
<1>4. PICK b \in Nat : \A i \in 1 .. n : f[i] <= b
  BY <1>3, Bounded
<1> QED BY <1>3, <1>4

-----------------------------------------------------------------------------
(* The function that a fold computes on the subsets of its set: from each   *)
(* subset that is not empty an element is picked and F applied to it and to *)
(* what the rest has given.                                                 *)
Folds(g, S, base, pick, F) ==
  \A s \in SUBSET S :
    g[s] = IF s = {} THEN base ELSE F[pick[s]][g[s \ {pick[s]}]]

Foldable(S, V, base, pick, F) ==
  /\ IsFiniteSet(S) /\ base \in V
  /\ \A s \in SUBSET S : s # {} => pick[s] \in s
  /\ F \in [S -> [V -> V]]

LEMMA FoldExists ==
  ASSUME NEW S, NEW V, NEW base, NEW pick, NEW F, Foldable(S, V, base, pick, F)
  PROVE  \E g \in [SUBSET S -> V] : Folds(g, S, base, pick, F)
<1> USE DEF Foldable
<1> DEFINE Step(g, s) == IF s = {} THEN base ELSE F[pick[s]][g[s \ {pick[s]}]]
           Upto(n) == \E g \in [SUBSET S -> V] :
                        \A s \in SUBSET S : Cardinality(s) <= n => g[s] = Step(g, s)
           N == {n \in Nat : Upto(n)}
<1>1. \A s \in SUBSET S : IsFiniteSet(s) /\ Cardinality(s) \in Nat
  BY FS_Subset, FS_CardinalityType
<1>2. \A s \in SUBSET S : s # {} => /\ pick[s] \in S /\ s \ {pick[s]} \in SUBSET S
                                   /\ Cardinality(s \ {pick[s]}) = Cardinality(s) - 1
  BY <1>1, FS_RemoveElement
<1>3. \A s \in SUBSET S : Cardinality(s) <= 0 => s = {}
  BY <1>1, FS_EmptySet
<1>4. \A g \in [SUBSET S -> V], s \in SUBSET S : Step(g, s) \in V
  BY <1>2
<1>5. Upto(0)
  <2> DEFINE g == [s \in SUBSET S |-> base]
  <2>1. g \in [SUBSET S -> V]
    OBVIOUS
  <2>2. \A s \in SUBSET S : Cardinality(s) <= 0 => g[s] = Step(g, s)
    BY <1>3
  <2> QED BY <2>1, <2>2
<1>6. ASSUME NEW n \in Nat, Upto(n) PROVE Upto(n + 1)
  <2>1. PICK g \in [SUBSET S -> V] : \A s \in SUBSET S : Cardinality(s) <= n => g[s] = Step(g, s)
    BY <1>6
  <2> DEFINE h == [s \in SUBSET S |-> IF Cardinality(s) <= n THEN g[s] ELSE Step(g, s)]
  <2>2. h \in [SUBSET S -> V]
    BY <1>4
  <2>3. \A s \in SUBSET S : h[s] = Step(g, s)
    BY <2>1
  <2>4. ASSUME NEW s \in SUBSET S, Cardinality(s) <= n + 1 PROVE h[s] = Step(h, s)
    <3>1. CASE s = {}
      BY <3>1, <2>3
    <3>2. CASE s # {}
      <4>1. s \ {pick[s]} \in SUBSET S /\ Cardinality(s \ {pick[s]}) <= n
        <5>1. Cardinality(s) \in Nat /\ Cardinality(s \ {pick[s]}) = Cardinality(s) - 1
          BY <1>1, <1>2, <3>2
        <5> QED BY <5>1, <2>4, <1>2, <3>2
      <4>2. h[s \ {pick[s]}] = g[s \ {pick[s]}]
        BY <4>1
      <4> QED BY <2>3, <3>2, <4>2
    <3> QED BY <3>1, <3>2
  <2> HIDE DEF h
  <2> QED BY <2>2, <2>4
<1>7. Cardinality(S) \in N
  <2> HIDE DEF Upto
  <2>1. 0 \in N /\ \A n \in Nat : n \in N => n + 1 \in N
    BY <1>5, <1>6
  <2> HIDE DEF N
  <2>2. Nat \subseteq N
    BY ONLY <2>1, NatSteps
  <2> QED BY <2>2, <1>1
<1>8. PICK g \in [SUBSET S -> V] :
        \A s \in SUBSET S : Cardinality(s) <= Cardinality(S) => g[s] = Step(g, s)
  BY <1>7
<1>9. \A s \in SUBSET S : Cardinality(s) <= Cardinality(S)
  BY FS_Subset
<1> QED BY <1>8, <1>9 DEF Folds

(* What is made step by step exists, and each step's result is in its set. *)
Chained(g, n, base, V, F) ==
  /\ g = [i \in 0 .. n |-> IF i = 0 THEN base ELSE F[i][g[i - 1]]]
  /\ \A i \in 0 .. n : g[i] \in V[i]

Chainable(n, base, V, F) ==
  /\ n \in Nat /\ base \in V[0]
  /\ \A i \in 1 .. n : \A v \in V[i - 1] : F[i][v] \in V[i]

LEMMA Chains ==
  ASSUME NEW n, NEW base, NEW V, NEW F, Chainable(n, base, V, F)
  PROVE  \E g : Chained(g, n, base, V, F)
<1> USE DEF Chainable
<1> DEFINE Chain(g, m) == /\ g = [i \in 0 .. m |-> IF i = 0 THEN base ELSE F[i][g[i - 1]]]
                          /\ \A i \in 0 .. m : g[i] \in V[i]
           N == {m \in Nat : m <= n => \E g : Chain(g, m)}
<1>1. 0 \in N
  <2> DEFINE g == [i \in 0 .. 0 |-> base]
  <2>1. g = [i \in 0 .. 0 |-> IF i = 0 THEN base ELSE F[i][g[i - 1]]]
    OBVIOUS
  <2>2. \A i \in 0 .. 0 : g[i] \in V[i]
    OBVIOUS
  <2> QED BY <2>1, <2>2
<1>2. ASSUME NEW m \in Nat, m \in N PROVE m + 1 \in N
  <2> SUFFICES ASSUME m + 1 <= n PROVE \E g : Chain(g, m + 1)
    OBVIOUS
  <2>1. PICK f : Chain(f, m)
    BY <1>2
  <2> DEFINE g == [i \in 0 .. m + 1 |-> IF i <= m THEN f[i] ELSE F[i][f[m]]]
  <2>2. \A i \in 0 .. m : g[i] = f[i] /\ f[i] = (IF i = 0 THEN base ELSE F[i][f[i - 1]])
    <3>1. f = [i \in 0 .. m |-> IF i = 0 THEN base ELSE F[i][f[i - 1]]]
      BY <2>1
    <3>2. \A i \in 0 .. m : f[i] = (IF i = 0 THEN base ELSE F[i][f[i - 1]])
      BY <3>1
    <3> QED BY <3>2
  <2>3. g[m + 1] = F[m + 1][f[m]]
    OBVIOUS
  <2>4. ASSUME NEW i \in 0 .. m + 1
        PROVE  g[i] = (IF i = 0 THEN base ELSE F[i][g[i - 1]]) /\ g[i] \in V[i]
    <3> HIDE DEF g
    <3>1. CASE i = m + 1
      <4>1. m \in 0 .. m /\ i - 1 = m /\ i # 0 /\ i \in 1 .. n
        BY <3>1
      <4>2. f[m] \in V[m]
        BY <2>1, <4>1
      <4>3. F[i][f[m]] \in V[i]
        BY <4>1, <4>2
      <4> QED BY <2>2, <2>3, <3>1, <4>1, <4>3
    <3>2. CASE i \in 0 .. m
      <4>1. g[i] = f[i] /\ f[i] \in V[i] /\ f[i] = (IF i = 0 THEN base ELSE F[i][f[i - 1]])
        BY <2>1, <2>2, <3>2
      <4>2. i # 0 => i - 1 \in 0 .. m
        BY <3>2
      <4>3. i # 0 => g[i - 1] = f[i - 1]
        BY <2>2, <4>2
      <4> QED BY <4>1, <4>3
    <3>3. i = m + 1 \/ i \in 0 .. m
      OBVIOUS
    <3> QED BY <3>1, <3>2, <3>3
  <2>5. g = [i \in 0 .. m + 1 |-> g[i]]
    OBVIOUS
  <2> HIDE DEF g
  <2>6. Chain(g, m + 1)
    BY <2>4, <2>5
  <2> QED BY <2>6
<1> HIDE DEF Chain
<1>3. Nat \subseteq N
  <2> HIDE DEF N
  <2> QED BY ONLY <1>1, <1>2, NatSteps
<1>4. \E g : Chain(g, n)
  BY <1>3
<1> QED BY <1>4 DEF Chain, Chained

(* What holds at the beginning of a chain and is kept by its steps holds in it. *)
LEMMA ChainHolds ==
  ASSUME NEW n \in Nat, NEW V, NEW g, g[0] \in V[0],
         \A i \in 1 .. n : g[i - 1] \in V[i - 1] => g[i] \in V[i]
  PROVE  \A i \in 0 .. n : g[i] \in V[i]
<1> DEFINE N == {m \in Nat : m <= n => g[m] \in V[m]}
<1>1. 0 \in N
  OBVIOUS
<1>2. ASSUME NEW m \in Nat, m \in N PROVE m + 1 \in N
  <2> SUFFICES ASSUME m + 1 <= n PROVE g[m + 1] \in V[m + 1]
    OBVIOUS
  <2>1. m + 1 \in 1 .. n /\ (m + 1) - 1 = m /\ g[m] \in V[m]
    BY <1>2
  <2> QED BY <2>1
<1>3. Nat \subseteq N
  <2> HIDE DEF N
  <2> QED BY ONLY <1>1, <1>2, NatSteps
<1> QED BY <1>3

(* A product of numbers is a number, and multiplying by one keeps an order. *)
LEMMA TimesMonotone ==
  ASSUME NEW a \in Nat, NEW b \in Nat, NEW c \in Nat, a <= b
  PROVE  a * c \in Nat /\ b * c \in Nat /\ a * c <= b * c
<1>1. PICK d \in Nat : b = a + d
  BY b - a \in Nat, b = a + (b - a)
<1>2. a * c \in Nat /\ b * c \in Nat /\ d * c \in Nat
  OBVIOUS
<1>3. (a + d) * c = a * c + d * c
  OBVIOUS
<1> QED BY <1>1, <1>2, <1>3

(* The image of a finite set is finite and no larger. *)
LEMMA ImageFinite ==
  ASSUME NEW S, IsFiniteSet(S), NEW T, NEW f, \A t \in T : \E s \in S : t = f[s]
  PROVE  IsFiniteSet(T)
<1> DEFINE U == {f[s] : s \in S}
           g == [s \in S |-> f[s]]
<1>1. g \in [S -> U]
  OBVIOUS
<1>2. g \in Surjection(S, U)
  BY <1>1 DEF Surjection
<1> HIDE DEF g
<1>3. T \in SUBSET U
  OBVIOUS
<1> HIDE DEF U
<1>4. IsFiniteSet(U)
  BY <1>2, FS_Surjection
<1> QED BY <1>3, <1>4, FS_Subset

(* Sets between which a function is one to one are of one size. *)
LEMMA SameSize ==
  ASSUME NEW S, IsFiniteSet(S), NEW T, NEW f,
         \A s \in S : f[s] \in T,
         \A s, r \in S : f[s] = f[r] => s = r,
         \A t \in T : \E s \in S : t = f[s]
  PROVE  IsFiniteSet(T) /\ Cardinality(T) = Cardinality(S)
<1> DEFINE g == [s \in S |-> f[s]]
<1>1. g \in [S -> T]
  OBVIOUS
<1>2. g \in Bijection(S, T)
  BY <1>1 DEF Bijection, Injection, Surjection, IsInjective
<1>3. ExistsBijection(S, T)
  BY <1>2 DEF ExistsBijection
<1> QED BY <1>3, FS_Bijection

(* A number is its quotient times the divisor, and the remainder.              *)
LEMMA Remainders ==
  ASSUME NEW a \in Int, NEW m \in Nat \ {0}
  PROVE  a = m * (a \div m) + (a % m) /\ (a % m) \in 0 .. m - 1 /\ a \div m \in Int
OBVIOUS

(* There is one way to divide.                                               *)
LEMMA OneQuotient ==
  ASSUME NEW m \in Nat \ {0}, NEW d \in 0 .. m - 1, NEW r \in 0 .. m - 1, NEW k \in Int, NEW q \in Int,
         d + m * k = m * q + r
  PROVE  r = d
<1>1. m * (q - k) = d - r
  OBVIOUS
<1>2. q - k \in Int
  OBVIOUS
<1>3. CASE q - k >= 1
  <2>1. m * (q - k) >= m
    BY <1>2, <1>3
  <2> QED BY <1>1, <2>1
<1>4. CASE q - k <= -1
  <2>1. m * (q - k) <= -m
    BY <1>2, <1>4
  <2> QED BY <1>1, <2>1
<1>5. CASE q - k = 0
  BY <1>1, <1>5
<1> QED BY <1>2, <1>3, <1>4, <1>5

(* Of two numbers on the same round, and of two that are less than a round       *)
(* apart: the difference of their remainders is theirs, on a ring of w.        *)
LEMMA PartsApart ==
  ASSUME NEW a \in Nat, NEW b \in Nat, a <= b, NEW m \in Nat \ {0}, NEW w \in Nat, m <= w,
         NEW p \in Int, NEW q \in Int, NEW r \in 0 .. m - 1, NEW s \in 0 .. m - 1,
         a = m * p + r, b = m * q + s, p = q \/ (m = w /\ b - a < w)
  PROVE  (s - r) % w = b - a
<1> DEFINE d == s - r
           u == d \div w
           v == d % w
<1>1. d \in Int /\ b - a \in 0 .. w - 1 /\ \E k \in Int : d = (b - a) + w * k
  <2>1. CASE p = q
    <3>1. s - r = b - a /\ b - a < m
      BY <2>1
    <3>2. s - r = (b - a) + w * 0
      BY <3>1
    <3> QED BY <3>1, <3>2
  <2>2. CASE m = w /\ b - a < w
    <3>1. s - r = (b - a) + (m * p - m * q)
      OBVIOUS
    <3>2. m * p - m * q = m * (p - q)
      OBVIOUS
    <3>3. p - q \in Int
      OBVIOUS
    <3> QED BY <2>2, <3>1, <3>2, <3>3
  <2> QED BY <2>1, <2>2
<1>2. PICK k \in Int : d = (b - a) + w * k
  BY <1>1
<1>3. w \in Nat \ {0}
  OBVIOUS
<1>4. d = w * u + v /\ v \in 0 .. w - 1 /\ u \in Int
  <2> HIDE DEF d
  <2> QED BY <1>1, <1>3, Remainders
<1> HIDE DEF d, u, v
<1>5. (b - a) + w * k = w * u + v
  BY <1>2, <1>4
<1>6. v = b - a
  <2> DEFINE e == b - a
  <2>1. e \in 0 .. w - 1
    BY <1>1
  <2>2. e + w * k = w * u + v
    BY <1>5
  <2> HIDE DEF e
  <2>3. v = e
    BY <1>3, <1>4, <2>1, <2>2, OneQuotient
  <2> QED BY <2>3 DEF e
<1> QED BY <1>6 DEF v, d

(* The same of the remainders themselves.                                   *)
LEMMA Differences ==
  ASSUME NEW a \in Nat, NEW b \in Nat, a <= b, NEW m \in Nat \ {0}, NEW w \in Nat, m <= w,
         (a \div m) = (b \div m) \/ (m = w /\ b - a < w)
  PROVE  ((b % m) - (a % m)) % w = b - a
<1> DEFINE p == a \div m
           q == b \div m
           r == a % m
           s == b % m
<1>1. a = m * p + r /\ r \in 0 .. m - 1 /\ p \in Int
  BY Remainders
<1>2. b = m * q + s /\ s \in 0 .. m - 1 /\ q \in Int
  BY Remainders
<1>3. p = q \/ (m = w /\ b - a < w)
  OBVIOUS
<1> HIDE DEF p, q, r, s
<1>4. (s - r) % w = b - a
  BY <1>1, <1>2, <1>3, PartsApart
<1> QED BY <1>4 DEF r, s
============================================================================
