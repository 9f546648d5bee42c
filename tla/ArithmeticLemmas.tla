-------------------------- MODULE ArithmeticLemmas --------------------------
(***************************************************************************)
(* Induction on the naturals, stated for a set where the library's theorem *)
(* takes a predicate; functions defined by recursion; remainders.          *)
(***************************************************************************)
EXTENDS Integers, FiniteSetTheorems, WellFoundedInduction, TLAPS

(* A set of naturals that is not empty has a least member.                 *)
LEMMA LeastMember ==
  ASSUME NEW T \in SUBSET Nat, T # {}
  PROVE  \E m \in T : \A k \in T : m <= k
<1>1. PICK n \in T : n \in Nat OBVIOUS
<1> DEFINE Up == {0 .. m : m \in {k \in T : k <= n}}
           Smaller == StrictSubsetOrdering(0 .. n)
<1>2. IsFiniteSet(0 .. n) BY <1>1, FS_Interval
<1>3. FiniteSubsetsOf(0 .. n) = SUBSET (0 .. n) BY <1>2, FS_FiniteSubsetsOfFinite
<1>4. IsWellFoundedOn(Smaller, SUBSET (0 .. n)) BY <1>3, FS_StrictSubsetOrderingWellFounded
<1>5. \A m \in T : m <= n => 0 .. m \in SUBSET (0 .. n) BY <1>1
<1>6. Up \subseteq SUBSET (0 .. n) /\ 0 .. n \in Up BY <1>1, <1>5
<1> HIDE DEF Smaller
<1>7. \E x \in Up : \A y \in Up : ~(<<y, x>> \in Smaller)
  <2>1. Up # {} BY <1>6
  <2> HIDE DEF Up
  <2> QED BY <1>4, <1>6, <2>1, WFMin
<1>8. PICK m \in T : m <= n /\ \A y \in Up : ~(<<y, 0 .. m>> \in Smaller) BY <1>7
<1>9. ASSUME NEW k \in T, k < m PROVE FALSE
  <2>1. m \in Nat /\ k \in Nat /\ k <= n BY <1>1, <1>8, <1>9
  <2>2. 0 .. k \in Up BY <2>1
  <2>3. 0 .. k \subseteq 0 .. m /\ m \in 0 .. m /\ m \notin 0 .. k BY <2>1, <1>9
  <2>4. <<0 .. k, 0 .. m>> \in Smaller BY <2>1, <2>3, <1>5, <1>8 DEF Smaller, StrictSubsetOrdering
  <2> QED BY <2>2, <2>4, <1>8
<1>10. \A k \in T : m <= k BY <1>9
<1> QED BY <1>10

LEMMA SetInduction ==
  ASSUME NEW S, 0 \in S, \A n \in Nat : n \in S => n + 1 \in S
  PROVE  Nat \subseteq S
<1> SUFFICES ASSUME NEW x \in Nat, x \notin S PROVE FALSE OBVIOUS
<1> DEFINE Missing == {n \in Nat : n \notin S}
<1>1. PICK m \in Missing : \A k \in Missing : m <= k
  <2>1. Missing \in SUBSET Nat /\ Missing # {} OBVIOUS
  <2> HIDE DEF Missing
  <2> QED BY <2>1, LeastMember
<1>2. m # 0 /\ m \in Nat OBVIOUS
<1>3. m - 1 \in Nat /\ ~(m <= m - 1) /\ (m - 1) + 1 = m BY <1>2
<1>4. m - 1 \in S BY <1>1, <1>3
<1> QED BY <1>3, <1>4

LEMMA StrongInduction ==
  ASSUME NEW S, \A n \in Nat : (\A m \in 0 .. n - 1 : m \in S) => n \in S
  PROVE  Nat \subseteq S
<1> SUFFICES ASSUME NEW x \in Nat, x \notin S PROVE FALSE OBVIOUS
<1> DEFINE Missing == {n \in Nat : n \notin S}
<1>1. PICK m \in Missing : \A k \in Missing : m <= k
  <2>1. Missing \in SUBSET Nat /\ Missing # {} OBVIOUS
  <2> HIDE DEF Missing
  <2> QED BY <2>1, LeastMember
<1>2. ASSUME NEW k \in 0 .. m - 1 PROVE k \in S
  <2>1. k \in Nat /\ ~(m <= k) OBVIOUS
  <2> QED BY <2>1, <1>1
<1> QED BY <1>2

(* Two functions that begin alike and go on alike.                         *)
LEMMA SameRecursion ==
  ASSUME NEW n \in Nat, NEW f, NEW g, f[0] = g[0],
         \A i \in 1 .. n : f[i - 1] = g[i - 1] => f[i] = g[i]
  PROVE  \A i \in 0 .. n : f[i] = g[i]
<1> DEFINE S == {i \in Nat : i <= n => f[i] = g[i]}
<1>1. 0 \in S OBVIOUS
<1>2. ASSUME NEW i \in Nat, i \in S PROVE i + 1 \in S
  <2>1. i + 1 <= n => i + 1 \in 1 .. n /\ (i + 1) - 1 = i /\ i <= n OBVIOUS
  <2> QED BY <1>2, <2>1
<1> HIDE DEF S
<1>3. Nat \subseteq S BY <1>1, <1>2, SetInduction
<1> QED BY <1>3 DEF S

(* What is computed step by step from a first value exists.                *)
Computes(f, n, V, e, step) ==
  /\ f \in [0 .. n -> V] /\ f[0] = e
  /\ \A i \in 1 .. n : f[i] = step[<<i, f[i - 1]>>]

LEMMA RecursionExists ==
  ASSUME NEW n \in Nat, NEW V, NEW e \in V, NEW step \in [Nat \X V -> V]
  PROVE  \E f : Computes(f, n, V, e, step)
<1> DEFINE S == {k \in Nat : \E f : Computes(f, k, V, e, step)}
<1>1. 0 \in S
  <2>1. Computes([i \in 0 .. 0 |-> e], 0, V, e, step) BY DEF Computes
  <2> QED BY <2>1
<1>2. ASSUME NEW k \in Nat, k \in S PROVE k + 1 \in S
  <2>1. PICK f : /\ f \in [0 .. k -> V] /\ f[0] = e
                 /\ \A i \in 1 .. k : f[i] = step[<<i, f[i - 1]>>]
    BY <1>2 DEF Computes
  <2> DEFINE g == [i \in 0 .. k + 1 |-> IF i = k + 1 THEN step[<<i, f[k]>>] ELSE f[i]]
  <2>2. \A i \in 0 .. k : g[i] = f[i] OBVIOUS
  <2>3. g[k + 1] = step[<<k + 1, f[k]>>] OBVIOUS
  <2>4. f[k] \in V BY <2>1
  <2>5. <<k + 1, f[k]>> \in Nat \X V BY <2>4
  <2>6. step[<<k + 1, f[k]>>] \in V BY <2>5
  <2>7. g \in [0 .. k + 1 -> V]
    <3>1. ASSUME NEW i \in 0 .. k + 1 PROVE (IF i = k + 1 THEN step[<<i, f[k]>>] ELSE f[i]) \in V
      <4>1. i # k + 1 => i \in 0 .. k OBVIOUS
      <4> QED BY <4>1, <2>1, <2>6
    <3> QED BY <3>1
  <2> HIDE DEF g
  <2>8. \A i \in 1 .. k + 1 : g[i] = step[<<i, g[i - 1]>>]
    <3>1. ASSUME NEW i \in 1 .. k PROVE g[i] = step[<<i, g[i - 1]>>]
      <4>1. i \in 0 .. k /\ i - 1 \in 0 .. k OBVIOUS
      <4> QED BY <4>1, <2>1, <2>2
    <3>2. k \in 0 .. k /\ (k + 1) - 1 = k OBVIOUS
    <3>3. g[k + 1] = step[<<k + 1, g[(k + 1) - 1]>>] BY <3>2, <2>2, <2>3
    <3>4. \A i \in 1 .. k + 1 : i = k + 1 \/ i \in 1 .. k OBVIOUS
    <3> QED BY <3>1, <3>3, <3>4
  <2>9. 0 \in 0 .. k /\ g[0] = e BY <2>1, <2>2
  <2>10. Computes(g, k + 1, V, e, step) BY <2>7, <2>8, <2>9 DEF Computes
  <2> QED BY <2>10
<1> HIDE DEF S
<1>3. n \in S BY <1>1, <1>2, SetInduction
<1> QED BY <1>3 DEF S
-----------------------------------------------------------------------------
(* Division by a positive number.                                          *)
LEMMA DivMod ==
  ASSUME NEW x \in Int, NEW m \in Nat \ {0}
  PROVE  x \div m \in Int /\ x % m \in 0 .. m - 1 /\ x = m * (x \div m) + (x % m)
         /\ (x \in Nat => x \div m \in Nat)
<1>1. x \div m \in Int /\ x % m \in 0 .. m - 1 /\ x = m * (x \div m) + (x % m) OBVIOUS
<1>2. ASSUME x \in Nat PROVE x \div m \in Nat
   <2> SUFFICES ASSUME x \div m <= -1 PROVE FALSE BY <1>1
   <2>1. m * (x \div m) <= m * (-1) BY <1>1
   <2> QED BY <2>1, <1>1, <1>2
<1> QED BY <1>1, <1>2

LEMMA DivModUnique ==
  ASSUME NEW m \in Nat \ {0}, NEW q \in Int, NEW r \in 0 .. m - 1
  PROVE  (m * q + r) \div m = q /\ (m * q + r) % m = r
<1> DEFINE x == m * q + r
           p == x \div m
           s == x % m
<1>1. x \in Int OBVIOUS
<1>2. p \in Int /\ s \in 0 .. m - 1 /\ m * p + s = m * q + r BY <1>1, DivMod
<1> HIDE DEF p, s
<1>3. m * (p - q) = r - s BY <1>2
<1>4. ASSUME p - q >= 1 PROVE FALSE
  <2>1. m * (p - q) >= m BY <1>2, <1>4
  <2> QED BY <1>2, <1>3, <2>1
<1>5. ASSUME p - q <= -1 PROVE FALSE
  <2>1. m * (p - q) <= -m BY <1>2, <1>5
  <2> QED BY <1>2, <1>3, <2>1
<1>6. p = q BY <1>2, <1>4, <1>5
<1>7. s = r BY <1>2, <1>6
<1> QED BY <1>6, <1>7 DEF p, s

(* A number and that number plus a multiple of the modulus.                *)
LEMMA ModShift ==
  ASSUME NEW m \in Nat \ {0}, NEW x \in Int, NEW k \in Int
  PROVE  (x + m * k) % m = x % m
<1>1. x \div m \in Int /\ x % m \in 0 .. m - 1 /\ x = m * (x \div m) + (x % m) BY DivMod
<1>2. x + m * k = m * (x \div m + k) + (x % m) BY <1>1
<1> DEFINE q == x \div m + k
           r == x % m
<1>3. q \in Int /\ r \in 0 .. m - 1 BY <1>1
<1>4. x + m * k = m * q + r BY <1>2
<1> HIDE DEF q, r
<1>5. (m * q + r) % m = r BY <1>3, DivModUnique
<1> QED BY <1>4, <1>5 DEF r

LEMMA ModAdd ==
  ASSUME NEW m \in Nat \ {0}, NEW x \in Int, NEW y \in Int
  PROVE  ((x % m) + y) % m = (x + y) % m /\ (x + (y % m)) % m = (x + y) % m
<1>1. /\ x \div m \in Int /\ x % m \in 0 .. m - 1 /\ x = m * (x \div m) + (x % m)
      /\ y \div m \in Int /\ y % m \in 0 .. m - 1 /\ y = m * (y \div m) + (y % m)
  BY DivMod
<1>2. x + y = ((x % m) + y) + m * (x \div m) /\ x + y = (x + (y % m)) + m * (y \div m) BY <1>1
<1>3. /\ (((x % m) + y) + m * (x \div m)) % m = ((x % m) + y) % m
      /\ ((x + (y % m)) + m * (y \div m)) % m = (x + (y % m)) % m
  <2>1. (x % m) + y \in Int /\ x + (y % m) \in Int BY <1>1
  <2> QED BY <1>1, <2>1, ModShift
<1> QED BY <1>2, <1>3

LEMMA ModMul ==
  ASSUME NEW m \in Nat \ {0}, NEW x \in Int, NEW c \in Int
  PROVE  (c * (x % m)) % m = (c * x) % m
<1>1. x \div m \in Int /\ x % m \in 0 .. m - 1 /\ x = m * (x \div m) + (x % m) BY DivMod
<1>2. c * x = c * (x % m) + m * (c * (x \div m))
  <2> DEFINE u == x \div m
             v == x % m
  <2>1. u \in Int /\ v \in Int /\ x = m * u + v BY <1>1
  <2> HIDE DEF u, v
  <2>2. c * x = c * v + m * (c * u) BY <2>1
  <2> QED BY <2>2 DEF u, v
<1>3. c * (x % m) \in Int /\ c * (x \div m) \in Int BY <1>1
<1>4. (c * (x % m) + m * (c * (x \div m))) % m = (c * (x % m)) % m BY <1>3, ModShift
<1> QED BY <1>2, <1>4

LEMMA ModSmall ==
  ASSUME NEW m \in Nat \ {0}, NEW x \in 0 .. m - 1
  PROVE  x % m = x
<1>1. (m * 0 + x) % m = x BY DivModUnique
<1> QED BY <1>1

(* The remainder by a product: a word on top of the remainder below it.    *)
LEMMA ModProduct ==
  ASSUME NEW m \in Nat \ {0}, NEW k \in Nat \ {0}, NEW x \in Int
  PROVE  x % (m * k) = (x % m) + m * ((x \div m) % k)
<1> DEFINE u == x \div m
           v == x % m
           p == u \div k
           s == u % k
<1>1. u \in Int /\ v \in 0 .. m - 1 /\ x = m * u + v BY DivMod
<1>2. p \in Int /\ s \in 0 .. k - 1 /\ u = k * p + s
  <2> HIDE DEF u
  <2> QED BY <1>1, DivMod
<1> HIDE DEF u, v, p, s
<1>3. x = (m * k) * p + (v + m * s) BY <1>1, <1>2
<1>4. m * k \in Nat \ {0} BY SMT
<1>5. v + m * s \in 0 .. (m * k) - 1
  <2>1. m * s <= m * (k - 1) BY <1>2
  <2>2. m * s >= 0 BY <1>2
  <2>3. m * (k - 1) = m * k - m OBVIOUS
  <2>4. m * s \in Int /\ m * k \in Int BY <1>2
  <2> QED BY <1>1, <2>1, <2>2, <2>3, <2>4
<1>6. ((m * k) * p + (v + m * s)) % (m * k) = v + m * s
  <2> DEFINE c == m * k
             r == v + m * s
  <2>1. c \in Nat \ {0} /\ r \in 0 .. c - 1 BY <1>4, <1>5
  <2> HIDE DEF c, r
  <2>2. (c * p + r) % c = r BY <1>2, <2>1, DivModUnique
  <2> QED BY <2>2 DEF c, r
<1> QED BY <1>3, <1>6 DEF u, v, s
=============================================================================
