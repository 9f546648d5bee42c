----------------------- MODULE WindowedScaffoldProofs -----------------------
(***************************************************************************)
(* The four invariants of the windowed scaffold, for every order, window   *)
(* size, number of windows, length of the tail and set of scalars: the     *)
(* loops of the code compute multiples, every lookup is the word, as the   *)
(* replay counts it, times the weight of its window, and the accumulator   *)
(* is the sum of the words taken in.                                       *)
(***************************************************************************)
EXTENDS WindowedScaffold, ArithmeticLemmas

(***************************************************************************)
(* Powers of two.                                                          *)
(***************************************************************************)
(* 1 << n, computed by doubling.                                           *)
LEMMA PowersOfTwo ==
  /\ Pow2(0) = 1
  /\ \A n \in Nat : Pow2(n) \in Nat \ {0} /\ Pow2(n + 1) = 2 * Pow2(n)
<1> DEFINE Powers(n, f) == f = [i \in 0 .. n |-> IF i = 0 THEN 1 ELSE 2 * f[i - 1]]
           g(n) == CHOOSE f : Powers(n, f)
<1>1. ASSUME NEW n \in Nat PROVE \E f : Powers(n, f)
  <2> DEFINE step == [s \in Nat \X Nat |-> 2 * s[2]]
  <2>1. step \in [Nat \X Nat -> Nat] OBVIOUS
  <2>2. \A s \in Nat \X Nat : step[s] = 2 * s[2] OBVIOUS
  <2> HIDE DEF step
  <2>3. PICK f \in [0 .. n -> Nat] : f[0] = 1 /\ \A i \in 1 .. n : f[i] = step[<<i, f[i - 1]>>]
    <3> DEFINE V == Nat
               e == 1
    <3>1. step \in [Nat \X V -> V] /\ e \in V BY <2>1
    <3> HIDE DEF V, e
    <3>2. \E f : Computes(f, n, V, e, step) BY <3>1, RecursionExists
    <3> QED BY <3>2 DEF V, e, Computes
  <2>4. ASSUME NEW i \in 0 .. n PROVE f[i] = IF i = 0 THEN 1 ELSE 2 * f[i - 1]
    <3>1. CASE i # 0
      <4>1. i \in 1 .. n /\ i - 1 \in 0 .. n BY <3>1
      <4>2. <<i, f[i - 1]>> \in Nat \X Nat BY <4>1
      <4>3. f[i] = 2 * <<i, f[i - 1]>>[2] BY <4>1, <4>2, <2>2, <2>3
      <4> QED BY <4>3, <3>1
    <3> QED BY <3>1, <2>3
  <2>5. f = [i \in 0 .. n |-> f[i]] OBVIOUS
  <2> QED BY <2>4, <2>5
<1>2. \A n \in Nat : Powers(n, g(n)) BY <1>1
<1>3. \A n \in Nat : Pow2(n) = g(n)[n] BY DEF Pow2
<1> HIDE DEF g
<1>4. ASSUME NEW n \in Nat, NEW i \in 0 .. n
      PROVE  g(n)[i] = IF i = 0 THEN 1 ELSE 2 * g(n)[i - 1]
  BY <1>2
<1> HIDE DEF Powers
<1>5. ASSUME NEW n \in Nat PROVE Pow2(n + 1) = 2 * Pow2(n)
  <2>1. ASSUME NEW i \in 1 .. n, g(n + 1)[i - 1] = g(n)[i - 1] PROVE g(n + 1)[i] = g(n)[i]
    <3>1. i \in 0 .. n /\ i \in 0 .. n + 1 /\ i # 0 /\ n + 1 \in Nat OBVIOUS
    <3> QED BY <3>1, <2>1, <1>4
  <2>2. g(n + 1)[0] = g(n)[0] BY <1>4
  <2>3. g(n + 1)[n] = g(n)[n] BY <2>1, <2>2, SameRecursion
  <2>4. n + 1 \in 0 .. n + 1 /\ n + 1 # 0 /\ (n + 1) - 1 = n /\ n + 1 \in Nat OBVIOUS
  <2>5. g(n + 1)[n + 1] = 2 * g(n + 1)[n] BY <2>4, <1>4
  <2> QED BY <2>3, <2>4, <2>5, <1>3
<1>6. Pow2(0) = 1 BY <1>3, <1>4
<1>7. \A n \in Nat : Pow2(n) \in Nat \ {0}
  <2> DEFINE S == {n \in Nat : Pow2(n) \in Nat \ {0}}
  <2>1. 0 \in S BY <1>6
  <2>2. \A n \in Nat : n \in S => n + 1 \in S BY <1>5
  <2> HIDE DEF S
  <2>3. Nat \subseteq S BY <2>1, <2>2, SetInduction
  <2> QED BY <2>3 DEF S
<1> QED BY <1>5, <1>6, <1>7

(* A shift by m + n is a shift by m and one by n.                          *)
LEMMA PowerSum ==
  ASSUME NEW m \in Nat, NEW n \in Nat
  PROVE  Pow2(m + n) = Pow2(m) * Pow2(n)
<1> DEFINE S == {k \in Nat : Pow2(m + k) = Pow2(m) * Pow2(k)}
<1>1. Pow2(m) \in Nat BY PowersOfTwo
<1>2. 0 \in S BY <1>1, PowersOfTwo
<1>3. ASSUME NEW k \in Nat, k \in S PROVE k + 1 \in S
  <2>1. m + k \in Nat /\ (m + k) + 1 = m + (k + 1) OBVIOUS
  <2>2. Pow2(m + (k + 1)) = 2 * Pow2(m + k) /\ Pow2(k + 1) = 2 * Pow2(k) /\ Pow2(k) \in Nat
    BY <2>1, PowersOfTwo
  <2> DEFINE u == Pow2(m)
             v == Pow2(k)
  <2>3. Pow2(m + (k + 1)) = 2 * (u * v) /\ Pow2(k + 1) = 2 * v /\ u \in Nat /\ v \in Nat
    BY <1>1, <1>3, <2>2
  <2> HIDE DEF u, v
  <2>4. 2 * (u * v) = u * (2 * v) BY <2>3
  <2> QED BY <2>3, <2>4 DEF u
<1> HIDE DEF S
<1>4. Nat \subseteq S BY <1>2, <1>3, SetInduction
<1> QED BY <1>4 DEF S

(* A longer shift yields no less.                                          *)
LEMMA PowersGrow ==
  ASSUME NEW m \in Nat, NEW n \in Nat, m <= n
  PROVE  Pow2(m) <= Pow2(n)
<1>1. n - m \in Nat /\ m + (n - m) = n OBVIOUS
<1>2. Pow2(n) = Pow2(m) * Pow2(n - m) BY <1>1, PowerSum
<1>3. Pow2(m) \in Nat \ {0} /\ Pow2(n - m) \in Nat \ {0} BY <1>1, PowersOfTwo
<1> DEFINE u == Pow2(m)
           v == Pow2(n - m)
<1> HIDE DEF u, v
<1>4. u \in Nat /\ v \in Nat /\ v >= 1 BY <1>3 DEF u, v
<1>5. u <= u * v BY <1>4
<1> QED BY <1>2, <1>5 DEF u, v
-----------------------------------------------------------------------------
(***************************************************************************)
(* Doublings, bases and rows of the tables.                                *)
(***************************************************************************)
(* Sums in the group, and multiples of a point as remainders.              *)
LEMMA Sums ==
  ASSUME NEW x \in Int, NEW y \in Int
  PROVE  /\ Order \in Nat \ {0} /\ x % Order \in Point /\ None \in Point
         /\ add_affine(x % Order, y % Order) = (x + y) % Order
         /\ neg_affine(x % Order) = (-x) % Order
<1>1. Order \in Nat \ {0} BY ScaffoldAssumption
<1>2. x % Order \in Point /\ y % Order \in Point /\ None \in Point BY <1>1, DivMod DEF Point, None
<1>3. x % Order \in Int /\ y % Order \in Int BY <1>1, <1>2 DEF Point
<1>4. ((x % Order) + (y % Order)) % Order = (x + y) % Order
  <2>1. ((x % Order) + (y % Order)) % Order = (x + (y % Order)) % Order BY <1>1, <1>3, ModAdd
  <2> QED BY <2>1, <1>1, ModAdd
<1>5. (-(x % Order)) % Order = (-x) % Order
  <2>3. -1 \in Int OBVIOUS
  <2>1. ((-1) * (x % Order)) % Order = ((-1) * x) % Order BY <1>1, <2>3, ModMul, Zenon
  <2>2. (-1) * (x % Order) = -(x % Order) /\ (-1) * x = -x BY <1>3
  <2> QED BY <2>1, <2>2
<1> QED BY <1>1, <1>2, <1>4, <1>5 DEF add_affine, neg_affine

(* A point is its own remainder.                                           *)
LEMMA PointIsRemainder == ASSUME NEW p \in Point PROVE p \in Nat /\ p % Order = p
BY ScaffoldAssumption, ModSmall DEF Point

(* n doublings shift the multiple by n.                                    *)
LEMMA DoubledIs ==
  ASSUME NEW p \in Point, NEW n \in Nat
  PROVE  Doubled(p, n) = (p * Pow2(n)) % Order
<1> DEFINE Doubles(q) == q = [i \in 0 .. n |-> IF i = 0 THEN p ELSE add_affine(q[i - 1], q[i - 1])]
           v == [i \in 0 .. n |-> (p * Pow2(i)) % Order]
           d == CHOOSE q : Doubles(q)
<1>1. p \in Nat /\ p % Order = p BY PointIsRemainder
<1>2. ASSUME NEW i \in 0 .. n PROVE v[i] = IF i = 0 THEN p ELSE add_affine(v[i - 1], v[i - 1])
  <2>1. CASE i = 0
    <3>1. p * Pow2(0) = p BY <1>1, PowersOfTwo
    <3> QED BY <2>1, <3>1, <1>1
  <2>2. CASE i # 0
    <3>1. i - 1 \in 0 .. n /\ i - 1 \in Nat /\ (i - 1) + 1 = i BY <2>2
    <3>2. Pow2(i) = 2 * Pow2(i - 1) /\ Pow2(i - 1) \in Nat BY <3>1, PowersOfTwo
    <3> DEFINE x == p * Pow2(i - 1)
    <3>3. x \in Int /\ p * Pow2(i) = x + x BY <3>2, <1>1
    <3>4. v[i - 1] = x % Order /\ v[i] = (p * Pow2(i)) % Order BY <3>1
    <3> HIDE DEF x, v
    <3>5. add_affine(x % Order, x % Order) = (x + x) % Order BY <3>3, Sums
    <3> QED BY <2>2, <3>3, <3>4, <3>5
  <2> QED BY <2>1, <2>2
<1>3. Doubles(d)
  <2>1. v = [i \in 0 .. n |-> v[i]] OBVIOUS
  <2> HIDE DEF v
  <2>2. Doubles(v) BY <2>1, <1>2
  <2> QED BY <2>2
<1>4. Doubled(p, n) = d[n] BY DEF Doubled
<1> HIDE DEF d
<1>5. ASSUME NEW i \in 0 .. n PROVE d[i] = IF i = 0 THEN p ELSE add_affine(d[i - 1], d[i - 1])
  BY <1>3
<1>6. v[n] = (p * Pow2(n)) % Order OBVIOUS
<1> HIDE DEF v, Doubles
<1>7. \A i \in 0 .. n : d[i] = v[i]
  <2>1. ASSUME NEW i \in 1 .. n, d[i - 1] = v[i - 1] PROVE d[i] = v[i]
    <3>1. i \in 0 .. n /\ i # 0 OBVIOUS
    <3> QED BY <2>1, <3>1, <1>2, <1>5
  <2>2. d[0] = v[0] BY <1>2, <1>5
  <2> QED BY <2>1, <2>2, SameRecursion
<1> QED BY <1>4, <1>6, <1>7

(* The bases of the windows: each is Pow2(width) times the one before.     *)
LEMMA BasesAre ==
  ASSUME NEW base \in Point, NEW width \in Nat, NEW idx \in 0 .. Windows - 1
  PROVE  /\ window_bases(base, width)[idx] = (base * Pow2(width * idx)) % Order
         /\ window_bases(base, width)[idx] \in Point
<1> DEFINE n == Windows - 1
           Bases(q) == q = [i \in 0 .. Windows - 1 |-> IF i = 0 THEN base ELSE Doubled(q[i - 1], width)]
           v == [i \in 0 .. Windows - 1 |-> (base * Pow2(width * i)) % Order]
           d == CHOOSE q : Bases(q)
<1>1. base \in Nat /\ base % Order = base /\ n \in Nat
  <2>1. Windows \in Nat BY ScaffoldAssumption
  <2> QED BY <2>1, PointIsRemainder
<1>2. ASSUME NEW i \in 0 .. n PROVE v[i] = IF i = 0 THEN base ELSE Doubled(v[i - 1], width)
  <2>1. CASE i = 0
    <3>1. width * 0 = 0 OBVIOUS
    <3>2. base * Pow2(width * 0) = base BY <3>1, <1>1, PowersOfTwo
    <3> QED BY <2>1, <3>2, <1>1
  <2>2. CASE i # 0
    <3>1. i - 1 \in 0 .. n /\ i - 1 \in Nat BY <2>2, <1>1
    <3>2. width * (i - 1) \in Nat /\ width * (i - 1) + width = width * i BY <3>1
    <3>3. Pow2(width * i) = Pow2(width * (i - 1)) * Pow2(width) BY <3>2, PowerSum
    <3> DEFINE x == base * Pow2(width * (i - 1))
               y == Pow2(width)
               z == Pow2(width * (i - 1))
    <3>4. y \in Nat /\ z \in Nat BY <3>2, PowersOfTwo
    <3>5. v[i - 1] = x % Order /\ v[i] = (base * Pow2(width * i)) % Order BY <3>1
    <3>6. x = base * z OBVIOUS
    <3> HIDE DEF x, v, y, z
    <3>7. x \in Int /\ base * (z * y) = y * x BY <3>4, <3>6, <1>1
    <3>8. x % Order \in Point /\ Order \in Nat \ {0} BY <3>7, Sums
    <3>9. Doubled(x % Order, width) = ((x % Order) * y) % Order BY <3>8, DoubledIs DEF y
    <3>10. (x % Order) * y = y * (x % Order) BY <3>4, <3>8 DEF Point
    <3>11. (y * (x % Order)) % Order = (y * x) % Order
      <4>1. y \in Int BY <3>4
      <4> QED BY <4>1, <3>7, <3>8, ModMul, Zenon
    <3>12. base * Pow2(width * i) = y * x BY <3>3, <3>7 DEF y, z
    <3> QED BY <2>2, <3>5, <3>9, <3>10, <3>11, <3>12
  <2> QED BY <2>1, <2>2
<1>3. Bases(d)
  <2>1. v = [i \in 0 .. Windows - 1 |-> v[i]] OBVIOUS
  <2> HIDE DEF v
  <2>2. Bases(v) BY <2>1, <1>2
  <2> QED BY <2>2
<1>4. window_bases(base, width) = d BY DEF window_bases
<1> HIDE DEF d
<1>5. ASSUME NEW i \in 0 .. n PROVE d[i] = IF i = 0 THEN base ELSE Doubled(d[i - 1], width)
  BY <1>3
<1>6. v[idx] = (base * Pow2(width * idx)) % Order /\ idx \in 0 .. n OBVIOUS
<1> HIDE DEF v, Bases, n
<1>7. \A i \in 0 .. n : d[i] = v[i]
  <2>1. ASSUME NEW i \in 1 .. n, d[i - 1] = v[i - 1] PROVE d[i] = v[i]
    <3>1. i \in 0 .. n /\ i # 0 BY <1>1
    <3> QED BY <2>1, <3>1, <1>2, <1>5
  <2>2. d[0] = v[0] BY <1>1, <1>2, <1>5
  <2>3. n \in Nat BY <1>1
  <2> QED BY <2>1, <2>2, <2>3, SameRecursion
<1>8. (base * Pow2(width * idx)) % Order \in Point
  <2>1. width * idx \in Nat BY <1>6
  <2>2. base * Pow2(width * idx) \in Int BY <2>1, <1>1, PowersOfTwo
  <2> QED BY <2>2, Sums
<1> QED BY <1>4, <1>6, <1>7, <1>8

(* A row of the tables.                                                    *)
LEMMA MultiplesAre ==
  ASSUME NEW base \in Point, NEW max \in Nat, NEW k \in 0 .. max
  PROVE  Multiples(base, max)[k] = (k * base) % Order
<1> DEFINE Row(q) == q = [i \in 0 .. max |-> IF i = 0 THEN None
                                             ELSE IF i = 1 THEN base ELSE add_affine(q[i - 1], base)]
           v == [i \in 0 .. max |-> (i * base) % Order]
           d == CHOOSE q : Row(q)
<1>1. base \in Nat /\ base % Order = base BY PointIsRemainder
<1>2. ASSUME NEW i \in 0 .. max
      PROVE  v[i] = IF i = 0 THEN None ELSE IF i = 1 THEN base ELSE add_affine(v[i - 1], base)
  <2>1. CASE i = 0
    <3>1. 0 * base = 0 /\ 0 % Order = 0 BY <1>1, ScaffoldAssumption, ModSmall
    <3> QED BY <2>1, <3>1 DEF None
  <2>2. CASE i = 1
    <3>1. 1 * base = base BY <1>1
    <3> QED BY <2>2, <3>1, <1>1
  <2>3. CASE i \notin {0, 1}
    <3>1. i - 1 \in 0 .. max BY <2>3
    <3> DEFINE x == (i - 1) * base
    <3>2. x \in Int /\ i * base = x + base BY <1>1, <3>1
    <3>3. v[i - 1] = x % Order /\ v[i] = (i * base) % Order BY <3>1
    <3> HIDE DEF x, v
    <3>4. add_affine(x % Order, base % Order) = (x + base) % Order BY <1>1, <3>2, Sums
    <3> QED BY <2>3, <3>2, <3>3, <3>4, <1>1
  <2> QED BY <2>1, <2>2, <2>3
<1>3. Row(d)
  <2>1. v = [i \in 0 .. max |-> v[i]] OBVIOUS
  <2> HIDE DEF v
  <2>2. Row(v) BY <2>1, <1>2
  <2> QED BY <2>2
<1>4. Multiples(base, max) = d BY DEF Multiples
<1> HIDE DEF d
<1>5. ASSUME NEW i \in 0 .. max
      PROVE  d[i] = IF i = 0 THEN None ELSE IF i = 1 THEN base ELSE add_affine(d[i - 1], base)
  BY <1>3
<1>6. v[k] = (k * base) % Order OBVIOUS
<1> HIDE DEF v, Row
<1>7. \A i \in 0 .. max : d[i] = v[i]
  <2>1. ASSUME NEW i \in 1 .. max, d[i - 1] = v[i - 1] PROVE d[i] = v[i]
    <3>1. i \in 0 .. max /\ i # 0 OBVIOUS
    <3> QED BY <2>1, <3>1, <1>2, <1>5
  <2>2. d[0] = v[0] BY <1>2, <1>5
  <2> QED BY <2>1, <2>2, SameRecursion
<1> QED BY <1>4, <1>6, <1>7
-----------------------------------------------------------------------------
(***************************************************************************)
(* The loops over the digits of a scalar.                                  *)
(***************************************************************************)
(* Both loops over a scalar, in its lowest digit to the base c: what is    *)
(* left of it times the point, and the sum, are what they were.            *)
Digested(s, c) == <<s[1] \div c, (c * s[2]) % Order, (s[3] + (s[1] % c) * s[2]) % Order>>
Value(s) == (s[3] + s[1] * s[2]) % Order

(* A remainder may be taken of the parts first.                            *)
LEMMA Remainders ==
  ASSUME NEW x \in Int, NEW y \in Int, NEW q \in Int
  PROVE  ((y % Order) + q * (x % Order)) % Order = (y + q * x) % Order
<1> DEFINE z == q * (x % Order)
           u == q * x
<1>1. Order \in Nat \ {0} BY ScaffoldAssumption
<1>2. x % Order \in Int BY <1>1, DivMod
<1>3. z \in Int /\ u \in Int BY <1>2
<1>4. z % Order = u % Order BY <1>1, ModMul, Zenon
<1> HIDE DEF z, u
<1>5. ((y % Order) + z) % Order = (y + z) % Order BY <1>1, <1>3, ModAdd
<1>6. (y + z) % Order = (y + (z % Order)) % Order BY <1>1, <1>3, ModAdd
<1>7. (y + (u % Order)) % Order = (y + u) % Order BY <1>1, <1>3, ModAdd
<1> QED BY <1>4, <1>5, <1>6, <1>7 DEF z, u

(* A round of the loop shortens the scalar and keeps the value.            *)
LEMMA DigestedKeeps ==
  ASSUME NEW c \in Nat, c >= 2, NEW s \in Loop, s[1] # 0
  PROVE  Digested(s, c) \in Loop /\ Digested(s, c)[1] < s[1] /\ Value(Digested(s, c)) = Value(s)
<1> DEFINE M == Pow2(WordBits * Windows)
           n == s[1]
           p == s[2]
           r == s[3]
           q == n \div c
           d == n % c
<1>1. n \in 1 .. M /\ M \in Nat /\ p \in Point /\ r \in Point
  <2>1. WordBits * Windows \in Nat BY ScaffoldAssumption
  <2>2. M \in Nat BY <2>1, PowersOfTwo
  <2> HIDE DEF M
  <2>3. n \in 0 .. M /\ p \in Point /\ r \in Point BY DEF Loop, M
  <2> QED BY <2>2, <2>3
<1>2. p \in Nat /\ r \in Nat /\ n \in Nat /\ c \in Nat \ {0} BY <1>1, PointIsRemainder
<1> HIDE DEF M, n, p, r
<1>3. q \in Nat /\ d \in 0 .. c - 1 /\ n = c * q + d
  <2>1. n \in Int BY <1>2
  <2> QED BY <1>2, <2>1, DivMod
<1> HIDE DEF q, d
<1>4. q < n
  <2> SUFFICES ASSUME n <= q PROVE FALSE BY <1>2, <1>3
  <2>1. c * q >= 2 * q BY <1>3
  <2> QED BY <2>1, <1>1, <1>2, <1>3
<1>5. Order \in Nat \ {0} BY ScaffoldAssumption
<1>6. c * p \in Int /\ d * p \in Int /\ r + d * p \in Int BY <1>2, <1>3
<1>7. (c * p) % Order \in Point /\ (r + d * p) % Order \in Point
  <2> DEFINE x == c * p
             y == r + d * p
  <2>1. x \in Int /\ y \in Int BY <1>6
  <2> HIDE DEF x, y
  <2>2. x % Order \in Point /\ y % Order \in Point BY <2>1, Sums
  <2> QED BY <2>2 DEF x, y
<1>8. Digested(s, c) = <<q, (c * p) % Order, (r + d * p) % Order>> BY DEF Digested, n, p, r, q, d
<1>9. q \in 0 .. M BY <1>1, <1>3, <1>4
<1>10. Digested(s, c) \in Loop BY <1>7, <1>8, <1>9 DEF Loop, M
<1>11. (((r + d * p) % Order) + q * ((c * p) % Order)) % Order = (r + n * p) % Order
  <2>1. q \in Int BY <1>3
  <2>2. (((r + d * p) % Order) + q * ((c * p) % Order)) % Order = ((r + d * p) + q * (c * p)) % Order
    BY <2>1, <1>6, Remainders, Zenon
  <2>3. n * p = (c * q) * p + d * p BY <1>2, <1>3
  <2>4. (c * q) * p = q * (c * p) BY <1>2, <1>3
  <2>5. (r + d * p) + q * (c * p) = r + n * p
    <3> DEFINE x == d * p
               y == q * (c * p)
    <3>1. x \in Int /\ y \in Int BY <1>6, <2>1
    <3>2. n * p = y + x BY <2>3, <2>4
    <3> HIDE DEF x, y
    <3>3. (r + x) + y = r + n * p BY <1>2, <3>1, <3>2
    <3> QED BY <3>3 DEF x, y
  <2> QED BY <2>2, <2>5
<1>12. Value(Digested(s, c)) = Value(s) BY <1>8, <1>11 DEF Value, n, p, r
<1> QED BY <1>4, <1>8, <1>10, <1>12 DEF n

(* A function that satisfies the recursion of the loop yields the value.   *)
LEMMA LoopIs ==
  ASSUME NEW c \in Nat, c >= 2, NEW l,
         \A s \in Loop : l[s] = IF s[1] = 0 THEN s[3] ELSE l[Digested(s, c)]
  PROVE  \A s \in Loop : l[s] = Value(s)
<1> DEFINE S == {n \in Nat : \A s \in Loop : s[1] = n => l[s] = Value(s)}
<1>1. ASSUME NEW n \in Nat, \A m \in 0 .. n - 1 : m \in S PROVE n \in S
  <2> SUFFICES ASSUME NEW s \in Loop, s[1] = n PROVE l[s] = Value(s) OBVIOUS
  <2>1. s[2] \in Point /\ s[3] \in Point BY DEF Loop
  <2>2. CASE n = 0
    <3>1. s[3] + 0 * s[2] = s[3] /\ s[3] % Order = s[3] BY <2>1, PointIsRemainder
    <3>2. Value(s) = s[3] BY <2>2, <3>1 DEF Value
    <3> QED BY <2>2, <3>2
  <2>3. CASE n # 0
    <3> DEFINE t == Digested(s, c)
    <3>1. t \in Loop /\ t[1] < n /\ Value(t) = Value(s) BY <2>3, DigestedKeeps
    <3>2. t[1] \in Nat BY <3>1 DEF Loop
    <3>3. l[s] = l[t] BY <2>3
    <3> HIDE DEF t
    <3>4. t[1] \in 0 .. n - 1 BY <3>1, <3>2
    <3>5. l[t] = Value(t) BY <1>1, <3>1, <3>4
    <3> QED BY <3>1, <3>3, <3>5
  <2> QED BY <2>2, <2>3
<1> HIDE DEF S
<1>2. Nat \subseteq S BY <1>1, StrongInduction
<1>3. \A s \in Loop : s[1] \in Nat BY DEF Loop
<1> QED BY <1>2, <1>3 DEF S

(* What is the value before is so after, hence there is such a loop.       *)
LEMMA LoopExists ==
  ASSUME NEW c \in Nat, c >= 2
  PROVE  \A s \in Loop : Value(s) = IF s[1] = 0 THEN s[3] ELSE Value(Digested(s, c))
<1> SUFFICES ASSUME NEW s \in Loop
             PROVE  Value(s) = IF s[1] = 0 THEN s[3] ELSE Value(Digested(s, c))
  OBVIOUS
<1>1. s[2] \in Point /\ s[3] \in Point BY DEF Loop
<1>2. CASE s[1] = 0
  <2>1. s[3] + 0 * s[2] = s[3] /\ s[3] % Order = s[3] BY <1>1, PointIsRemainder
  <2> QED BY <1>2, <2>1 DEF Value
<1>3. CASE s[1] # 0 BY <1>3, DigestedKeeps
<1> QED BY <1>2, <1>3

(* mul_affine is multiplication, for every scalar the loop covers.         *)
LEMMA MulAffineIs ==
  ASSUME NEW k \in 0 .. Pow2(WordBits * Windows), NEW p \in Point
  PROVE  mul_affine(k, p) = (k * p) % Order
<1> DEFINE Next2(s) == <<s[1] \div 2, add_affine(s[2], s[2]),
                         IF s[1] % 2 = 1 THEN add_affine(s[3], s[2]) ELSE s[3]>>
           Loops(l) == l = [s \in Loop |-> IF s[1] = 0 THEN s[3] ELSE l[Next2(s)]]
           v == [s \in Loop |-> Value(s)]
           l0 == CHOOSE l : Loops(l)
<1>1. ASSUME NEW s \in Loop PROVE Next2(s) = Digested(s, 2)
  <2> DEFINE n == s[1]
             q == s[2]
             r == s[3]
  <2>1. n \in Nat /\ q \in Point /\ r \in Point BY DEF Loop
  <2>2. q \in Nat /\ q % Order = q /\ r \in Nat /\ r % Order = r BY <2>1, PointIsRemainder
  <2> HIDE DEF n, q, r
  <2>3. n % 2 \in 0 .. 1 BY <2>1, DivMod
  <2>4. add_affine(q % Order, q % Order) = (q + q) % Order /\ q + q = 2 * q BY <2>2, Sums
  <2>5. (IF n % 2 = 1 THEN add_affine(r, q) ELSE r) = (r + (n % 2) * q) % Order
    <3>1. CASE n % 2 = 1
      <4>1. add_affine(r % Order, q % Order) = (r + q) % Order BY <2>2, Sums
      <4>2. r + 1 * q = r + q BY <2>2
      <4> QED BY <3>1, <4>1, <4>2, <2>2
    <3>2. CASE n % 2 = 0
      <4>1. r + 0 * q = r BY <2>2
      <4> QED BY <3>2, <4>1, <2>2
    <3> QED BY <3>1, <3>2, <2>3
  <2> QED BY <2>2, <2>4, <2>5 DEF Digested, n, q, r
<1> HIDE DEF Next2
<1>2. Loops(l0)
  <2>1. ASSUME NEW s \in Loop, s[1] # 0 PROVE Digested(s, 2) \in Loop
    BY <2>1, DigestedKeeps
  <2>2. \A s \in Loop : v[s] = IF s[1] = 0 THEN s[3] ELSE v[Next2(s)]
    <3>1. \A s \in Loop : Value(s) = IF s[1] = 0 THEN s[3] ELSE Value(Digested(s, 2))
      BY LoopExists
    <3> QED BY <3>1, <2>1, <1>1
  <2>3. v = [s \in Loop |-> v[s]] OBVIOUS
  <2> HIDE DEF v
  <2>4. Loops(v) BY <2>2, <2>3
  <2> QED BY <2>4
<1>3. mul_affine(k, p) = l0[<<k, p, None>>] BY DEF mul_affine, Next2
<1> HIDE DEF l0
<1>4. \A s \in Loop : l0[s] = IF s[1] = 0 THEN s[3] ELSE l0[Digested(s, 2)]
  BY <1>1, <1>2
<1>5. \A s \in Loop : l0[s] = Value(s) BY <1>4, LoopIs
<1>6. None \in Point /\ p \in Nat /\ k \in Nat
  <2>1. 0 \in Int OBVIOUS
  <2> QED BY <2>1, Sums, PointIsRemainder
<1>7. <<k, p, None>> \in Loop BY <1>6 DEF Loop
<1>8. Value(<<k, p, None>>) = (k * p) % Order
  <2>1. 0 + k * p = k * p BY <1>6
  <2> QED BY <2>1 DEF Value, None
<1> QED BY <1>3, <1>5, <1>7, <1>8

(* mul_fixed_window is multiplication, for every scalar and width.         *)
LEMMA MulWindowIs ==
  ASSUME NEW k \in Nat, NEW p \in Point, NEW width \in Nat \ {0}
  PROVE  mul_fixed_window(k, p, width) = (k * p) % Order
<1> DEFINE c == Pow2(width)
           NextW(s) == <<s[1] \div Pow2(width), Doubled(s[2], width),
                         IF s[1] % Pow2(width) = 0 THEN s[3]
                         ELSE add_affine(s[3], Multiples(s[2], Pow2(width) - 1)[s[1] % Pow2(width)])>>
           Loops(l) == l = [s \in Loop |-> IF s[1] = 0 THEN s[3] ELSE l[NextW(s)]]
           v == [s \in Loop |-> Value(s)]
           l0 == CHOOSE l : Loops(l)
<1>1. c \in Nat /\ c >= 2
  <2>1. width - 1 \in Nat /\ (width - 1) + 1 = width OBVIOUS
  <2>2. Pow2(width) = 2 * Pow2(width - 1) /\ Pow2(width - 1) \in Nat \ {0} BY <2>1, PowersOfTwo
  <2> QED BY <2>2
<1>2. ASSUME NEW s \in Loop PROVE NextW(s) = Digested(s, c)
  <2> DEFINE n == s[1]
             q == s[2]
             r == s[3]
             d == n % c
  <2>1. n \in Nat /\ q \in Point /\ r \in Point BY DEF Loop
  <2>2. q \in Nat /\ q % Order = q /\ r \in Nat /\ r % Order = r BY <2>1, PointIsRemainder
  <2>3. NextW(s) = <<n \div c, Doubled(q, width),
                     IF d = 0 THEN r ELSE add_affine(r, Multiples(q, c - 1)[d])>>
    OBVIOUS
  <2>4. Digested(s, c) = <<n \div c, (c * q) % Order, (r + d * q) % Order>> BY DEF Digested
  <2>5. Doubled(q, width) = (q * c) % Order BY <2>1, DoubledIs
  <2> HIDE DEF n, q, r, c, NextW
  <2>6. d \in 0 .. c - 1 /\ c - 1 \in Nat
    <3>1. n \in Int /\ c \in Nat \ {0} BY <1>1, <2>1
    <3> QED BY <3>1, DivMod
  <2> HIDE DEF d
  <2>7. q * c = c * q BY <1>1, <2>2
  <2>8. (IF d = 0 THEN r ELSE add_affine(r, Multiples(q, c - 1)[d])) = (r + d * q) % Order
    <3>1. CASE d = 0
      <4>1. r + 0 * q = r BY <2>2
      <4> QED BY <3>1, <4>1, <2>2
    <3>2. CASE d # 0
      <4>1. Multiples(q, c - 1)[d] = (d * q) % Order BY <2>1, <2>6, MultiplesAre
      <4> DEFINE x == d * q
      <4>2. x \in Int /\ r \in Int BY <2>2, <2>6
      <4> HIDE DEF x
      <4>3. add_affine(r % Order, x % Order) = (r + x) % Order BY <4>2, Sums
      <4> QED BY <3>2, <4>1, <4>3, <2>2 DEF x
    <3> QED BY <3>1, <3>2
  <2> QED BY <2>3, <2>4, <2>5, <2>7, <2>8
<1> HIDE DEF NextW, c
<1>3. Loops(l0)
  <2>1. ASSUME NEW s \in Loop, s[1] # 0 PROVE Digested(s, c) \in Loop
    BY <2>1, <1>1, DigestedKeeps
  <2>2. \A s \in Loop : v[s] = IF s[1] = 0 THEN s[3] ELSE v[NextW(s)]
    <3>1. \A s \in Loop : Value(s) = IF s[1] = 0 THEN s[3] ELSE Value(Digested(s, c))
      BY <1>1, LoopExists
    <3> QED BY <3>1, <2>1, <1>2
  <2>3. v = [s \in Loop |-> v[s]] OBVIOUS
  <2> HIDE DEF v
  <2>4. Loops(v) BY <2>2, <2>3
  <2> QED BY <2>4
<1> DEFINE kk == k % Order
<1>4. kk \in 0 .. Order - 1 /\ kk \in Nat /\ Order \in Nat \ {0}
  <2>1. k \in Int /\ Order \in Nat \ {0} BY ScaffoldAssumption
  <2>2. kk \in 0 .. Order - 1 BY <2>1, DivMod
  <2> QED BY <2>1, <2>2
<1>5. mul_fixed_window(k, p, width) = l0[<<kk, p, None>>] BY DEF mul_fixed_window, NextW
<1> HIDE DEF l0, kk
<1>6. \A s \in Loop : l0[s] = IF s[1] = 0 THEN s[3] ELSE l0[Digested(s, c)]
  BY <1>2, <1>3
<1>7. \A s \in Loop : l0[s] = Value(s) BY <1>1, <1>6, LoopIs
<1>8. None \in Point /\ p \in Nat
  <2>1. 0 \in Int OBVIOUS
  <2> QED BY <2>1, Sums, PointIsRemainder
<1>9. kk \in 0 .. Pow2(WordBits * Windows)
  <2>1. WordBits * Windows \in Nat BY ScaffoldAssumption
  <2>2. Pow2(WordBits * Windows) \in Nat BY <2>1, PowersOfTwo
  <2> QED BY <2>2, <1>4, ScaffoldAssumption
<1>10. <<kk, p, None>> \in Loop BY <1>8, <1>9 DEF Loop
<1>11. Value(<<kk, p, None>>) = (kk * p) % Order
  <2>1. 0 + kk * p = kk * p BY <1>4, <1>8
  <2> QED BY <2>1 DEF Value, None
<1>12. (kk * p) % Order = (k * p) % Order
  <2>1. k \in Int /\ p \in Int BY <1>8
  <2>2. (p * (k % Order)) % Order = (p * k) % Order BY <1>4, <2>1, ModMul, Zenon
  <2>3. p * (k % Order) = kk * p /\ p * k = k * p BY <1>4, <1>8 DEF kk
  <2> QED BY <2>2, <2>3
<1> QED BY <1>5, <1>7, <1>10, <1>11, <1>12
-----------------------------------------------------------------------------
(***************************************************************************)
(* Lookups.                                                                *)
(***************************************************************************)
(* The width of a word, and its upper half.                                *)
LEMMA Words ==
  /\ WordBits \in Nat \ {0} /\ WordBits \div 2 \in Nat \ {0}
  /\ Half \in Nat \ {0} /\ Pow2(WordBits) = 2 * Half
  /\ \A d \in Word : d \in 0 .. 2 * Half - 1
<1>1. WordBits \in Nat \ {0} /\ WordBits % 2 = 0 BY ScaffoldAssumption
<1>2. WordBits \div 2 \in Nat \ {0} BY <1>1
<1>3. WordBits - 1 \in Nat /\ (WordBits - 1) + 1 = WordBits BY <1>1
<1>4. Half \in Nat \ {0} /\ Pow2(WordBits) = 2 * Half BY <1>3, PowersOfTwo DEF Half
<1> QED BY <1>1, <1>2, <1>4 DEF Word

(* A point of a base is that multiple of what the base is a remainder of.  *)
LEMMA OfBase ==
  ASSUME NEW x \in Int, NEW k \in Int
  PROVE  (k * (x % Order)) % Order = (k * x) % Order
BY ScaffoldAssumption, ModMul, Zenon

(* compute_window_lookup: the word times the weight of its window.         *)
LEMMA ComputeLookupIs ==
  ASSUME NEW base \in Point, NEW idx \in 0 .. Windows - 1, NEW d \in Word
  PROVE  compute_window_lookup(window_bases(base, WordBits), idx, d)
           = (d * (base * Pow2(WordBits * idx))) % Order
<1> DEFINE x == base * Pow2(WordBits * idx)
           p == window_bases(base, WordBits)[idx]
<1>1. WordBits \in Nat \ {0} /\ Windows \in Nat \ {0} /\ idx \in Nat BY ScaffoldAssumption
<1>2. d \in Nat /\ d \in Int /\ d < Pow2(WordBits) BY Words DEF Word
<1>3. p = x % Order /\ p \in Point BY <1>1, BasesAre
<1>4. x \in Int
  <2>1. WordBits * idx \in Nat BY <1>1
  <2> QED BY <2>1, PowersOfTwo, PointIsRemainder
<1> HIDE DEF x
<1>5. (d * p) % Order = (d * x) % Order BY <1>2, <1>3, <1>4, OfBase, Zenon
<1>6. CASE d = 0
  <2>1. 0 * x = 0 /\ 0 % Order = 0 BY <1>4, ScaffoldAssumption, ModSmall
  <2> QED BY <1>6, <2>1 DEF compute_window_lookup, None, x
<1>7. CASE d # 0
  <2>1. WordBits * Windows \in Nat /\ WordBits <= WordBits * Windows BY <1>1
  <2>2. Pow2(WordBits) <= Pow2(WordBits * Windows) BY <1>1, <2>1, PowersGrow
  <2>3. Pow2(WordBits) \in Nat /\ Pow2(WordBits * Windows) \in Nat BY <1>1, <2>1, PowersOfTwo
  <2>4. d \in 0 .. Pow2(WordBits * Windows) BY <1>2, <2>2, <2>3
  <2>5. compute_window_lookup(window_bases(base, WordBits), idx, d) = mul_affine(d, p)
    BY <1>7 DEF compute_window_lookup
  <2> HIDE DEF p
  <2>6. mul_affine(d, p) = (d * p) % Order BY <2>4, <1>3, MulAffineIs
  <2> QED BY <2>5, <2>6, <1>5 DEF x
<1> QED BY <1>6, <1>7

(* _lookup_from_precomputed: the same, through tables of half a word.      *)
LEMMA PrecomputedLookupIs ==
  ASSUME NEW base \in Point, NEW idx \in 0 .. Windows - 1, NEW d \in Word
  PROVE  _lookup_from_precomputed(window_bases(base, WordBits), idx, d)
           = (d * (base * Pow2(WordBits * idx))) % Order
<1> DEFINE x == base * Pow2(WordBits * idx)
           p == window_bases(base, WordBits)[idx]
<1>1. WordBits \in Nat \ {0} /\ WordBits \div 2 \in Nat \ {0} /\ idx \in Nat
  BY Words, ScaffoldAssumption
<1>2. d \in Nat /\ d \in Int BY Words DEF Word
<1>3. p = x % Order /\ p \in Point BY <1>1, BasesAre
<1>4. x \in Int
  <2>1. WordBits * idx \in Nat BY <1>1
  <2> QED BY <2>1, PowersOfTwo, PointIsRemainder
<1> HIDE DEF x
<1>5. (d * p) % Order = (d * x) % Order BY <1>2, <1>3, <1>4, OfBase, Zenon
<1>6. CASE d = 0
  <2>1. 0 * x = 0 /\ 0 % Order = 0 BY <1>4, ScaffoldAssumption, ModSmall
  <2> QED BY <1>6, <2>1 DEF _lookup_from_precomputed, None, x
<1>7. CASE d # 0
  <2>1. _lookup_from_precomputed(window_bases(base, WordBits), idx, d)
          = mul_fixed_window(d, p, WordBits \div 2)
    BY <1>7 DEF _lookup_from_precomputed
  <2> HIDE DEF p
  <2>2. mul_fixed_window(d, p, WordBits \div 2) = (d * p) % Order BY <1>1, <1>2, <1>3, MulWindowIs
  <2> QED BY <2>1, <2>2, <1>5 DEF x
<1> QED BY <1>6, <1>7

(* The folded contract counts a word from Half on as that word less the    *)
(* power of two above it.                                                  *)
LEMMA ContractLookupIs ==
  ASSUME NEW base \in Point, NEW idx \in 0 .. Windows - 1, NEW d \in Word
  PROVE  contract_lookup_point(window_bases(base, WordBits), idx, d)
           = (signed_i16(d) * (base * Pow2(WordBits * idx))) % Order
<1> DEFINE x == base * Pow2(WordBits * idx)
           p == window_bases(base, WordBits)[idx]
           row == Multiples(p, Half - 1)
           table == build_positive_table(p)
<1>1. WordBits \in Nat \ {0} /\ Half \in Nat \ {0} /\ Pow2(WordBits) = 2 * Half
      /\ d \in 0 .. 2 * Half - 1 /\ idx \in Nat
  BY Words
<1>2. p = x % Order /\ p \in Point BY <1>1, BasesAre
<1>3. x \in Int
  <2>1. WordBits * idx \in Nat BY <1>1
  <2> QED BY <2>1, PowersOfTwo, PointIsRemainder
<1>4. contract_lookup_point(window_bases(base, WordBits), idx, d)
        = CASE d = Half -> neg_affine(table.special_pos)
            [] d < Half -> table.cache[magnitude(d)]
            [] OTHER    -> neg_affine(table.cache[magnitude(d)])
  BY DEF contract_lookup_point
<1>5. table.cache = row /\ table.special_pos = add_affine(row[Half - 1], p)
  BY DEF build_positive_table
<1> HIDE DEF x, p, table
<1>6. p \in Nat /\ p % Order = p BY <1>2, PointIsRemainder
<1>7. \A k \in 0 .. Half - 1 : row[k] = (k * p) % Order BY <1>1, <1>2, MultiplesAre
<1> HIDE DEF row
<1>8. signed_i16(d) \in Int /\ signed_i16(d) = IF d >= Half THEN d - 2 * Half ELSE d
  BY <1>1 DEF signed_i16
<1>9. (signed_i16(d) * p) % Order = (signed_i16(d) * x) % Order
  BY <1>2, <1>3, <1>8, OfBase, Zenon
<1>10. CASE d = Half
  <2> DEFINE y == (Half - 1) * p
  <2>1. y \in Int /\ p \in Int /\ row[Half - 1] = y % Order BY <1>1, <1>6, <1>7
  <2>2. y + p = Half * p /\ Half * p \in Int BY <1>1, <1>6
  <2>3. -(Half * p) = signed_i16(d) * p BY <1>1, <1>6, <1>8, <1>10
  <2> HIDE DEF y
  <2>4. add_affine(y % Order, p % Order) = (y + p) % Order BY <2>1, Sums
  <2>5. table.special_pos = (Half * p) % Order BY <1>5, <1>6, <2>1, <2>2, <2>4
  <2>6. neg_affine((Half * p) % Order) = (-(Half * p)) % Order BY <2>2, Sums
  <2>7. ~(d < Half) BY <1>1, <1>10
  <2>8. contract_lookup_point(window_bases(base, WordBits), idx, d) = neg_affine(table.special_pos)
    BY <1>4, <1>10, <2>7
  <2> QED BY <1>9, <2>3, <2>5, <2>6, <2>8 DEF x
<1>11. CASE d < Half
  <2>1. signed_i16(d) = d /\ magnitude(d) = d BY <1>1, <1>8, <1>11 DEF magnitude
  <2>2. row[d] = (d * p) % Order BY <1>1, <1>7, <1>11
  <2> QED BY <1>1, <1>4, <1>5, <1>9, <1>11, <2>1, <2>2 DEF x
<1>12. CASE d > Half
  <2>1. signed_i16(d) = d - 2 * Half /\ magnitude(d) = 2 * Half - d
    BY <1>1, <1>8, <1>12 DEF magnitude
  <2> DEFINE k == 2 * Half - d
  <2>2. k \in 0 .. Half - 1 BY <1>1, <1>12
  <2>3. row[k] = (k * p) % Order BY <2>2, <1>7
  <2>4. k * p \in Int /\ -(k * p) = signed_i16(d) * p
    <3>1. signed_i16(d) = -k BY <2>1, <1>1
    <3> HIDE DEF k
    <3>2. -(k * p) = (-k) * p /\ k * p \in Int BY <2>2, <1>1, <1>6
    <3> QED BY <3>1, <3>2
  <2>5. neg_affine((k * p) % Order) = (-(k * p)) % Order BY <2>4, Sums
  <2> HIDE DEF k
  <2>6. d # Half /\ ~(d < Half) BY <1>1, <1>12
  <2>7. magnitude(d) = k BY <2>1 DEF k
  <2>8. contract_lookup_point(window_bases(base, WordBits), idx, d) = neg_affine(row[k])
    BY <1>4, <1>5, <2>6, <2>7
  <2> QED BY <1>9, <2>3, <2>4, <2>5, <2>8 DEF x
<1> QED BY <1>1, <1>10, <1>11, <1>12

(* A word as a replay counts it.                                           *)
Counted(r, d) == IF r = "flat_folded" THEN signed_i16(d) ELSE d

(* Every lookup: the word, as the replay counts it, times the weight of    *)
(* the window, times the public point of its base.                         *)
LEMMA LookupIs ==
  ASSUME NEW r \in Replays, NEW base \in Point, NEW idx \in 0 .. Windows - 1, NEW d \in Word
  PROVE  Lookup(r, window_bases(base, WordBits), idx, d)
           = (Counted(r, d) * (base * Pow2(WordBits * idx))) % Order
<1>1. r \in {"scaffold_schedule", "raw32", "flat_folded"} BY ScaffoldAssumption
<1>2. CASE r = "scaffold_schedule" BY <1>2, ComputeLookupIs DEF Lookup, Counted
<1>3. CASE r = "raw32" BY <1>3, PrecomputedLookupIs DEF Lookup, Counted
<1>4. CASE r = "flat_folded" BY <1>4, ContractLookupIs DEF Lookup, Counted
<1> QED BY <1>1, <1>2, <1>3, <1>4
-----------------------------------------------------------------------------
(***************************************************************************)
(* The words of a scalar.                                                  *)
(***************************************************************************)
(* The words of a number: each is what the next power of two takes in.     *)
LEMMA DigitIs ==
  ASSUME NEW v \in Nat, NEW i \in Nat
  PROVE  /\ window_digit_u16(v, i) \in Word /\ window_digit_u16(v, i) \in Nat
         /\ v % Pow2(WordBits * (i + 1))
              = (v % Pow2(WordBits * i)) + Pow2(WordBits * i) * window_digit_u16(v, i)
         /\ v % Pow2(WordBits * i) \in Nat
<1> DEFINE m == Pow2(WordBits * i)
           k == Pow2(WordBits)
<1>1. WordBits \in Nat BY ScaffoldAssumption
<1>2. WordBits * i \in Nat /\ WordBits * (i + 1) = WordBits * i + WordBits BY <1>1
<1>3. Pow2(WordBits * (i + 1)) = m * k BY <1>1, <1>2, PowerSum
<1>4. m \in Nat \ {0} /\ k \in Nat \ {0} BY <1>1, <1>2, PowersOfTwo
<1>5. window_digit_u16(v, i) = (v \div m) % k BY DEF window_digit_u16
<1>6. Word = 0 .. k - 1 BY DEF Word
<1> HIDE DEF m, k
<1>7. v \in Int OBVIOUS
<1>8. v % (m * k) = (v % m) + m * ((v \div m) % k) BY <1>4, <1>7, ModProduct
<1>9. v \div m \in Int /\ v % m \in 0 .. m - 1 BY <1>4, <1>7, DivMod
<1>10. (v \div m) % k \in 0 .. k - 1 BY <1>4, <1>9, DivMod
<1> QED BY <1>3, <1>4, <1>5, <1>6, <1>8, <1>9, <1>10 DEF m

(* All the words of a scalar are the scalar, none of them nothing.         *)
LEMMA WholeScalar ==
  ASSUME NEW v \in 0 .. Order - 1
  PROVE  v \in Nat /\ v % Pow2(WordBits * Windows) = v /\ v % Pow2(WordBits * 0) = 0
<1>1. Order \in Nat \ {0} /\ WordBits * Windows \in Nat /\ WordBits * 0 = 0
      /\ Order <= Pow2(WordBits * Windows)
  BY ScaffoldAssumption
<1>2. Pow2(WordBits * Windows) \in Nat \ {0} BY <1>1, PowersOfTwo
<1>3. v \in 0 .. Pow2(WordBits * Windows) - 1 /\ v \in Nat /\ v \in Int BY <1>1, <1>2
<1>4. v % Pow2(WordBits * Windows) = v BY <1>2, <1>3, ModSmall
<1>5. v % 1 = 0
  <2>1. v % 1 \in 0 .. 1 - 1 BY <1>3, DivMod
  <2> QED BY <2>1
<1> QED BY <1>1, <1>3, <1>4, <1>5, PowersOfTwo

(* What the words below n borrow, word by word.                            *)
LEMMA BorrowedIs ==
  ASSUME NEW v \in Nat, NEW first \in Nat
  PROVE  /\ Borrowed(v, first, 0) = 0
         /\ \A n \in Nat :
              /\ Borrowed(v, first, n) \in Nat
              /\ Borrowed(v, first, n + 1)
                   = IF n + 1 <= first THEN 0 ELSE Borrowed(v, first, n) + Borrow(v, n)
<1> DEFINE Sum(n, f) == f = [i \in 0 .. n |-> IF i <= first THEN 0 ELSE f[i - 1] + Borrow(v, i - 1)]
           g(n) == CHOOSE f : Sum(n, f)
<1>1. ASSUME NEW i \in Nat PROVE Borrow(v, i) \in Nat
  <2>1. WordBits * (i + 1) \in Nat BY ScaffoldAssumption
  <2>2. Pow2(WordBits * (i + 1)) \in Nat BY <2>1, PowersOfTwo
  <2> QED BY <2>2 DEF Borrow
<1>2. ASSUME NEW n \in Nat
      PROVE  \E f \in [0 .. n -> Nat] : Sum(n, f)
  <2> DEFINE step == [s \in Nat \X Nat |-> IF s[1] <= first THEN 0 ELSE s[2] + Borrow(v, s[1] - 1)]
  <2>1. step \in [Nat \X Nat -> Nat]
    <3> SUFFICES ASSUME NEW s \in Nat \X Nat
                 PROVE  (IF s[1] <= first THEN 0 ELSE s[2] + Borrow(v, s[1] - 1)) \in Nat
      OBVIOUS
    <3>1. CASE s[1] <= first BY <3>1
    <3>2. CASE ~(s[1] <= first)
      <4>1. s[1] - 1 \in Nat BY <3>2
      <4>2. Borrow(v, s[1] - 1) \in Nat BY <4>1, <1>1
      <4> QED BY <3>2, <4>2
    <3> QED BY <3>1, <3>2
  <2>2. \A s \in Nat \X Nat : step[s] = IF s[1] <= first THEN 0 ELSE s[2] + Borrow(v, s[1] - 1)
    OBVIOUS
  <2> HIDE DEF step
  <2>3. PICK f \in [0 .. n -> Nat] : f[0] = 0 /\ \A i \in 1 .. n : f[i] = step[<<i, f[i - 1]>>]
    <3> DEFINE V == Nat
               e == 0
    <3>1. step \in [Nat \X V -> V] /\ e \in V BY <2>1
    <3> HIDE DEF V, e
    <3>2. \E f : Computes(f, n, V, e, step) BY <3>1, RecursionExists
    <3> QED BY <3>2 DEF V, e, Computes
  <2>4. ASSUME NEW i \in 0 .. n PROVE f[i] = IF i <= first THEN 0 ELSE f[i - 1] + Borrow(v, i - 1)
    <3>1. CASE i # 0
      <4>1. i \in 1 .. n /\ i - 1 \in 0 .. n /\ i \in Nat BY <3>1
      <4>2. <<i, f[i - 1]>> \in Nat \X Nat BY <4>1
      <4>3. f[i] = step[<<i, f[i - 1]>>] BY <4>1, <2>3
      <4> QED BY <4>2, <4>3, <2>2
    <3>2. CASE i = 0 BY <3>2, <2>3
    <3> QED BY <3>1, <3>2
  <2>5. f = [i \in 0 .. n |-> f[i]] OBVIOUS
  <2> QED BY <2>4, <2>5
<1>3. \A n \in Nat : Sum(n, g(n)) BY <1>2
<1>4. \A n \in Nat : Borrowed(v, first, n) = g(n)[n] BY DEF Borrowed
<1> HIDE DEF g
<1>5. ASSUME NEW n \in Nat, NEW i \in 0 .. n
      PROVE  g(n)[i] = IF i <= first THEN 0 ELSE g(n)[i - 1] + Borrow(v, i - 1)
  BY <1>3
<1> HIDE DEF Sum
<1>6. ASSUME NEW n \in Nat
      PROVE  Borrowed(v, first, n + 1)
               = IF n + 1 <= first THEN 0 ELSE Borrowed(v, first, n) + Borrow(v, n)
  <2>1. ASSUME NEW i \in 1 .. n, g(n + 1)[i - 1] = g(n)[i - 1] PROVE g(n + 1)[i] = g(n)[i]
    <3>1. i \in 0 .. n /\ i \in 0 .. n + 1 /\ n + 1 \in Nat OBVIOUS
    <3>2. g(n + 1)[i] = IF i <= first THEN 0 ELSE g(n + 1)[i - 1] + Borrow(v, i - 1)
      BY <3>1, <1>5
    <3>3. g(n)[i] = IF i <= first THEN 0 ELSE g(n)[i - 1] + Borrow(v, i - 1) BY <3>1, <1>5
    <3> QED BY <2>1, <3>2, <3>3
  <2>2. g(n + 1)[0] = g(n)[0]
    <3>1. g(n + 1)[0] = 0 /\ g(n)[0] = 0 BY <1>5
    <3> QED BY <3>1
  <2>3. g(n + 1)[n] = g(n)[n] BY <2>1, <2>2, SameRecursion
  <2>4. n + 1 \in 0 .. n + 1 /\ (n + 1) - 1 = n /\ n + 1 \in Nat OBVIOUS
  <2>5. g(n + 1)[n + 1] = IF n + 1 <= first THEN 0 ELSE g(n + 1)[(n + 1) - 1] + Borrow(v, (n + 1) - 1)
    BY <2>4, <1>5
  <2> QED BY <2>3, <2>4, <2>5, <1>4
<1>7. Borrowed(v, first, 0) = 0 BY <1>4, <1>5
<1>8. \A n \in Nat : Borrowed(v, first, n) \in Nat
  <2> DEFINE S == {n \in Nat : Borrowed(v, first, n) \in Nat}
  <2>1. 0 \in S BY <1>7
  <2>2. \A n \in Nat : n \in S => n + 1 \in S BY <1>1, <1>6
  <2> HIDE DEF S
  <2>3. Nat \subseteq S BY <2>1, <2>2, SetInduction
  <2> QED BY <2>3 DEF S
<1> QED BY <1>6, <1>7, <1>8
-----------------------------------------------------------------------------
(* What n words of a scalar contribute, the words first .. m - 1 of them   *)
(* through a folded call.                                                  *)
Gets(r, v, first, n, m) ==
  (v % Pow2(WordBits * n)) - (IF r = "flat_folded" THEN Borrowed(v, first, m) ELSE 0)

(* Before the first word.                                                  *)
LEMMA NoWord ==
  ASSUME NEW r, NEW v \in 0 .. Order - 1, NEW first \in Nat
  PROVE  Gets(r, v, first, 0, 0) = 0
<1>1. v \in Nat /\ v % Pow2(WordBits * 0) = 0 BY WholeScalar
<1>2. Borrowed(v, first, 0) = 0 BY <1>1, BorrowedIs
<1> QED BY <1>1, <1>2 DEF Gets

(* A contribution is an integer.                                           *)
LEMMA GetsInt ==
  ASSUME NEW r, NEW v \in Nat, NEW first \in Nat, NEW n \in Nat, NEW m \in Nat
  PROVE  Gets(r, v, first, n, m) \in Int
<1>1. v % Pow2(WordBits * n) \in Nat BY DigitIs
<1>2. Borrowed(v, first, m) \in Nat BY BorrowedIs
<1> QED BY <1>1, <1>2 DEF Gets

(* A word taken in as it is.                                               *)
LEMMA PlainWord ==
  ASSUME NEW r, NEW v \in Nat, NEW first \in Nat, NEW n \in Nat, NEW m \in Nat
  PROVE  Gets(r, v, first, n + 1, m)
           = Gets(r, v, first, n, m) + Pow2(WordBits * n) * window_digit_u16(v, n)
<1> DEFINE x == Pow2(WordBits * n) * window_digit_u16(v, n)
           y == v % Pow2(WordBits * n)
           z == IF r = "flat_folded" THEN Borrowed(v, first, m) ELSE 0
<1>1. z \in Nat BY BorrowedIs
<1>2. y \in Nat /\ v % Pow2(WordBits * (n + 1)) = y + x BY DigitIs
<1>3. x \in Nat
  <2>1. window_digit_u16(v, n) \in Nat BY DigitIs
  <2>2. WordBits * n \in Nat BY ScaffoldAssumption
  <2> QED BY <2>1, <2>2, PowersOfTwo
<1>4. Gets(r, v, first, n + 1, m) = (v % Pow2(WordBits * (n + 1))) - z BY DEF Gets
<1>5. Gets(r, v, first, n, m) = y - z BY DEF Gets
<1> HIDE DEF x, y, z
<1>6. (y + x) - z = (y - z) + x BY <1>1, <1>2, <1>3
<1> QED BY <1>2, <1>4, <1>5, <1>6 DEF x

(* A word taken in as the replay counts it.                                *)
LEMMA CountedWord ==
  ASSUME NEW r, NEW v \in Nat, NEW first \in Nat, NEW n \in Nat, first <= n
  PROVE  Gets(r, v, first, n + 1, n + 1)
           = Gets(r, v, first, n, n) + Pow2(WordBits * n) * Counted(r, window_digit_u16(v, n))
<1> DEFINE d == window_digit_u16(v, n)
           w == Pow2(WordBits * n)
           y == v % Pow2(WordBits * n)
           z == Borrowed(v, first, n)
           u == Borrow(v, n)
           t == v % Pow2(WordBits * (n + 1))
<1>1. z \in Nat /\ Borrowed(v, first, n + 1) = z + u BY BorrowedIs
<1>2. y \in Nat /\ t = y + w * d BY DigitIs
<1>3. d \in Word /\ d \in Nat BY DigitIs
<1>4. WordBits \in Nat /\ WordBits * n \in Nat /\ WordBits * (n + 1) = WordBits * n + WordBits
  BY ScaffoldAssumption
<1>5. w \in Nat BY <1>4, PowersOfTwo
<1>6. u = IF d >= Half THEN w * Pow2(WordBits) ELSE 0 BY <1>4, PowerSum DEF Borrow
<1>7. Gets(r, v, first, n + 1, n + 1) = t - (IF r = "flat_folded" THEN Borrowed(v, first, n + 1) ELSE 0)
      /\ Gets(r, v, first, n, n) = y - (IF r = "flat_folded" THEN z ELSE 0)
  BY DEF Gets
<1>8. Counted(r, d) = IF r = "flat_folded" /\ d >= Half THEN d - Pow2(WordBits) ELSE d
  BY DEF Counted, signed_i16
<1>9. Pow2(WordBits) \in Nat BY <1>4, PowersOfTwo
<1> HIDE DEF d, w, y, z, u, t
<1>10. w * d \in Nat BY <1>3, <1>5
<1>11. CASE r = "flat_folded" /\ d >= Half
  <2>1. w * (d - Pow2(WordBits)) = w * d - w * Pow2(WordBits) BY <1>3, <1>5, <1>9
  <2>2. w * Pow2(WordBits) \in Nat BY <1>5, <1>9
  <2> DEFINE p == w * d
             q == w * Pow2(WordBits)
  <2>3. p \in Nat /\ q \in Nat BY <1>10, <2>2
  <2>4. u = q /\ t = y + p /\ w * Counted(r, d) = p - q BY <1>2, <1>6, <1>8, <1>11, <2>1
  <2>5. Gets(r, v, first, n + 1, n + 1) = t - (z + u) /\ Gets(r, v, first, n, n) = y - z
    BY <1>1, <1>7, <1>11
  <2> HIDE DEF p, q
  <2>6. (y + p) - (z + q) = (y - z) + (p - q) BY <1>1, <1>2, <2>3
  <2> QED BY <2>4, <2>5, <2>6 DEF d, w
<1>12. CASE r = "flat_folded" /\ ~(d >= Half)
  <2> DEFINE p == w * d
  <2>1. p \in Nat BY <1>10
  <2>2. u = 0 /\ t = y + p /\ w * Counted(r, d) = p BY <1>2, <1>6, <1>8, <1>12
  <2>3. Gets(r, v, first, n + 1, n + 1) = t - (z + u) /\ Gets(r, v, first, n, n) = y - z
    BY <1>1, <1>7, <1>12
  <2> HIDE DEF p
  <2>4. (y + p) - (z + 0) = (y - z) + p BY <1>1, <1>2, <2>1
  <2> QED BY <2>2, <2>3, <2>4 DEF d, w
<1>13. CASE r # "flat_folded"
  <2> DEFINE p == w * d
  <2>1. p \in Nat BY <1>10
  <2>2. t = y + p /\ w * Counted(r, d) = p BY <1>2, <1>8, <1>13
  <2>3. Gets(r, v, first, n + 1, n + 1) = t - 0 /\ Gets(r, v, first, n, n) = y - 0
    BY <1>7, <1>13
  <2> HIDE DEF p
  <2>4. (y + p) - 0 = (y - 0) + p BY <1>2, <2>1
  <2> QED BY <2>2, <2>3, <2>4 DEF d, w
<1> QED BY <1>11, <1>12, <1>13
-----------------------------------------------------------------------------
(***************************************************************************)
(* The sum of the words taken in.                                          *)
(***************************************************************************)
(* The sum for i words of va and j words of vb.                            *)
Total(r, va, vb, vh, i, j) ==
  Gets(r, va, 1, i, i) + vh * Gets(r, vb, 0, j, Least(j, Windows - TailLength))

(* A public key is given, so the order exceeds 1 and there is a window.    *)
LEMMA Sizes ==
  ASSUME NEW vh \in PublicKeys
  PROVE  /\ Order \in Nat \ {0} /\ Windows \in Nat \ {0} /\ WordBits \in Nat
         /\ TailLength \in 0 .. Windows /\ Windows - TailLength \in 0 .. Windows
         /\ 1 \in Point /\ vh \in Point /\ vh \in Nat
<1>1. /\ Order \in Nat \ {0} /\ Windows \in Nat /\ WordBits \in Nat /\ TailLength \in 0 .. Windows
      /\ Order <= Pow2(WordBits * Windows) /\ vh \in 1 .. Order - 1
  BY ScaffoldAssumption
<1>2. Windows # 0
  <2> SUFFICES ASSUME Windows = 0 PROVE FALSE OBVIOUS
  <2>1. WordBits * 0 = 0 BY <1>1
  <2>2. Order <= 1 BY <1>1, <2>1, PowersOfTwo
  <2> QED BY <1>1, <2>2
<1> QED BY <1>1, <1>2 DEF Point

(* Bounds of the words of b that leaf calls take in.                       *)
LEMMA LeastIs ==
  ASSUME NEW j \in Nat, NEW vh \in PublicKeys
  PROVE  Least(j, Windows - TailLength) \in Nat
BY Sizes DEF Least

(* The running sum, with each folded word's shortfall beside the word.     *)
LEMMA SumIs ==
  ASSUME NEW r, NEW va \in Nat, NEW vb \in Nat, NEW vh \in PublicKeys,
         NEW i \in Nat, NEW j \in Nat, NEW s,
         s = IF r # "flat_folded" THEN 0
             ELSE Borrowed(va, 1, i) + vh * Borrowed(vb, 0, Least(j, Windows - TailLength))
  PROVE  (va % Pow2(WordBits * i)) + vh * (vb % Pow2(WordBits * j)) - s
           = Total(r, va, vb, vh, i, j)
<1> DEFINE x == va % Pow2(WordBits * i)
           y == vb % Pow2(WordBits * j)
           p == Borrowed(va, 1, i)
           m == Least(j, Windows - TailLength)
           q == Borrowed(vb, 0, m)
<1>1. x \in Nat /\ y \in Nat BY DigitIs
<1>2. vh \in Nat /\ m \in Nat BY Sizes, LeastIs
<1>3. p \in Nat BY BorrowedIs
<1>4. q \in Nat BY <1>2, BorrowedIs
<1>5. Total(r, va, vb, vh, i, j)
        = (x - (IF r = "flat_folded" THEN p ELSE 0)) + vh * (y - (IF r = "flat_folded" THEN q ELSE 0))
  BY DEF Total, Gets
<1>6. s = IF r # "flat_folded" THEN 0 ELSE p + vh * q OBVIOUS
<1> HIDE DEF x, y, p, q, m
<1>7. vh * y \in Nat /\ vh * q \in Nat BY <1>1, <1>2, <1>4
<1>8. CASE r = "flat_folded"
  <2>1. vh * (y - q) = vh * y - vh * q BY <1>1, <1>2, <1>4
  <2> DEFINE u == vh * y
             v == vh * q
  <2>2. u \in Nat /\ v \in Nat /\ s = p + v BY <1>6, <1>7, <1>8
  <2>3. Total(r, va, vb, vh, i, j) = (x - p) + (u - v) BY <1>5, <1>8, <2>1
  <2> HIDE DEF u, v
  <2>4. x + (u - s) = (x - p) + (u - v) BY <1>1, <1>3, <2>2
  <2> QED BY <2>3, <2>4 DEF u, x, y
<1>9. CASE r # "flat_folded"
  <2> DEFINE u == vh * y
  <2>1. u \in Nat /\ s = 0 BY <1>6, <1>7, <1>9
  <2>2. Total(r, va, vb, vh, i, j) = (x - 0) + vh * (y - 0) /\ y - 0 = y BY <1>1, <1>5, <1>9
  <2>3. Total(r, va, vb, vh, i, j) = x + u BY <2>2, <1>1
  <2> HIDE DEF u
  <2>4. x + (u - s) = x + u BY <1>1, <2>1
  <2> QED BY <2>3, <2>4 DEF u, x, y
<1> QED BY <1>8, <1>9

(* The sum is an integer.                                                  *)
LEMMA TotalInt ==
  ASSUME NEW r, NEW va \in Nat, NEW vb \in Nat, NEW vh \in PublicKeys, NEW i \in Nat, NEW j \in Nat
  PROVE  Total(r, va, vb, vh, i, j) \in Int
<1>1. Gets(r, va, 1, i, i) \in Int BY GetsInt
<1>2. vh \in Nat /\ Least(j, Windows - TailLength) \in Nat BY Sizes, LeastIs
<1>3. Gets(r, vb, 0, j, Least(j, Windows - TailLength)) \in Int BY <1>2, GetsInt
<1> QED BY <1>1, <1>2, <1>3 DEF Total

(* The sum before the seed, and after it.                                  *)
LEMMA SeedTotal ==
  ASSUME NEW r, NEW va \in 0 .. Order - 1, NEW vb \in 0 .. Order - 1, NEW vh \in PublicKeys
  PROVE  /\ Total(r, va, vb, vh, 0, 0) = 0
         /\ Total(r, va, vb, vh, 1, 0) = window_digit_u16(va, 0) * (1 * Pow2(WordBits * 0))
<1>1. va \in Nat /\ vb \in Nat /\ va % Pow2(WordBits * 0) = 0 BY WholeScalar
<1>2. Least(0, Windows - TailLength) = 0 /\ vh * 0 = 0 BY Sizes DEF Least
<1>3. Gets(r, vb, 0, 0, 0) = 0 /\ Gets(r, va, 1, 0, 0) = 0 BY NoWord
<1>4. Total(r, va, vb, vh, 0, 0) = 0 BY <1>2, <1>3 DEF Total
<1> DEFINE d == window_digit_u16(va, 0)
           w == Pow2(WordBits * 0)
<1>5. d \in Nat /\ va % Pow2(WordBits * (0 + 1)) = (va % w) + w * d BY <1>1, DigitIs
<1>6. w = 1
  <2>1. WordBits * 0 = 0 BY ScaffoldAssumption
  <2> QED BY <2>1, PowersOfTwo
<1>7. Borrowed(va, 1, 0 + 1) = 0 BY <1>1, BorrowedIs
<1>8. Gets(r, va, 1, 1, 1) = (va % Pow2(WordBits * 1)) - 0 BY <1>7 DEF Gets
<1>9. Total(r, va, vb, vh, 1, 0) = (va % Pow2(WordBits * 1)) - 0 + 0 BY <1>2, <1>3, <1>8 DEF Total
<1> HIDE DEF d, w
<1>10. va % Pow2(WordBits * 1) = 0 + 1 * d BY <1>1, <1>5, <1>6 DEF w
<1>11. Total(r, va, vb, vh, 1, 0) = d * (1 * w) BY <1>5, <1>6, <1>9, <1>10
<1> QED BY <1>4, <1>11 DEF d, w

(* A further word of a.                                                    *)
LEMMA TotalOfA ==
  ASSUME NEW r, NEW va \in 0 .. Order - 1, NEW vb \in 0 .. Order - 1, NEW vh \in PublicKeys,
         NEW i \in Nat, i >= 1
  PROVE  Total(r, va, vb, vh, i + 1, 0)
           = Total(r, va, vb, vh, i, 0) + Counted(r, window_digit_u16(va, i)) * (1 * Pow2(WordBits * i))
<1> DEFINE z == vh * Gets(r, vb, 0, 0, Least(0, Windows - TailLength))
           x == Gets(r, va, 1, i, i)
           w == Pow2(WordBits * i)
           c == Counted(r, window_digit_u16(va, i))
<1>1. va \in Nat /\ vb \in Nat BY WholeScalar
<1>2. Least(0, Windows - TailLength) = 0 /\ vh * 0 = 0 BY Sizes DEF Least
<1>3. z = 0 BY <1>2, NoWord
<1>4. x \in Int BY <1>1, GetsInt
<1>5. Gets(r, va, 1, i + 1, i + 1) = x + w * c BY <1>1, CountedWord
<1>6. Total(r, va, vb, vh, i + 1, 0) = Gets(r, va, 1, i + 1, i + 1) + z
      /\ Total(r, va, vb, vh, i, 0) = x + z
  BY DEF Total
<1>7. w \in Nat
  <2>1. WordBits * i \in Nat BY ScaffoldAssumption
  <2> QED BY <2>1, PowersOfTwo
<1>8. c \in Int
  <2>1. window_digit_u16(va, i) \in Nat BY <1>1, DigitIs
  <2>2. Pow2(WordBits) \in Nat BY Words
  <2> QED BY <2>1, <2>2 DEF Counted, signed_i16
<1> HIDE DEF x, w, c, z
<1>9. w * c = c * (1 * w) /\ w * c \in Int BY <1>7, <1>8
<1> QED BY <1>3, <1>4, <1>5, <1>6, <1>9 DEF c, w

(* One more word of vb, counted as c says, beside all of va.               *)
LEMMA OneMore ==
  ASSUME NEW x \in Int, NEW vh \in Nat, NEW y \in Int, NEW w \in Nat, NEW c \in Int
  PROVE  x + vh * (y + w * c) = (x + vh * y) + c * (vh * w)
<1> DEFINE p == w * c
<1>1. p \in Int OBVIOUS
<1>2. vh * p = c * (vh * w) OBVIOUS
<1> HIDE DEF p
<1>3. vh * (y + p) = vh * y + vh * p BY <1>1
<1> DEFINE q == vh * p
           u == vh * y
<1>4. q \in Int /\ u \in Int BY <1>1
<1>5. vh * (y + p) = u + q /\ c * (vh * w) = q BY <1>2, <1>3
<1> HIDE DEF q, u
<1>6. x + (u + q) = (x + u) + q BY <1>4
<1> QED BY <1>5, <1>6 DEF p, u

(* A further word of b: in a leaf call as counted, in the tail as it is.   *)
LEMMA TotalOfB ==
  ASSUME NEW r, NEW va \in 0 .. Order - 1, NEW vb \in 0 .. Order - 1, NEW vh \in PublicKeys,
         NEW i \in Nat, NEW j \in Nat, NEW c,
         \/ j < Windows - TailLength /\ c = Counted(r, window_digit_u16(vb, j))
         \/ j >= Windows - TailLength /\ c = window_digit_u16(vb, j)
  PROVE  Total(r, va, vb, vh, i, j + 1)
           = Total(r, va, vb, vh, i, j) + c * (vh * Pow2(WordBits * j))
<1> DEFINE x == Gets(r, va, 1, i, i)
           m == Least(j, Windows - TailLength)
           y == Gets(r, vb, 0, j, m)
           w == Pow2(WordBits * j)
<1>1. va \in Nat /\ vb \in Nat BY WholeScalar
<1>2. vh \in Nat /\ m \in Nat /\ Windows - TailLength \in Nat BY Sizes, LeastIs
<1>3. x \in Int BY <1>1, GetsInt
<1>4. y \in Int BY <1>1, <1>2, GetsInt
<1>5. w \in Nat
  <2>1. WordBits * j \in Nat BY ScaffoldAssumption
  <2> QED BY <2>1, PowersOfTwo
<1>6. c \in Int
  <2>1. window_digit_u16(vb, j) \in Nat BY <1>1, DigitIs
  <2>2. Pow2(WordBits) \in Nat BY Words
  <2> QED BY <2>1, <2>2 DEF Counted, signed_i16
<1>7. Gets(r, vb, 0, j + 1, Least(j + 1, Windows - TailLength)) = y + w * c
  <2>1. CASE j < Windows - TailLength
    <3>1. Least(j + 1, Windows - TailLength) = j + 1 /\ m = j BY <1>2, <2>1 DEF Least
    <3>2. Gets(r, vb, 0, j + 1, j + 1) = Gets(r, vb, 0, j, j) + w * Counted(r, window_digit_u16(vb, j))
      BY <1>1, CountedWord
    <3>3. c = Counted(r, window_digit_u16(vb, j)) BY <1>2, <2>1
    <3> QED BY <3>1, <3>2, <3>3
  <2>2. CASE j >= Windows - TailLength
    <3>1. Least(j + 1, Windows - TailLength) = Windows - TailLength /\ m = Windows - TailLength
      BY <1>2, <2>2 DEF Least
    <3>2. Gets(r, vb, 0, j + 1, m) = y + w * window_digit_u16(vb, j) BY <1>1, <1>2, PlainWord
    <3>3. c = window_digit_u16(vb, j) BY <1>2, <2>2
    <3> QED BY <3>1, <3>2, <3>3
  <2> QED BY <1>2, <2>1, <2>2
<1>8. Total(r, va, vb, vh, i, j + 1) = x + vh * (y + w * c) BY <1>7 DEF Total
<1>9. Total(r, va, vb, vh, i, j) = x + vh * y BY DEF Total
<1> HIDE DEF x, y, w
<1>10. x + vh * (y + w * c) = (x + vh * y) + c * (vh * w) BY <1>2, <1>3, <1>4, <1>5, <1>6, OneMore
<1> QED BY <1>8, <1>9, <1>10 DEF w
-----------------------------------------------------------------------------
(***************************************************************************)
(* The schedules, and the comparison.                                      *)
(***************************************************************************)
(* The schedule: the words 1 .. of a, then the words 0 .. of b.            *)
LEMMA CallsAre ==
  ASSUME NEW m \in Nat, NEW vh \in PublicKeys
  PROVE  /\ Len(Calls(m)) = Windows - 1 + m
         /\ \A i \in 1 .. Windows - 1 : Calls(m)[i] = Call("phase_a", i)
         /\ \A i \in 1 .. m : Calls(m)[Windows - 1 + i] = Call("phase_b", i - 1)
<1> DEFINE s == [i \in 1 .. Windows - 1 |-> Call("phase_a", i)]
           t == [i \in 1 .. m |-> Call("phase_b", i - 1)]
           C == {Call(p, i) : p \in {"phase_a", "phase_b"}, i \in Int}
<1>1. Windows \in Nat \ {0} /\ Windows - 1 \in Nat BY Sizes
<1>2. s \in Seq(C) /\ Len(s) = Windows - 1
  <2>1. s \in [1 .. Windows - 1 -> C] OBVIOUS
  <2> QED BY <2>1, <1>1
<1>3. t \in Seq(C) /\ Len(t) = m
  <2>1. t \in [1 .. m -> C] OBVIOUS
  <2> QED BY <2>1
<1>4. \A i \in 1 .. Windows - 1 : s[i] = Call("phase_a", i) OBVIOUS
<1>5. \A i \in 1 .. m : t[i] = Call("phase_b", i - 1) OBVIOUS
<1>6. Calls(m) = s \o t BY DEF Calls
<1> HIDE DEF s, t, C
<1>7. Len(s \o t) = Windows - 1 + m BY <1>2, <1>3
<1>8. \A i \in 1 .. Windows - 1 : (s \o t)[i] = s[i] BY <1>1, <1>2, <1>3
<1>9. \A i \in 1 .. m : (s \o t)[Windows - 1 + i] = t[i] BY <1>1, <1>2, <1>3
<1> QED BY <1>4, <1>5, <1>6, <1>7, <1>8, <1>9

(* The words of b that leaf calls take in.                                 *)
LeafWords(r) == IF r = "raw32" THEN Windows ELSE Windows - TailLength

(* The schedule of a replay.                                               *)
LEMMA LeafCallsAre ==
  ASSUME NEW r \in Replays, NEW vh \in PublicKeys
  PROVE  /\ LeafCalls(r) = Calls(LeafWords(r)) /\ LeafWords(r) \in Nat /\ LeafWords(r) <= Windows
         /\ Len(LeafCalls(r)) = Windows - 1 + LeafWords(r)
<1>1. LeafCalls(r) = Calls(LeafWords(r))
  BY DEF LeafCalls, LeafWords, raw32_schedule, retained_window_additions
<1>2. LeafWords(r) \in Nat /\ LeafWords(r) <= Windows BY Sizes DEF LeafWords
<1> QED BY <1>1, <1>2, CallsAre

(* The tail takes up where the leaf calls end.                             *)
LEMMA TailWindowsAre ==
  ASSUME NEW r \in Replays, r # "raw32", NEW vh \in PublicKeys
  PROVE  /\ Len(TailWindows(r)) = TailLength
         /\ \A i \in 1 .. TailLength : TailWindows(r)[i] = Windows - TailLength + i - 1
BY Sizes DEF TailWindows

(* Both products of the comparison.                                        *)
LEMMA ExpectedIs ==
  ASSUME a \in 0 .. Order - 1, b \in 0 .. Order - 1, h \in PublicKeys
  PROVE  Expected = (a + h * b) % Order
<1>1. a \in Nat /\ b \in Nat /\ a % Order = a /\ b % Order = b BY ScaffoldAssumption, ModSmall
<1>2. 1 \in Point /\ h \in Point /\ h \in Nat /\ WordBits \div 2 \in Nat \ {0} BY Sizes, Words
<1>3. a \in 0 .. Pow2(WordBits * Windows) /\ b \in 0 .. Pow2(WordBits * Windows)
  <2>1. WordBits * Windows \in Nat BY ScaffoldAssumption
  <2>2. Pow2(WordBits * Windows) \in Nat BY <2>1, PowersOfTwo
  <2> QED BY <2>2, ScaffoldAssumption
<1>4. mul_affine(a, 1) = (a * 1) % Order /\ mul_affine(b, h) = (b * h) % Order
  BY <1>2, <1>3, MulAffineIs
<1>5. mul_fixed_window(a, 1, WordBits \div 2) = (a * 1) % Order
      /\ mul_fixed_window(b, h, WordBits \div 2) = (b * h) % Order
  BY <1>1, <1>2, MulWindowIs
<1>6. Expected = add_affine((a * 1) % Order, (b * h) % Order) BY <1>1, <1>4, <1>5 DEF Expected
<1> DEFINE x == a * 1
           y == b * h
<1>7. x \in Int /\ y \in Int /\ x = a /\ y = h * b BY <1>1, <1>2
<1> HIDE DEF x, y
<1>8. add_affine(x % Order, y % Order) = (x + y) % Order BY <1>7, Sums
<1> QED BY <1>6, <1>7, <1>8 DEF x, y

(* A shortfall goes unnoticed only when it is a multiple of the order.     *)
LEMMA Unnoticed ==
  ASSUME NEW x \in Int, NEW s \in Int
  PROVE  (x - s) % Order = x % Order <=> s % Order = 0
<1>1. Order \in Nat \ {0} BY ScaffoldAssumption
<1>2. ASSUME s % Order = 0 PROVE (x - s) % Order = x % Order
  <2>1. s \div Order \in Int /\ s = Order * (s \div Order) + (s % Order) BY <1>1, DivMod
  <2> DEFINE k == s \div Order
  <2>2. k \in Int /\ s = Order * k + 0 BY <1>2, <2>1
  <2> HIDE DEF k
  <2>3. -k \in Int /\ x - s = x + Order * (-k) BY <1>1, <2>2
  <2>4. (x + Order * (-k)) % Order = x % Order BY <1>1, <2>3, ModShift
  <2> QED BY <2>3, <2>4
<1>3. ASSUME (x - s) % Order = x % Order PROVE s % Order = 0
  <2> DEFINE y == x - s
             k == x \div Order
             l == y \div Order
             u == x % Order
             v == y % Order
  <2>1. k \in Int /\ x = Order * k + u /\ u \in 0 .. Order - 1 BY <1>1, DivMod
  <2>2. y \in Int OBVIOUS
  <2>3. l \in Int /\ y = Order * l + v BY <1>1, <2>2, DivMod
  <2>4. u = v BY <1>3
  <2>5. s = x - y OBVIOUS
  <2> HIDE DEF y, k, l, u, v
  <2>6. s = Order * (k - l) + 0 /\ k - l \in Int /\ 0 \in 0 .. Order - 1
    BY <1>1, <2>1, <2>2, <2>3, <2>4, <2>5
  <2>7. (Order * (k - l) + 0) % Order = 0 BY <1>1, <2>6, DivModUnique
  <2> QED BY <2>6, <2>7
<1> QED BY <1>2, <1>3
-----------------------------------------------------------------------------
(* Where the replay is.                                                    *)
Placed ==
  /\ stage = "seed" => position = 0 /\ acc = None
  /\ stage = "leaf" => position <= Len(LeafCalls(replay))
  /\ stage = "tail" => replay # "raw32" /\ position <= TailLength

(* The verdict, against the product of the arithmetic itself.              *)
Judged ==
  /\ stage # "done" => status = "none"
  /\ stage = "done" => status = IF acc = (a + h * b) % Order THEN "PASS" ELSE "FAIL"

(* The inductive invariant.                                                *)
IInv == TypeOK /\ Placed /\ RunningSum /\ Judged

(* The case of an audit, as numbers.                                       *)
LEMMA Cases ==
  ASSUME TypeOK
  PROVE  /\ a \in 0 .. Order - 1 /\ b \in 0 .. Order - 1 /\ a \in Nat /\ b \in Nat
         /\ h \in PublicKeys /\ replay \in Replays
BY ScaffoldAssumption, WholeScalar DEF TypeOK

(* The running sum in a state ...                                          *)
LEMMA RunningIs ==
  ASSUME TypeOK, NEW i \in Nat, NEW j \in Nat, Taken = <<i, j>>
  PROVE  RunningSum <=> acc = Total(replay, a, b, h, i, j) % Order
<1> DEFINE s == Shortfall
<1>1. a \in Nat /\ b \in Nat /\ h \in PublicKeys BY Cases
<1>2. s = IF replay # "flat_folded" THEN 0
          ELSE Borrowed(a, 1, i) + h * Borrowed(b, 0, Least(j, Windows - TailLength))
  BY DEF Shortfall
<1>3. RunningSum <=> acc = ((a % Pow2(WordBits * i)) + h * (b % Pow2(WordBits * j)) - s) % Order
  BY DEF RunningSum
<1> HIDE DEF s
<1>4. (a % Pow2(WordBits * i)) + h * (b % Pow2(WordBits * j)) - s = Total(replay, a, b, h, i, j)
  BY <1>1, <1>2, SumIs
<1> QED BY <1>3, <1>4
-----------------------------------------------------------------------------
(***************************************************************************)
(* The steps.                                                              *)
(***************************************************************************)
(* ... and in the state after a step.                                      *)
LEMMA RunningNext ==
  ASSUME TypeOK, UNCHANGED case, NEW i \in Nat, NEW j \in Nat, Taken' = <<i, j>>
  PROVE  RunningSum' <=> acc' = Total(replay, a, b, h, i, j) % Order
<1> DEFINE s == Shortfall'
<1>1. a \in Nat /\ b \in Nat /\ h \in PublicKeys BY Cases
<1>2. replay' = replay /\ a' = a /\ b' = b /\ h' = h BY DEF case
<1>3. s = IF replay # "flat_folded" THEN 0
          ELSE Borrowed(a, 1, i) + h * Borrowed(b, 0, Least(j, Windows - TailLength))
  BY <1>2 DEF Shortfall
<1>4. RunningSum' <=> acc' = ((a % Pow2(WordBits * i)) + h * (b % Pow2(WordBits * j)) - s) % Order
  BY <1>2 DEF RunningSum
<1> HIDE DEF s
<1>5. (a % Pow2(WordBits * i)) + h * (b % Pow2(WordBits * j)) - s = Total(replay, a, b, h, i, j)
  BY <1>1, <1>3, SumIs
<1> QED BY <1>4, <1>5

(* Initially.                                                              *)
LEMMA Start == Init => IInv
<1> SUFFICES ASSUME Init PROVE IInv OBVIOUS
<1>1. replay \in Replays /\ a \in 0 .. Order - 1 /\ b \in 0 .. Order - 1 /\ h \in PublicKeys
  BY ScaffoldAssumption DEF Init
<1>2. Windows \in Nat /\ None \in Point /\ None = 0
  <2>1. 0 \in Int OBVIOUS
  <2> QED BY <2>1, Sums, ScaffoldAssumption DEF None
<1>3. TypeOK BY <1>1, <1>2 DEF Init, TypeOK
<1>4. Placed /\ Judged BY DEF Init, Placed, Judged
<1>5. Taken = <<0, 0>> BY DEF Init, Taken
<1>6. Total(replay, a, b, h, 0, 0) = 0 /\ 0 % Order = 0
  BY <1>1, SeedTotal, ScaffoldAssumption, ModSmall
<1>7. acc = Total(replay, a, b, h, 0, 0) % Order BY <1>2, <1>6 DEF Init
<1>8. RunningSum BY <1>3, <1>5, <1>7, RunningIs
<1> QED BY <1>3, <1>4, <1>8 DEF IInv

(* The seed is the lowest word of a.                                       *)
LEMMA SeedStep == IInv /\ Seed => IInv'
<1> SUFFICES ASSUME IInv, Seed PROVE IInv' OBVIOUS
<1>1. TypeOK /\ Placed BY DEF IInv
<1>2. a \in 0 .. Order - 1 /\ b \in 0 .. Order - 1 /\ a \in Nat /\ h \in PublicKeys /\ replay \in Replays
  BY <1>1, Cases
<1>3. stage = "seed" /\ stage' = "leaf" /\ position = 0 /\ position' = 0 /\ status' = status
      /\ UNCHANGED case
  BY <1>1 DEF Seed, Placed
<1>4. Windows \in Nat \ {0} /\ 1 \in Point /\ 0 \in 0 .. Windows - 1 BY <1>2, Sizes
<1> DEFINE d == window_digit_u16(a, 0)
<1>5. d \in Word BY <1>2, DigitIs
<1>6. acc' = (d * (1 * Pow2(WordBits * 0))) % Order
  BY <1>4, <1>5, ComputeLookupIs, PrecomputedLookupIs DEF Seed, g_window_bases
<1>7. Total(replay, a, b, h, 1, 0) = d * (1 * Pow2(WordBits * 0)) BY <1>2, SeedTotal
<1> HIDE DEF d
<1>8. acc' = Total(replay, a, b, h, 1, 0) % Order BY <1>6, <1>7
<1>9. acc' \in Point
  <2> DEFINE x == Total(replay, a, b, h, 1, 0)
  <2>1. x \in Int BY <1>2, TotalInt, WholeScalar
  <2> HIDE DEF x
  <2>2. x % Order \in Point BY <2>1, Sums
  <2> QED BY <1>8, <2>2 DEF x
<1>10. Taken' = <<1, 0>> BY <1>3, <1>4 DEF Taken
<1>11. RunningSum' BY <1>1, <1>3, <1>8, <1>10, RunningNext
<1>12. TypeOK' BY <1>1, <1>3, <1>4, <1>9 DEF TypeOK, case
<1>13. Placed'
  <2>1. Len(LeafCalls(replay)) >= 0 BY <1>2, <1>4, LeafCallsAre
  <2> QED BY <1>3, <2>1 DEF Placed, case
<1>14. Judged' BY <1>3 DEF IInv, Judged
<1> QED BY <1>11, <1>12, <1>13, <1>14 DEF IInv

(* What a call adds.                                                       *)
LEMMA CallAdds ==
  ASSUME TypeOK, UNCHANGED case, NEW i \in Nat, NEW j \in Nat, NEW x \in Int,
         NEW i2 \in Nat, NEW j2 \in Nat,
         Taken = <<i, j>>, RunningSum, Taken' = <<i2, j2>>,
         acc' = add_affine(acc, x % Order),
         Total(replay, a, b, h, i2, j2) = Total(replay, a, b, h, i, j) + x
  PROVE  RunningSum' /\ acc' \in Point
<1> DEFINE y == Total(replay, a, b, h, i, j)
           z == Total(replay, a, b, h, i2, j2)
<1>1. a \in Nat /\ b \in Nat /\ h \in PublicKeys BY Cases
<1>2. y \in Int BY <1>1, TotalInt
<1>3. acc = y % Order BY RunningIs
<1>4. z = y + x OBVIOUS
<1>5. RunningSum' <=> acc' = z % Order BY RunningNext
<1> HIDE DEF y, z
<1>6. add_affine(y % Order, x % Order) = (y + x) % Order BY <1>2, Sums
<1>7. y + x \in Int BY <1>2
<1>8. (y + x) % Order \in Point BY <1>7, Sums
<1> QED BY <1>3, <1>4, <1>5, <1>6, <1>8

(* A leaf call takes in one more word of a, or of b.                       *)
LEMMA LeafCallStep == IInv /\ LeafCall => IInv'
<1> SUFFICES ASSUME IInv, LeafCall PROVE IInv' OBVIOUS
<1>1. TypeOK /\ RunningSum BY DEF IInv
<1>2. a \in 0 .. Order - 1 /\ b \in 0 .. Order - 1 /\ a \in Nat /\ b \in Nat /\ h \in PublicKeys
      /\ replay \in Replays
  BY <1>1, Cases
<1>3. stage = "leaf" /\ stage' = stage /\ position' = position + 1 /\ status' = status
      /\ UNCHANGED case /\ position < Len(LeafCalls(replay)) /\ position \in Nat
  BY <1>1 DEF LeafCall, TypeOK
<1>4. Windows \in Nat \ {0} /\ 1 \in Point /\ h \in Point /\ h \in Nat /\ TailLength \in 0 .. Windows
  BY <1>2, Sizes
<1> DEFINE L == LeafWords(replay)
           call == LeafCalls(replay)[position + 1]
<1>5. LeafCalls(replay) = Calls(L) /\ L \in Nat /\ L <= Windows
      /\ Len(LeafCalls(replay)) = Windows - 1 + L
  BY <1>2, LeafCallsAre
<1>6. acc' = add_affine(acc, Lookup(replay,
                                    IF call.phase = "phase_a" THEN g_window_bases ELSE h_window_bases,
                                    call.idx,
                                    window_digit_u16(IF call.phase = "phase_a" THEN a ELSE b, call.idx)))
  BY DEF LeafCall
<1> HIDE DEF L, call
<1>7. RunningSum' /\ acc' \in Point
  <2>1. CASE position < Windows - 1
    <3> DEFINE i == position + 1
               d == window_digit_u16(a, i)
               x == Counted(replay, d) * (1 * Pow2(WordBits * i))
    <3>1. i \in 1 .. Windows - 1 /\ i \in Nat /\ i >= 1 /\ i \in 0 .. Windows - 1 BY <1>3, <1>4, <2>1
    <3>2. call = Call("phase_a", i) BY <1>2, <1>5, <3>1, CallsAre DEF call
    <3>3. call.phase = "phase_a" /\ call.idx = i BY <3>2 DEF Call
    <3>4. d \in Word /\ d \in Nat BY <1>2, <3>1, DigitIs
    <3>5. Lookup(replay, g_window_bases, i, d) = x % Order
      BY <1>2, <1>4, <3>1, <3>4, LookupIs DEF g_window_bases
    <3>6. acc' = add_affine(acc, x % Order) BY <1>6, <3>3, <3>5
    <3>7. x \in Int
      <4>1. WordBits * i \in Nat BY <3>1, ScaffoldAssumption
      <4>2. Pow2(WordBits * i) \in Nat /\ Pow2(WordBits) \in Nat BY <4>1, PowersOfTwo, Words
      <4>3. Counted(replay, d) \in Int BY <3>4, <4>2 DEF Counted, signed_i16
      <4> QED BY <4>2, <4>3
    <3>8. Total(replay, a, b, h, i + 1, 0) = Total(replay, a, b, h, i, 0) + x
      BY <1>2, <3>1, TotalOfA
    <3>9. Taken = <<i, 0>> BY <1>3, <1>4, <2>1 DEF Taken
    <3>10. Taken' = <<i + 1, 0>>
      <4>1. position + 1 < Windows BY <1>3, <1>4, <2>1
      <4> QED BY <1>3, <4>1 DEF Taken
    <3> HIDE DEF i, x
    <3>11. i + 1 \in Nat BY <3>1
    <3> QED BY <1>1, <1>3, <3>1, <3>6, <3>7, <3>8, <3>9, <3>10, <3>11, CallAdds
  <2>2. CASE position >= Windows - 1
    <3> DEFINE j == position - (Windows - 1)
               d == window_digit_u16(b, j)
               x == Counted(replay, d) * (h * Pow2(WordBits * j))
    <3>1. j \in Nat /\ j < L /\ j \in 0 .. Windows - 1 /\ j + 1 \in 1 .. L
          /\ position + 1 = Windows - 1 + (j + 1) /\ (j + 1) - 1 = j
      BY <1>3, <1>4, <1>5, <2>2
    <3>2. call = Call("phase_b", j) BY <1>2, <1>5, <3>1, CallsAre DEF call
    <3>3. call.phase = "phase_b" /\ call.idx = j BY <3>2 DEF Call
    <3>4. d \in Word /\ d \in Nat BY <1>2, <3>1, DigitIs
    <3>5. Lookup(replay, h_window_bases, j, d) = x % Order
      BY <1>2, <1>4, <3>1, <3>4, LookupIs DEF h_window_bases
    <3>6. acc' = add_affine(acc, x % Order) BY <1>6, <3>3, <3>5
    <3>7. x \in Int
      <4>1. WordBits * j \in Nat BY <3>1, ScaffoldAssumption
      <4>2. Pow2(WordBits * j) \in Nat /\ Pow2(WordBits) \in Nat BY <4>1, PowersOfTwo, Words
      <4>3. Counted(replay, d) \in Int BY <3>4, <4>2 DEF Counted, signed_i16
      <4> QED BY <1>4, <4>2, <4>3
    <3>8. \/ j < Windows - TailLength
          \/ j >= Windows - TailLength /\ Counted(replay, d) = d
      BY <1>4, <3>1 DEF L, LeafWords, Counted
    <3>9. Total(replay, a, b, h, Windows, j + 1) = Total(replay, a, b, h, Windows, j) + x
      BY <1>2, <1>4, <3>1, <3>8, TotalOfB
    <3>10. Taken = <<Windows, j>>
      <4>1. CASE position < Windows
        <5>1. position = Windows - 1 /\ j = 0 /\ position + 1 = Windows BY <1>3, <1>4, <2>2, <4>1
        <5> QED BY <1>3, <4>1, <5>1 DEF Taken
      <4>2. CASE ~(position < Windows) BY <1>3, <4>2 DEF Taken
      <4> QED BY <4>1, <4>2
    <3>11. Taken' = <<Windows, j + 1>>
      <4>1. ~(position + 1 < Windows) /\ (position + 1) - (Windows - 1) = j + 1 BY <1>3, <1>4, <2>2
      <4> QED BY <1>3, <4>1 DEF Taken
    <3> HIDE DEF j, x
    <3>12. j + 1 \in Nat /\ Windows \in Nat BY <1>4, <3>1
    <3> QED BY <1>1, <1>3, <3>1, <3>6, <3>7, <3>9, <3>10, <3>11, <3>12, CallAdds
  <2> QED BY <1>3, <1>4, <2>1, <2>2
<1>8. TypeOK' BY <1>1, <1>3, <1>4, <1>5, <1>7 DEF TypeOK, case
<1>9. Placed' BY <1>3, <1>4, <1>5 DEF Placed, case
<1>10. Judged' BY <1>3 DEF IInv, Judged
<1> QED BY <1>7, <1>8, <1>9, <1>10 DEF IInv

(* The words of a are all in, and those of b that leaf calls take.         *)
LEMMA LeafCallsDoneStep == IInv /\ LeafCallsDone => IInv'
<1> SUFFICES ASSUME IInv, LeafCallsDone PROVE IInv' OBVIOUS
<1>1. TypeOK /\ RunningSum BY DEF IInv
<1>2. h \in PublicKeys /\ replay \in Replays BY <1>1, Cases
<1>3. stage = "leaf" /\ position = Len(LeafCalls(replay)) /\ position' = 0 /\ acc' = acc
      /\ status' = status /\ UNCHANGED case
      /\ stage' = IF replay = "raw32" THEN "compare" ELSE "tail"
  BY DEF LeafCallsDone
<1>4. Windows \in Nat \ {0} /\ TailLength \in 0 .. Windows BY <1>2, Sizes
<1> DEFINE L == LeafWords(replay)
<1>5. L \in Nat /\ L <= Windows /\ position = Windows - 1 + L BY <1>2, <1>3, LeafCallsAre
<1>6. L = IF replay = "raw32" THEN Windows ELSE Windows - TailLength BY DEF LeafWords
<1> HIDE DEF L
<1>7. Taken = <<Windows, L>>
  <2>1. CASE position < Windows
    <3>1. L = 0 /\ position + 1 = Windows BY <1>4, <1>5, <2>1
    <3> QED BY <1>3, <2>1, <3>1 DEF Taken
  <2>2. CASE ~(position < Windows)
    <3>1. position - (Windows - 1) = L BY <1>4, <1>5
    <3> QED BY <1>3, <2>2, <3>1 DEF Taken
  <2> QED BY <2>1, <2>2
<1>8. Taken' = <<Windows, L>>
  <2>1. CASE replay = "raw32" BY <1>3, <1>6, <2>1 DEF Taken
  <2>2. CASE replay # "raw32"
    <3>1. Windows - TailLength + 0 = L BY <1>4, <1>6, <2>2
    <3> QED BY <1>3, <2>2, <3>1 DEF Taken
  <2> QED BY <2>1, <2>2
<1>9. Windows \in Nat BY <1>4
<1>10. RunningSum'
  <2>1. acc = Total(replay, a, b, h, Windows, L) % Order BY <1>1, <1>5, <1>7, <1>9, RunningIs
  <2> QED BY <1>1, <1>3, <1>5, <1>8, <1>9, <2>1, RunningNext
<1>11. TypeOK' BY <1>1, <1>3, <1>4 DEF TypeOK, case
<1>12. Placed' BY <1>3, <1>4 DEF Placed, case
<1>13. Judged' BY <1>3 DEF IInv, Judged
<1> QED BY <1>10, <1>11, <1>12, <1>13 DEF IInv

(* A tail addition takes in one more word of b.                            *)
LEMMA TailAdditionStep == IInv /\ TailAddition => IInv'
<1> SUFFICES ASSUME IInv, TailAddition PROVE IInv' OBVIOUS
<1>1. TypeOK /\ RunningSum /\ Placed BY DEF IInv
<1>2. a \in 0 .. Order - 1 /\ b \in 0 .. Order - 1 /\ b \in Nat /\ h \in PublicKeys
      /\ replay \in Replays
  BY <1>1, Cases
<1>3. stage = "tail" /\ stage' = stage /\ position' = position + 1 /\ status' = status
      /\ UNCHANGED case /\ position < Len(TailWindows(replay)) /\ position \in Nat
      /\ replay # "raw32"
  BY <1>1 DEF TailAddition, TypeOK, Placed
<1>4. Windows \in Nat \ {0} /\ h \in Point /\ h \in Nat /\ TailLength \in 0 .. Windows
  BY <1>2, Sizes
<1> DEFINE j == Windows - TailLength + position
           d == window_digit_u16(b, j)
           x == d * (h * Pow2(WordBits * j))
<1>5. Len(TailWindows(replay)) = TailLength /\ position + 1 \in 1 .. TailLength
  <2>1. Len(TailWindows(replay)) = TailLength BY <1>2, <1>3, TailWindowsAre
  <2> QED BY <1>3, <1>4, <2>1
<1>6. TailWindows(replay)[position + 1] = j
  <2>1. TailWindows(replay)[position + 1] = Windows - TailLength + (position + 1) - 1
    BY <1>2, <1>3, <1>5, TailWindowsAre
  <2>2. Windows - TailLength + (position + 1) - 1 = Windows - TailLength + position
    BY <1>3, <1>4
  <2> QED BY <2>1, <2>2
<1>7. j \in Nat /\ j \in 0 .. Windows - 1 /\ j >= Windows - TailLength
      /\ Windows - TailLength + (position + 1) = j + 1
  BY <1>3, <1>4, <1>5
<1>8. d \in Word /\ d \in Nat BY <1>2, <1>7, DigitIs
<1>9. compute_window_lookup(h_window_bases, j, d) = x % Order
  BY <1>4, <1>7, <1>8, ComputeLookupIs DEF h_window_bases
<1>10. acc' = add_affine(acc, x % Order) BY <1>6, <1>9 DEF TailAddition
<1>11. x \in Int
  <2>1. WordBits * j \in Nat BY <1>7, ScaffoldAssumption
  <2>2. Pow2(WordBits * j) \in Nat BY <2>1, PowersOfTwo
  <2> QED BY <1>4, <1>8, <2>2
<1>12. Total(replay, a, b, h, Windows, j + 1) = Total(replay, a, b, h, Windows, j) + x
  BY <1>2, <1>4, <1>7, TotalOfB
<1>13. Taken = <<Windows, j>> BY <1>3 DEF Taken
<1>14. Taken' = <<Windows, j + 1>> BY <1>3, <1>7 DEF Taken
<1> HIDE DEF j, d, x
<1>15. j + 1 \in Nat /\ Windows \in Nat BY <1>4, <1>7
<1>16. RunningSum' /\ acc' \in Point
  BY <1>1, <1>3, <1>7, <1>10, <1>11, <1>12, <1>13, <1>14, <1>15, CallAdds
<1>17. TypeOK' BY <1>1, <1>3, <1>4, <1>5, <1>16 DEF TypeOK, case
<1>18. Placed' BY <1>3, <1>5 DEF Placed, case
<1>19. Judged' BY <1>3 DEF IInv, Judged
<1> QED BY <1>16, <1>17, <1>18, <1>19 DEF IInv

(* All the words are in.                                                   *)
LEMMA TailDoneStep == IInv /\ TailDone => IInv'
<1> SUFFICES ASSUME IInv, TailDone PROVE IInv' OBVIOUS
<1>1. TypeOK /\ RunningSum /\ Placed BY DEF IInv
<1>2. h \in PublicKeys /\ replay \in Replays BY <1>1, Cases
<1>3. stage = "tail" /\ stage' = "compare" /\ position' = 0 /\ acc' = acc /\ status' = status
      /\ UNCHANGED case /\ position = Len(TailWindows(replay)) /\ replay # "raw32"
  BY <1>1 DEF TailDone, Placed
<1>4. Windows \in Nat /\ TailLength \in 0 .. Windows BY <1>2, Sizes
<1>5. position = TailLength BY <1>2, <1>3, TailWindowsAre
<1>6. Windows - TailLength + position = Windows BY <1>4, <1>5
<1>7. Taken = <<Windows, Windows>> BY <1>3, <1>6 DEF Taken
<1>8. Taken' = <<Windows, Windows>> BY <1>3 DEF Taken
<1>9. RunningSum'
  <2>1. acc = Total(replay, a, b, h, Windows, Windows) % Order BY <1>1, <1>4, <1>7, RunningIs
  <2> QED BY <1>1, <1>3, <1>4, <1>8, <2>1, RunningNext
<1>10. TypeOK' BY <1>1, <1>3, <1>4 DEF TypeOK, case
<1>11. Placed' /\ Judged' BY <1>3 DEF IInv, Judged, Placed
<1> QED BY <1>9, <1>10, <1>11 DEF IInv

(* The comparison.                                                         *)
LEMMA CompareStep == IInv /\ Compare => IInv'
<1> SUFFICES ASSUME IInv, Compare PROVE IInv' OBVIOUS
<1>1. TypeOK /\ RunningSum BY DEF IInv
<1>2. a \in 0 .. Order - 1 /\ b \in 0 .. Order - 1 /\ h \in PublicKeys BY <1>1, Cases
<1>3. stage = "compare" /\ stage' = "done" /\ position' = position /\ acc' = acc /\ UNCHANGED case
      /\ status' = IF acc = Expected THEN "PASS" ELSE "FAIL"
  BY DEF Compare
<1>4. Windows \in Nat BY <1>2, Sizes
<1>5. Taken = <<Windows, Windows>> /\ Taken' = <<Windows, Windows>> BY <1>3 DEF Taken
<1>6. RunningSum'
  <2>1. acc = Total(replay, a, b, h, Windows, Windows) % Order BY <1>1, <1>4, <1>5, RunningIs
  <2> QED BY <1>1, <1>3, <1>4, <1>5, <2>1, RunningNext
<1>7. Expected = (a + h * b) % Order BY <1>2, ExpectedIs
<1>8. TypeOK' BY <1>1, <1>3 DEF TypeOK, case
<1>9. Placed' BY <1>3 DEF Placed
<1>10. Judged' BY <1>3, <1>7 DEF Judged, case
<1> QED BY <1>6, <1>8, <1>9, <1>10 DEF IInv

(* Every step keeps the invariant.                                         *)
LEMMA Step == IInv /\ [Next]_vars => IInv'
<1> SUFFICES ASSUME IInv, [Next]_vars PROVE IInv' OBVIOUS
<1>1. CASE UNCHANGED vars
  BY <1>1 DEF vars, IInv, TypeOK, Placed, Judged, RunningSum, Taken, Shortfall
<1>2. CASE Decided
  BY <1>2 DEF Decided, vars, IInv, TypeOK, Placed, Judged, RunningSum, Taken, Shortfall
<1> QED
  BY <1>1, <1>2, SeedStep, LeafCallStep, LeafCallsDoneStep, TailAdditionStep, TailDoneStep,
     CompareStep
  DEF Next

(* After the last word the accumulator is [a]G + [b]H less the shortfall.  *)
LEMMA Final ==
  ASSUME IInv, stage = "done"
  PROVE  /\ acc = (a + h * b - Shortfall) % Order
         /\ status = IF acc = (a + h * b) % Order THEN "PASS" ELSE "FAIL"
<1>1. a % Pow2(WordBits * Windows) = a /\ b % Pow2(WordBits * Windows) = b
  BY Cases, WholeScalar DEF IInv
<1>2. Taken = <<Windows, Windows>> BY DEF Taken
<1>3. acc = ((a % Pow2(WordBits * Windows)) + h * (b % Pow2(WordBits * Windows)) - Shortfall) % Order
  BY <1>2 DEF IInv, RunningSum
<1> QED BY <1>1, <1>3 DEF IInv, Judged

(* Type correctness: the accumulator stays a point, the position within    *)
(* the schedules.                                                          *)
THEOREM TypeCorrect == Spec => []TypeOK
<1>1. IInv => TypeOK BY DEF IInv
<1> QED BY Start, Step, <1>1, PTL DEF Spec

(* After every call the accumulator is the sum for the scalars cut off     *)
(* after the words taken in, less what folded words fall short by.         *)
THEOREM WordsOnce == Spec => []RunningSum
<1>1. IInv => RunningSum BY DEF IInv
<1> QED BY Start, Step, <1>1, PTL DEF Spec

(* The scaffold audit and the raw-32 check never write FAIL, whatever the  *)
(* order, the windows, the scalars and the public key.                     *)
THEOREM AuditsPass == Spec => []AuditPasses
<1>1. ASSUME IInv PROVE AuditPasses
  <2> SUFFICES ASSUME replay # "flat_folded", status = "FAIL" PROVE FALSE BY DEF AuditPasses
  <2>1. stage = "done" BY <1>1 DEF IInv, Judged
  <2>2. Shortfall = 0 BY DEF Shortfall
  <2>3. a \in Nat /\ b \in Nat /\ h \in Nat BY <1>1, Cases, Sizes DEF IInv
  <2>4. a + h * b - 0 = a + h * b
    <3> DEFINE x == h * b
    <3>1. x \in Nat BY <2>3
    <3> HIDE DEF x
    <3>2. a + x - 0 = a + x BY <2>3, <3>1
    <3> QED BY <3>2 DEF x
  <2>5. acc = (a + h * b) % Order BY <1>1, <2>1, <2>2, <2>4, Final
  <2> QED BY <1>1, <2>1, <2>5, Final
<1> QED BY Start, Step, <1>1, PTL DEF Spec

(* Under the folded contract the replay passes exactly for the cases whose *)
(* shortfall is a multiple of the order.                                   *)
THEOREM FoldedVerdict == Spec => []FoldedAuditVerdict
<1>1. ASSUME IInv PROVE FoldedAuditVerdict
  <2> SUFFICES ASSUME replay = "flat_folded", stage = "done"
               PROVE  status = "PASS" <=> Shortfall % Order = 0
    BY DEF FoldedAuditVerdict
  <2>1. a \in Nat /\ b \in Nat /\ h \in PublicKeys /\ h \in Nat BY <1>1, Cases, Sizes DEF IInv
  <2> DEFINE x == a + h * b
             s == Shortfall
  <2>2. x \in Int BY <2>1
  <2>3. s \in Int
    <3>1. Taken = <<Windows, Windows>> /\ Windows \in Nat BY <2>1, Sizes DEF Taken
    <3> DEFINE m == Least(Windows, Windows - TailLength)
               p == Borrowed(a, 1, Windows)
               q == Borrowed(b, 0, m)
    <3>2. m \in Nat BY <2>1, <3>1, LeastIs
    <3>3. s = p + h * q BY <3>1 DEF Shortfall
    <3> HIDE DEF s, m
    <3>4. p \in Nat /\ q \in Nat BY <2>1, <3>1, <3>2, BorrowedIs
    <3> HIDE DEF p, q
    <3> QED BY <2>1, <3>3, <3>4
  <2>4. acc = (a + h * b - s) % Order /\ status = IF acc = x % Order THEN "PASS" ELSE "FAIL"
    BY <1>1, Final
  <2>5. a + h * b - s = x - s
    <3> DEFINE y == h * b
    <3>1. y \in Nat BY <2>1
    <3> HIDE DEF y, s
    <3>2. a + y - s = (a + y) - s BY <2>1, <2>3, <3>1
    <3> QED BY <3>2 DEF y
  <2> HIDE DEF x, s
  <2>6. (x - s) % Order = x % Order <=> s % Order = 0 BY <2>2, <2>3, Unnoticed
  <2>7. status = "PASS" <=> s % Order = 0 BY <2>4, <2>5, <2>6
  <2> QED BY <2>7 DEF s
<1> QED BY Start, Step, <1>1, PTL DEF Spec
=============================================================================
