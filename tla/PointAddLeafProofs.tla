------------------------ MODULE PointAddLeafProofs ------------------------
(***************************************************************************)
(* What PointAddLeaf, and the guest that attests it, do for every prime P, *)
(* every curve constant B with 3B = 21 modulo P and no point of order two, *)
(* every accumulator and every table entry.                                *)
(*                                                                         *)
(* The netlists.  The induction carries, for every version of a register   *)
(* (from the instruction that writes it to the last one that reads it),    *)
(* the value the version holds as an expression over the call's operands.  *)
(* After eighteen instructions the base and the lookup-fed netlist hold    *)
(* the same six values in the same registers, and share the rest of the    *)
(* argument.                                                               *)
(*                                                                         *)
(* The algebra.  The leaf, the reference formulas and the streamed tail    *)
(* compute one triple of polynomials in the coordinates of their operands, *)
(* IsSum.  On the curve the triple is never (0, 0, 0), and divided by its  *)
(* Z it is the affine sum, arm by arm of the group law.                    *)
(*                                                                         *)
(* The guest.  Its register file, instruction by instruction, holds        *)
(* whatever the Python register file holds.                                *)
(***************************************************************************)
EXTENDS AttestationGuest, LeafRefinement, ArithmeticLemmas
-----------------------------------------------------------------------------
(***************************************************************************)
(* Congruence modulo the prime: what the field operations compute, and how *)
(* to divide and cancel.                                                   *)
(***************************************************************************)
(* Congruence modulo the prime.                                            *)
Same(a, b) == a % P = b % P

LEMMA ModulusIs == P \in Nat \ {0} /\ P \in Int /\ Field \subseteq Int /\ 0 \in Field /\ 1 \in Field /\ 2 \in Field
BY CurveAssumption DEF Field

(* Congruent numbers differ by a multiple of the prime.                    *)
LEMMA SameIsMultiple ==
  ASSUME NEW a \in Int, NEW b \in Int
  PROVE  Same(a, b) <=> \E k \in Int : a = b + P * k
<1>1. ASSUME Same(a, b) PROVE \E k \in Int : a = b + P * k
  <2> DEFINE p == a \div P
             q == b \div P
             r == a % P
  <2>1. p \in Int /\ q \in Int /\ r \in Int /\ a = P * p + r /\ b = P * q + r
    BY <1>1, DivMod, ModulusIs DEF Same
  <2> HIDE DEF p, q, r
  <2>2. a = b + P * (p - q) BY <2>1, ModulusIs
  <2> QED BY <2>1, <2>2
<1>2. ASSUME NEW k \in Int, a = b + P * k PROVE Same(a, b)
  BY <1>2, ModShift, ModulusIs DEF Same
<1> QED BY <1>1, <1>2

LEMMA SameOps ==
  ASSUME NEW a \in Int, NEW b \in Int, NEW c \in Int, NEW d \in Int, Same(a, b), Same(c, d)
  PROVE  Same(a + c, b + d) /\ Same(a - c, b - d) /\ Same(a * c, b * d)
<1>1. PICK k \in Int : a = b + P * k BY SameIsMultiple
<1>2. PICK l \in Int : c = d + P * l BY SameIsMultiple
<1>3. a + c = (b + d) + P * (k + l) /\ a - c = (b - d) + P * (k - l)
  BY <1>1, <1>2, ModulusIs
<1>4. a * c = b * d + P * (b * l + k * d + P * k * l)
  BY <1>1, <1>2, ModulusIs
<1>5. P * k * l \in Int /\ b * l + k * d + P * k * l \in Int /\ k + l \in Int /\ k - l \in Int
  BY ModulusIs
<1> HIDE DEF Same
<1>6. a + c \in Int /\ b + d \in Int /\ a - c \in Int /\ b - d \in Int /\ a * c \in Int /\ b * d \in Int
  OBVIOUS
<1>7. Same(a + c, b + d) BY <1>3, <1>5, <1>6, SameIsMultiple
<1>8. Same(a - c, b - d) BY <1>3, <1>5, <1>6, SameIsMultiple
<1>9. Same(a * c, b * d) BY <1>4, <1>5, <1>6, SameIsMultiple
<1> QED BY <1>7, <1>8, <1>9

(* Reducing changes nothing modulo the prime.                              *)
LEMMA SameReduced ==
  ASSUME NEW a \in Int
  PROVE  a % P \in Field /\ a % P \in Int /\ Same(a % P, a)
<1>1. a % P \in 0 .. P - 1 /\ P \in Nat \ {0} BY ModulusIs
<1>2. (a % P) % P = a % P BY <1>1, ModSmall
<1> QED BY <1>1, <1>2 DEF Same, Field

(* Two congruent field elements are equal.                                 *)
LEMMA SameInField ==
  ASSUME NEW a \in Field, NEW b \in Field, Same(a, b)
  PROVE  a = b
BY ModSmall, ModulusIs DEF Same, Field

LEMMA SameSelf == ASSUME NEW a PROVE Same(a, a)
BY DEF Same

(* The operations of the code are those of the integers, up to congruence. *)
LEMMA FieldOps ==
  ASSUME NEW a \in Int, NEW b \in Int, NEW c \in Int, NEW d \in Int, Same(a, b), Same(c, d)
  PROVE  /\ FAdd(a, c) \in Field /\ FAdd(a, c) \in Int /\ Same(FAdd(a, c), b + d)
         /\ FSub(a, c) \in Field /\ FSub(a, c) \in Int /\ Same(FSub(a, c), b - d)
         /\ FMul(a, c) \in Field /\ FMul(a, c) \in Int /\ Same(FMul(a, c), b * d)
<1>1. /\ a + c \in Int /\ b + d \in Int /\ a - c \in Int /\ b - d \in Int
      /\ a * c \in Int /\ b * d \in Int
  OBVIOUS
<1>2. Same(a + c, b + d) /\ Same(a - c, b - d) /\ Same(a * c, b * d) BY SameOps
<1>3. FAdd(a, c) \in Field /\ FAdd(a, c) \in Int /\ Same(FAdd(a, c), b + d)
  BY <1>1, <1>2, SameReduced DEF FAdd, Same
<1>4. FSub(a, c) \in Field /\ FSub(a, c) \in Int /\ Same(FSub(a, c), b - d)
  BY <1>1, <1>2, SameReduced DEF FSub, Same
<1>5. FMul(a, c) \in Field /\ FMul(a, c) \in Int /\ Same(FMul(a, c), b * d)
  BY <1>1, <1>2, SameReduced DEF FMul, Same
<1> QED BY <1>3, <1>4, <1>5

(* What InverseAssumption gives of FInv.                                   *)
LEMMA InverseIs ==
  ASSUME NEW a \in Field, a # 0
  PROVE  FInv(a) \in Field /\ FInv(a) \in Int /\ Same(a * FInv(a), 1)
<1>1. FInv(a) \in Field /\ FMul(a, FInv(a)) = 1 BY InverseAssumption DEF FInv
<1>2. FInv(a) \in Int /\ 1 % P = 1 BY <1>1, ModulusIs, ModSmall DEF Field
<1> QED BY <1>1, <1>2 DEF Same, FMul

(* Every number but the multiples of P has an inverse.                     *)
LEMMA Invertible ==
  ASSUME NEW a \in Int, ~Same(a, 0)
  PROVE  \E v \in Int : Same(a * v, 1)
<1> DEFINE r == a % P
<1>1. r \in Field /\ r \in Int /\ Same(r, a) BY SameReduced
<1>2. 0 % P = 0 BY ModulusIs, ModSmall DEF Field
<1>3. r # 0 BY <1>2 DEF Same
<1> HIDE DEF r
<1> DEFINE v == FInv(r)
<1>4. v \in Int /\ Same(r * v, 1) BY <1>1, <1>3, InverseIs
<1> HIDE DEF v
<1>5. Same(v, v) /\ a * v \in Int /\ r * v \in Int BY <1>1, <1>4 DEF Same
<1>6. Same(r * v, a * v) BY <1>1, <1>4, <1>5, SameOps
<1>7. Same(a * v, 1) BY <1>4, <1>6 DEF Same
<1> QED BY <1>4, <1>7

(* A factor that is not zero cancels.                                      *)
LEMMA Cancelled ==
  ASSUME NEW a \in Int, NEW b \in Int, NEW k \in Int, ~Same(k, 0), Same(a * k, b * k)
  PROVE  Same(a, b)
<1>1. PICK v \in Int : Same(k * v, 1) BY Invertible
<1>2. Same(v, v) /\ Same(a, a) /\ Same(b, b) BY DEF Same
<1>3. a * k \in Int /\ b * k \in Int /\ k * v \in Int OBVIOUS
<1>4. Same((a * k) * v, (b * k) * v) BY <1>2, <1>3, SameOps
<1>5. Same(a * (k * v), a * 1) /\ Same(b * (k * v), b * 1) BY <1>1, <1>2, <1>3, SameOps
<1>6. /\ (a * k) * v = a * (k * v) /\ (b * k) * v = b * (k * v)
      /\ a * 1 = a /\ b * 1 = b
  OBVIOUS
<1> QED BY <1>4, <1>5, <1>6 DEF Same

(* The field has no zero divisors.                                         *)
LEMMA NoZeroDivisors ==
  ASSUME NEW a \in Int, NEW b \in Int, Same(a * b, 0)
  PROVE  Same(a, 0) \/ Same(b, 0)
<1>1. 0 * b = 0 OBVIOUS
<1> QED BY <1>1, Cancelled

-----------------------------------------------------------------------------
(***************************************************************************)
(* The homogeneous formulas.  The sum of q and the entry t is, up to a     *)
(* common factor, a triple of polynomials in their coordinates; the        *)
(* reference, the streamed tail and the guest's tail all compute it.       *)
(***************************************************************************)
(* The sum of (u : v : w) and (x, y), with the products expanded.          *)
NumX(u, v, w, x, y) == (u * y + x * v) * (v * y - 3 * B * w) - 3 * B * (v + y * w) * (u + x * w)
NumY(u, v, w, x, y) == (v * y + 3 * B * w) * (v * y - 3 * B * w) + 9 * B * u * x * (u + x * w)
NumZ(u, v, w, x, y) == (v * y + 3 * B * w) * (v + y * w) + 3 * u * x * (u * y + x * v)

(* r are field elements with the coordinates of the sum of q and t.        *)
IsSum(r, q, t) ==
  /\ r[1] \in Field /\ Same(r[1], NumX(q[1], q[2], q[3], t[1], t[2]))
  /\ r[2] \in Field /\ Same(r[2], NumY(q[1], q[2], q[3], t[1], t[2]))
  /\ r[3] \in Field /\ Same(r[3], NumZ(q[1], q[2], q[3], t[1], t[2]))

(* The netlists multiply by 3b.                                            *)
LEMMA ConstantIs == B \in Int /\ Same(21, 3 * B)
<1>1. B \in Int /\ 3 * B \in Int BY CurveAssumption
<1>2. 0 % P = 0 BY ModulusIs, ModSmall DEF Field
<1>3. Same(3 * B - 21, 0) /\ Same(21, 21) BY <1>2, LeafAssumption DEF Same
<1>4. Same((3 * B - 21) + 21, 0 + 21) BY <1>1, <1>3, SameOps
<1>5. (3 * B - 21) + 21 = 3 * B /\ 0 + 21 = 21 BY <1>1
<1> QED BY <1>1, <1>4, <1>5 DEF Same

(* What the base and the lookup-fed netlist compute.                       *)
LEMMA MixedAddIs ==
  ASSUME NEW u \in Field, NEW v \in Field, NEW w \in Field, NEW x \in Field, NEW y \in Field
  PROVE  IsSum(MixedAdd(<<u, v, w>>, <<x, y>>), <<u, v, w>>, <<x, y>>)
<1> DEFINE t0 == FMul(u, x)
           t1 == FMul(v, y)
           xw == FMul(x, w)
           xs == FAdd(xw, u)
           o2 == FMul(21, xs)
           yw == FMul(y, w)
           t4 == FAdd(yw, v)
           t2 == FMul(21, w)
           h1 == FAdd(x, y)
           h2 == FAdd(u, v)
           h  == FMul(h1, h2)
           ts == FAdd(t0, t1)
           t3 == FSub(h, ts)
           xd == FAdd(t0, t0)
           x3 == FAdd(xd, t0)
           zp == FAdd(t1, t2)
           zm == FSub(t1, t2)
           m1 == FMul(t3, zm)
           m2 == FMul(t4, o2)
           m3 == FMul(zm, zp)
           m4 == FMul(o2, x3)
           m5 == FMul(zp, t4)
           m6 == FMul(x3, t3)
           r1 == FSub(m1, m2)
           r2 == FAdd(m3, m4)
           r3 == FAdd(m5, m6)
<1>1. MixedAdd(<<u, v, w>>, <<x, y>>) = <<r1, r2, r3>> BY DEF MixedAdd
<1>2. /\ u \in Int /\ v \in Int /\ w \in Int /\ x \in Int /\ y \in Int /\ 21 \in Int
      /\ 3 * B \in Int /\ Same(21, 3 * B) /\ B \in Int
      /\ Same(u, u) /\ Same(v, v) /\ Same(w, w) /\ Same(x, x) /\ Same(y, y)
  BY ModulusIs, ConstantIs DEF Same
<1>3. /\ t0 \in Int /\ Same(t0, u * x) /\ u * x \in Int
      /\ t1 \in Int /\ Same(t1, v * y) /\ v * y \in Int
      /\ xw \in Int /\ Same(xw, x * w) /\ x * w \in Int
      /\ yw \in Int /\ Same(yw, y * w) /\ y * w \in Int
      /\ t2 \in Int /\ Same(t2, (3 * B) * w) /\ (3 * B) * w \in Int
      /\ h1 \in Int /\ Same(h1, x + y) /\ x + y \in Int
      /\ h2 \in Int /\ Same(h2, u + v) /\ u + v \in Int
  BY <1>2, FieldOps
<1> HIDE DEF t0, t1, xw, yw, t2, h1, h2
<1>4. /\ xs \in Int /\ Same(xs, x * w + u) /\ x * w + u \in Int
      /\ t4 \in Int /\ Same(t4, y * w + v) /\ y * w + v \in Int
      /\ h \in Int /\ Same(h, (x + y) * (u + v)) /\ (x + y) * (u + v) \in Int
      /\ ts \in Int /\ Same(ts, u * x + v * y) /\ u * x + v * y \in Int
      /\ xd \in Int /\ Same(xd, u * x + u * x) /\ u * x + u * x \in Int
      /\ zp \in Int /\ Same(zp, v * y + (3 * B) * w) /\ v * y + (3 * B) * w \in Int
      /\ zm \in Int /\ Same(zm, v * y - (3 * B) * w) /\ v * y - (3 * B) * w \in Int
  BY <1>2, <1>3, FieldOps
<1> HIDE DEF xs, t4, h, ts, xd, zp, zm
<1> DEFINE px3 == (u * x + u * x) + u * x
           pt3 == (x + y) * (u + v) - (u * x + v * y)
           po2 == (3 * B) * (x * w + u)
           pzm == v * y - (3 * B) * w
           pzp == v * y + (3 * B) * w
           pt4 == y * w + v
<1>5. /\ x3 \in Int /\ Same(x3, px3) /\ px3 \in Int
      /\ o2 \in Int /\ Same(o2, po2) /\ po2 \in Int
      /\ t3 \in Int /\ Same(t3, pt3) /\ pt3 \in Int
      /\ Same(zm, pzm) /\ pzm \in Int /\ Same(zp, pzp) /\ pzp \in Int /\ Same(t4, pt4) /\ pt4 \in Int
  BY <1>2, <1>3, <1>4, FieldOps
<1>6. px3 = 3 * (u * x) /\ pt3 = u * y + x * v BY <1>2
<1>7. /\ NumX(u, v, w, x, y) = pt3 * pzm - pt4 * po2
      /\ NumY(u, v, w, x, y) = pzm * pzp + po2 * px3
      /\ NumZ(u, v, w, x, y) = pzp * pt4 + px3 * pt3
  BY <1>2, <1>6 DEF NumX, NumY, NumZ
<1> HIDE DEF x3, o2, t3, px3, pt3, po2, pzm, pzp, pt4
<1>8. /\ m1 \in Int /\ Same(m1, pt3 * pzm) /\ pt3 * pzm \in Int
      /\ m2 \in Int /\ Same(m2, pt4 * po2) /\ pt4 * po2 \in Int
      /\ m3 \in Int /\ Same(m3, pzm * pzp) /\ pzm * pzp \in Int
      /\ m4 \in Int /\ Same(m4, po2 * px3) /\ po2 * px3 \in Int
      /\ m5 \in Int /\ Same(m5, pzp * pt4) /\ pzp * pt4 \in Int
      /\ m6 \in Int /\ Same(m6, px3 * pt3) /\ px3 * pt3 \in Int
  BY <1>4, <1>5, FieldOps
<1> HIDE DEF m1, m2, m3, m4, m5, m6
<1>9. /\ r1 \in Field /\ Same(r1, pt3 * pzm - pt4 * po2)
      /\ r2 \in Field /\ Same(r2, pzm * pzp + po2 * px3)
      /\ r3 \in Field /\ Same(r3, pzp * pt4 + px3 * pt3)
  BY <1>8, FieldOps
<1> HIDE DEF r1, r2, r3
<1> QED BY <1>1, <1>7, <1>9 DEF IsSum

(* What the reference computes of an affine entry.                         *)
LEMMA ReferenceIs ==
  ASSUME NEW u \in Field, NEW v \in Field, NEW w \in Field, NEW x \in Field, NEW y \in Field
  PROVE  IsSum(complete_projective_add_a0(<<u, v, w>>, <<x, y, 1>>), <<u, v, w>>, <<x, y>>)
<1> DEFINE b3  == (3 * B) % P
           xx  == FMul(u, x)
           yy  == FMul(v, y)
           zz  == FMul(w, 1)
           zz3 == FMul(b3, zz)
           hxy == FMul(u + v, x + y)
           hyz == FMul(v + w, y + 1)
           hxz == FMul(u + w, x + 1)
           xy  == FSub(hxy, xx + yy)
           yz  == FSub(hyz, yy + zz)
           dxz == FSub(hxz, xx + zz)
           xz  == FMul(b3, dxz)
           xx2 == FAdd(xx, xx)
           xx3 == FAdd(xx2, xx)
           s   == FAdd(yy, zz3)
           d   == FSub(yy, zz3)
           m1 == FMul(xy, d)
           m2 == FMul(yz, xz)
           m3 == FMul(d, s)
           m4 == FMul(xz, xx3)
           m5 == FMul(s, yz)
           m6 == FMul(xx3, xy)
           r1 == FSub(m1, m2)
           r2 == FAdd(m3, m4)
           r3 == FAdd(m5, m6)
<1>1. complete_projective_add_a0(<<u, v, w>>, <<x, y, 1>>) = <<r1, r2, r3>>
  BY DEF complete_projective_add_a0
<1>1a. /\ u \in Int /\ v \in Int /\ w \in Int /\ x \in Int /\ y \in Int /\ 1 \in Int
       /\ 3 * B \in Int /\ B \in Int
  BY ModulusIs, ConstantIs
<1>1b. /\ u + v \in Int /\ x + y \in Int /\ v + w \in Int /\ y + 1 \in Int /\ u + w \in Int /\ x + 1 \in Int
  BY <1>1a
<1>1c. b3 \in Int /\ Same(b3, 3 * B) BY <1>1a, SameReduced
<1>2. /\ Same(u, u) /\ Same(v, v) /\ Same(w, w) /\ Same(x, x) /\ Same(y, y) /\ Same(1, 1)
      /\ Same(u + v, u + v) /\ Same(x + y, x + y) /\ Same(v + w, v + w)
      /\ Same(y + 1, y + 1) /\ Same(u + w, u + w) /\ Same(x + 1, x + 1)
  BY SameSelf
<1> HIDE DEF b3
<1>3. /\ xx \in Int /\ Same(xx, u * x) /\ u * x \in Int
      /\ yy \in Int /\ Same(yy, v * y) /\ v * y \in Int
      /\ zz \in Int /\ Same(zz, w * 1) /\ w * 1 = w
      /\ hxy \in Int /\ Same(hxy, (u + v) * (x + y)) /\ (u + v) * (x + y) \in Int
      /\ hyz \in Int /\ Same(hyz, (v + w) * (y + 1)) /\ (v + w) * (y + 1) \in Int
      /\ hxz \in Int /\ Same(hxz, (u + w) * (x + 1)) /\ (u + w) * (x + 1) \in Int
  BY <1>1a, <1>1b, <1>1c, <1>2, FieldOps
<1> HIDE DEF xx, yy, zz, hxy, hyz, hxz
<1>4. /\ xx + yy \in Int /\ Same(xx + yy, u * x + v * y) /\ u * x + v * y \in Int
      /\ yy + zz \in Int /\ Same(yy + zz, v * y + w) /\ v * y + w \in Int
      /\ xx + zz \in Int /\ Same(xx + zz, u * x + w) /\ u * x + w \in Int
  BY <1>1a, <1>1b, <1>1c, <1>2, <1>3, SameOps
<1>5. /\ zz3 \in Int /\ Same(zz3, (3 * B) * w) /\ (3 * B) * w \in Int
      /\ xx2 \in Int /\ Same(xx2, u * x + u * x) /\ u * x + u * x \in Int
  BY <1>1a, <1>1b, <1>1c, <1>2, <1>3, FieldOps
<1> DEFINE pxy == (u + v) * (x + y) - (u * x + v * y)
           pyz == (v + w) * (y + 1) - (v * y + w)
           pdz == (u + w) * (x + 1) - (u * x + w)
<1>6. /\ xy \in Int /\ Same(xy, pxy) /\ pxy \in Int
      /\ yz \in Int /\ Same(yz, pyz) /\ pyz \in Int
      /\ dxz \in Int /\ Same(dxz, pdz) /\ pdz \in Int
  BY <1>1a, <1>1b, <1>1c, <1>2, <1>3, <1>4, FieldOps
<1> HIDE DEF zz3, xx2, xy, yz, dxz
<1> DEFINE pxz == (3 * B) * pdz
           px3 == (u * x + u * x) + u * x
           ps  == v * y + (3 * B) * w
           pd  == v * y - (3 * B) * w
<1>7. /\ pxy = u * y + x * v /\ pyz = v + y * w /\ pxz = 3 * B * (u + x * w)
      /\ px3 = 3 * (u * x)
  BY <1>1a, <1>1b, <1>1c, <1>2
<1>8. /\ NumX(u, v, w, x, y) = pxy * pd - pyz * pxz
      /\ NumY(u, v, w, x, y) = pd * ps + pxz * px3
      /\ NumZ(u, v, w, x, y) = ps * pyz + px3 * pxy
  BY <1>1a, <1>1b, <1>1c, <1>2, <1>7 DEF NumX, NumY, NumZ
<1> HIDE DEF pxy, pyz, pdz
<1>9. /\ xz \in Int /\ Same(xz, pxz) /\ pxz \in Int
      /\ xx3 \in Int /\ Same(xx3, px3) /\ px3 \in Int
      /\ s \in Int /\ Same(s, ps) /\ ps \in Int
      /\ d \in Int /\ Same(d, pd) /\ pd \in Int
  BY <1>1a, <1>1b, <1>1c, <1>2, <1>3, <1>5, <1>6, FieldOps
<1> HIDE DEF xz, xx3, s, d, pxz, px3, ps, pd
<1>10. /\ m1 \in Int /\ Same(m1, pxy * pd) /\ pxy * pd \in Int
       /\ m2 \in Int /\ Same(m2, pyz * pxz) /\ pyz * pxz \in Int
       /\ m3 \in Int /\ Same(m3, pd * ps) /\ pd * ps \in Int
       /\ m4 \in Int /\ Same(m4, pxz * px3) /\ pxz * px3 \in Int
       /\ m5 \in Int /\ Same(m5, ps * pyz) /\ ps * pyz \in Int
       /\ m6 \in Int /\ Same(m6, px3 * pxy) /\ px3 * pxy \in Int
  BY <1>6, <1>9, FieldOps
<1> HIDE DEF m1, m2, m3, m4, m5, m6
<1>11. /\ r1 \in Field /\ Same(r1, pxy * pd - pyz * pxz)
       /\ r2 \in Field /\ Same(r2, pd * ps + pxz * px3)
       /\ r3 \in Field /\ Same(r3, ps * pyz + px3 * pxy)
  BY <1>10, FieldOps
<1> HIDE DEF r1, r2, r3
<1> QED BY <1>1, <1>8, <1>11 DEF IsSum

(* The last line of a streamed tail, from what its operands are modulo P.  *)
LEMMA TailSum ==
  ASSUME NEW u \in Int, NEW v \in Int, NEW w \in Int, NEW x \in Int, NEW y \in Int,
         NEW k \in Int, NEW c \in Int, NEW l \in Int, NEW e \in Int, NEW m \in Int, NEW n \in Int,
         Same(k, (u + v) * (x + y) - u * x - v * y), Same(c, (3 * B) * (u + w * x)),
         Same(l, 3 * (u * x)), Same(e, v + y * w),
         Same(m, v * y + (3 * B) * w), Same(n, v * y - (3 * B) * w)
  PROVE  IsSum(<<(k * n - e * c) % P, (n * m + c * l) % P, (m * e + l * k) % P>>, <<u, v, w>>, <<x, y>>)
<1> DEFINE pk == (u + v) * (x + y) - u * x - v * y
           pc1 == (3 * B) * (u + w * x)
           pl == 3 * (u * x)
           pe == v + y * w
           pm == v * y + (3 * B) * w
           pn == v * y - (3 * B) * w
<1>1. B \in Int BY ConstantIs
<1>2. /\ NumX(u, v, w, x, y) = pk * pn - pe * pc1
      /\ NumY(u, v, w, x, y) = pn * pm + pc1 * pl
      /\ NumZ(u, v, w, x, y) = pm * pe + pl * pk
  BY <1>1 DEF NumX, NumY, NumZ
<1>3. /\ pk \in Int /\ Same(k, pk) /\ pc1 \in Int /\ Same(c, pc1) /\ pl \in Int /\ Same(l, pl)
      /\ pe \in Int /\ Same(e, pe) /\ pm \in Int /\ Same(m, pm) /\ pn \in Int /\ Same(n, pn)
  BY <1>1
<1> HIDE DEF pk, pc1, pl, pe, pm, pn
<1> DEFINE m1 == k * n      p1 == pk * pn
           m2 == e * c      p2 == pe * pc1
           m3 == n * m      p3 == pn * pm
           m4 == c * l      p4 == pc1 * pl
           m5 == m * e      p5 == pm * pe
           m6 == l * k      p6 == pl * pk
<1>4. /\ m1 \in Int /\ p1 \in Int /\ m2 \in Int /\ p2 \in Int /\ m3 \in Int /\ p3 \in Int
      /\ m4 \in Int /\ p4 \in Int /\ m5 \in Int /\ p5 \in Int /\ m6 \in Int /\ p6 \in Int
  BY <1>3
<1>5. Same(m1, p1) /\ Same(m2, p2) /\ Same(m3, p3) BY <1>3, SameOps
<1>6. Same(m4, p4) /\ Same(m5, p5) /\ Same(m6, p6) BY <1>3, SameOps
<1> HIDE DEF m1, m2, m3, m4, m5, m6, p1, p2, p3, p4, p5, p6
<1> DEFINE s1 == m1 - m2    q1 == p1 - p2
           s2 == m3 + m4    q2 == p3 + p4
           s3 == m5 + m6    q3 == p5 + p6
<1>7. /\ s1 \in Int /\ q1 \in Int /\ Same(s1, q1) /\ s2 \in Int /\ q2 \in Int /\ Same(s2, q2)
      /\ s3 \in Int /\ q3 \in Int /\ Same(s3, q3)
  BY <1>4, <1>5, <1>6, SameOps
<1>8. q1 = NumX(u, v, w, x, y) /\ q2 = NumY(u, v, w, x, y) /\ q3 = NumZ(u, v, w, x, y)
  BY <1>2 DEF p1, p2, p3, p4, p5, p6
<1>9. <<s1 % P, s2 % P, s3 % P>>
      = <<(k * n - e * c) % P, (n * m + c * l) % P, (m * e + l * k) % P>>
  BY DEF m1, m2, m3, m4, m5, m6
<1> HIDE DEF s1, s2, s3, q1, q2, q3
<1>10. /\ s1 % P \in Field /\ Same(s1 % P, s1) /\ s2 % P \in Field /\ Same(s2 % P, s2)
       /\ s3 % P \in Field /\ Same(s3 % P, s3)
  BY <1>7, SameReduced
<1>11. Same(s1 % P, q1) /\ Same(s2 % P, q2) /\ Same(s3 % P, q3)
  BY <1>7, <1>10 DEF Same
<1> QED BY <1>8, <1>9, <1>10, <1>11 DEF IsSum

(* The operands of that last line, in Python and in the guest.             *)
LEMMA TailOperands ==
  ASSUME NEW u \in Field, NEW v \in Field, NEW w \in Field, NEW x \in Field, NEW y \in Field,
         NEW g \in Int, Same(g, u + v), NEW h \in Int, Same(h, u + w * x)
  PROVE  /\ FMul(u, x) \in Field /\ Same(FMul(u, x), u * x)
         /\ FMul(v, y) \in Field /\ Same(FMul(v, y), v * y)
         /\ FMul(21, w) \in Field
         /\ FMul(g, FAdd(x, y)) \in Field /\ Same(FMul(g, FAdd(x, y)), (u + v) * (x + y))
         /\ FMul(21, h) \in Field /\ Same(FMul(21, h), (3 * B) * (u + w * x))
         /\ FMul(3, FMul(u, x)) \in Field /\ Same(FMul(3, FMul(u, x)), 3 * (u * x))
         /\ FAdd(v, FMul(y, w)) \in Field /\ Same(FAdd(v, FMul(y, w)), v + y * w)
         /\ FAdd(FMul(v, y), FMul(21, w)) \in Field
         /\ Same(FAdd(FMul(v, y), FMul(21, w)), v * y + (3 * B) * w)
         /\ FSub(FMul(v, y), FMul(21, w)) \in Field
         /\ Same(FSub(FMul(v, y), FMul(21, w)), v * y - (3 * B) * w)
<1>1. /\ u \in Int /\ v \in Int /\ w \in Int /\ x \in Int /\ y \in Int
      /\ 3 * B \in Int /\ Same(21, 3 * B)
  BY ModulusIs, ConstantIs
<1>2. /\ Same(u, u) /\ Same(v, v) /\ Same(w, w) /\ Same(x, x) /\ Same(y, y) /\ Same(3, 3)
  BY SameSelf
<1> DEFINE a == FMul(u, x)     pa == u * x
           i == FMul(v, y)     pi == v * y
           f == FMul(21, w)    pf == (3 * B) * w
           z == FMul(y, w)     pz == y * w
           s == FAdd(x, y)     ps == x + y
           pg == u + v
           ph == u + w * x
<1>3. /\ pa \in Int /\ pi \in Int /\ pf \in Int /\ pz \in Int /\ ps \in Int /\ pg \in Int /\ ph \in Int
  BY <1>1
<1>4. a \in Field /\ a \in Int /\ Same(a, pa) BY <1>1, <1>2, FieldOps
<1>5. i \in Field /\ i \in Int /\ Same(i, pi) BY <1>1, <1>2, FieldOps
<1>6. f \in Field /\ f \in Int /\ Same(f, pf) BY <1>1, <1>2, FieldOps
<1>7. z \in Int /\ Same(z, pz) BY <1>1, <1>2, FieldOps
<1>8. s \in Int /\ Same(s, ps) BY <1>1, <1>2, FieldOps
<1>9. Same(g, pg) /\ Same(h, ph) OBVIOUS
<1> HIDE DEF a, i, f, z, s, pa, pi, pf, pz, ps, pg, ph
<1>10. FMul(g, s) \in Field /\ Same(FMul(g, s), pg * ps) BY <1>3, <1>8, <1>9, FieldOps
<1>11. FMul(21, h) \in Field /\ Same(FMul(21, h), (3 * B) * ph) BY <1>1, <1>3, <1>9, FieldOps
<1>12. FMul(3, a) \in Field /\ Same(FMul(3, a), 3 * pa) BY <1>2, <1>3, <1>4, FieldOps
<1>13. FAdd(v, z) \in Field /\ Same(FAdd(v, z), v + pz) BY <1>1, <1>2, <1>3, <1>7, FieldOps
<1>14. FAdd(i, f) \in Field /\ Same(FAdd(i, f), pi + pf) BY <1>3, <1>5, <1>6, FieldOps
<1>15. FSub(i, f) \in Field /\ Same(FSub(i, f), pi - pf) BY <1>3, <1>5, <1>6, FieldOps
<1> QED
  BY <1>4, <1>5, <1>6, <1>10, <1>11, <1>12, <1>13, <1>14, <1>15
     DEF a, i, f, z, s, pa, pi, pf, pz, ps, pg, ph

LEMMA ThreeTerms ==
  ASSUME NEW h \in Int, NEW a \in Int, NEW i \in Int, NEW ph \in Int, NEW pa \in Int, NEW pi \in Int,
         Same(h, ph), Same(a, pa), Same(i, pi)
  PROVE  Same(h - a - i, ph - pa - pi)
<1> DEFINE d == h - a
           e == ph - pa
<1>1. d \in Int /\ e \in Int /\ Same(d, e) BY SameOps
<1> HIDE DEF d, e
<1>2. Same(d - i, e - pi) BY <1>1, SameOps
<1> QED BY <1>2 DEF d, e

(* What the streamed tail computes.                                        *)
LEMMA StreamedTailIs ==
  ASSUME NEW u \in Field, NEW v \in Field, NEW w \in Field, TableX \in Field, TableY \in Field
  PROVE  IsSum(StreamedTailValue(u, v, w), <<u, v, w>>, <<TableX, TableY>>)
<1> DEFINE x == TableX
           y == TableY
           a == FMul(u, x)
           h == FMul(u + v, FAdd(x, y))
           o == u + FMul(w, x)
           c == FMul(21, o)
           i == FMul(v, y)
           k == (h - a - i) % P
           l == FMul(3, a)
           e == FAdd(v, FMul(y, w))
           m == FAdd(i, FMul(21, w))
           n == FSub(i, FMul(21, w))
<1>1. x \in Field /\ y \in Field OBVIOUS
<1>2. StreamedTailValue(u, v, w) = <<(k * n - e * c) % P, (n * m + c * l) % P, (m * e + l * k) % P>>
  BY DEF StreamedTailValue
<1> HIDE DEF x, y
<1>3. u \in Int /\ v \in Int /\ w \in Int /\ x \in Int /\ y \in Int BY <1>1, ModulusIs
<1>3a. Same(u, u) /\ Same(v, v) /\ Same(w, w) /\ Same(x, x) BY SameSelf
<1>4. u + v \in Int /\ Same(u + v, u + v) BY <1>3, SameSelf
<1>5. o \in Int /\ Same(o, u + w * x)
  <2> DEFINE z == FMul(w, x)
             pz == w * x
  <2>1. z \in Int /\ pz \in Int /\ Same(z, pz) BY <1>3, <1>3a, FieldOps
  <2> HIDE DEF z, pz
  <2>2. u + z \in Int /\ Same(u + z, u + pz) BY <1>3, <1>3a, <2>1, SameOps
  <2> QED BY <2>2 DEF z, pz
<1> HIDE DEF o
<1>6. /\ a \in Field /\ Same(a, u * x) /\ i \in Field /\ Same(i, v * y)
      /\ h \in Field /\ Same(h, (u + v) * (x + y))
      /\ c \in Field /\ Same(c, (3 * B) * (u + w * x))
      /\ l \in Field /\ Same(l, 3 * (u * x)) /\ e \in Field /\ Same(e, v + y * w)
      /\ m \in Field /\ Same(m, v * y + (3 * B) * w)
      /\ n \in Field /\ Same(n, v * y - (3 * B) * w)
  BY <1>1, <1>4, <1>5, TailOperands
<1> HIDE DEF a, h, c, i, l, e, m, n
<1>7. /\ a \in Int /\ i \in Int /\ h \in Int /\ c \in Int /\ l \in Int /\ e \in Int /\ m \in Int /\ n \in Int
  BY <1>6, ModulusIs
<1>8. k \in Int /\ Same(k, (u + v) * (x + y) - u * x - v * y)
  <2> DEFINE ph == (u + v) * (x + y)
             pa == u * x
             pi == v * y
             d == h - a - i
  <2>1. ph \in Int /\ pa \in Int /\ pi \in Int /\ d \in Int BY <1>3, <1>7
  <2>2. Same(h, ph) /\ Same(a, pa) /\ Same(i, pi) BY <1>6
  <2> HIDE DEF ph, pa, pi
  <2>3. Same(d, ph - pa - pi) BY <1>7, <2>1, <2>2, ThreeTerms
  <2> HIDE DEF d
  <2>4. d % P \in Int /\ Same(d % P, ph - pa - pi) BY <2>1, <2>3, SameReduced DEF Same
  <2> QED BY <2>4 DEF d, ph, pa, pi
<1> HIDE DEF k
<1>9. IsSum(<<(k * n - e * c) % P, (n * m + c * l) % P, (m * e + l * k) % P>>, <<u, v, w>>, <<x, y>>)
  BY <1>3, <1>6, <1>7, <1>8, TailSum
<1> QED BY <1>2, <1>9 DEF x, y

(* Subtraction as the guest does it.                                       *)
LEMMA ModSubIs ==
  ASSUME NEW a \in Field, NEW b \in Field
  PROVE  mod_sub(a, b) = FSub(a, b)
<1>1. a \in Int /\ b \in Int /\ a - b \in Int /\ b - a \in Int BY ModulusIs
<1>2. CASE a >= b BY <1>2 DEF mod_sub, FSub
<1>3. CASE ~(a >= b)
  <2> DEFINE r == (b - a) % P
  <2>1. r \in Int /\ Same(r, b - a) BY <1>1, SameReduced
  <2> HIDE DEF r
  <2>2. P = 0 + P * 1 /\ P \in Int BY ModulusIs
  <2>3. Same(P, 0) BY <2>2, SameIsMultiple
  <2>4. Same(P - r, 0 - (b - a)) BY <1>1, <2>1, <2>2, <2>3, SameOps
  <2>5. 0 - (b - a) = a - b BY <1>1
  <2> QED BY <1>3, <2>4, <2>5 DEF mod_sub, FSub, Same, r
<1> QED BY <1>2, <1>3

(* What the guest's streamed tail computes.                                *)
LEMMA StreamedOutputsIs ==
  ASSUME NEW u \in Field, NEW v \in Field, NEW w \in Field, NEW x \in Field, NEW y \in Field
  PROVE  IsSum(StreamedOutputs(<<u, v, w>>, x, y), <<u, v, w>>, <<x, y>>)
<1> DEFINE g == FAdd(u, v)
           h == FMul(g, FAdd(x, y))
           a == FMul(u, x)
           o == FAdd(u, FMul(w, x))
           c == FMul(21, o)
           i == FMul(v, y)
           f == FMul(21, w)
           k == mod_sub(mod_sub(h, a), i)
           e == FAdd(v, FMul(y, w))
           l == FMul(3, a)
           m == FAdd(i, f)
           n == mod_sub(i, f)
           r == mod_sub(FMul(k, n), FMul(e, c))
<1>1. StreamedOutputs(<<u, v, w>>, x, y) = <<r, (n * m + c * l) % P, (m * e + l * k) % P>>
  BY DEF StreamedOutputs
<1>2. u \in Int /\ v \in Int /\ w \in Int /\ x \in Int /\ y \in Int BY ModulusIs
<1>2a. Same(u, u) /\ Same(v, v) /\ Same(w, w) /\ Same(x, x) BY SameSelf
<1>3. g \in Int /\ Same(g, u + v) BY <1>2, <1>2a, FieldOps
<1>4. o \in Int /\ Same(o, u + w * x)
  <2> DEFINE z == FMul(w, x)
             pz == w * x
  <2>1. z \in Int /\ pz \in Int /\ Same(z, pz) BY <1>2, <1>2a, FieldOps
  <2> HIDE DEF z, pz
  <2>2. FAdd(u, z) \in Int /\ Same(FAdd(u, z), u + pz) BY <1>2, <1>2a, <2>1, FieldOps
  <2> QED BY <2>2 DEF z, pz
<1> HIDE DEF g, o
<1>5. /\ a \in Field /\ Same(a, u * x) /\ i \in Field /\ Same(i, v * y) /\ f \in Field
      /\ h \in Field /\ Same(h, (u + v) * (x + y))
      /\ c \in Field /\ Same(c, (3 * B) * (u + w * x))
      /\ l \in Field /\ Same(l, 3 * (u * x)) /\ e \in Field /\ Same(e, v + y * w)
      /\ m \in Field /\ Same(m, v * y + (3 * B) * w)
      /\ FSub(i, f) \in Field /\ Same(FSub(i, f), v * y - (3 * B) * w)
  BY <1>3, <1>4, TailOperands
<1> HIDE DEF a, h, c, i, f, l, e, m
<1>6. /\ a \in Int /\ i \in Int /\ h \in Int /\ c \in Int /\ l \in Int /\ e \in Int /\ m \in Int
  BY <1>5, ModulusIs
<1>7. n \in Int /\ Same(n, v * y - (3 * B) * w) BY <1>5, ModSubIs, ModulusIs
<1>8. k \in Int /\ Same(k, (u + v) * (x + y) - u * x - v * y)
  <2> DEFINE ph == (u + v) * (x + y)
             pa == u * x
             pi == v * y
             pd == ph - pa
             d == FSub(h, a)
  <2>1. ph \in Int /\ pa \in Int /\ pi \in Int /\ pd \in Int BY <1>2
  <2>2. Same(h, ph) /\ Same(a, pa) /\ Same(i, pi) BY <1>5
  <2> HIDE DEF ph, pa, pi
  <2>3. d \in Field /\ d \in Int /\ Same(d, pd) BY <1>6, <2>1, <2>2, FieldOps
  <2>4. k = FSub(d, i)
    <3>1. mod_sub(h, a) = d BY <1>5, ModSubIs
    <3> QED BY <1>5, <2>3, <3>1, ModSubIs
  <2> HIDE DEF d, pd
  <2>5. k \in Int /\ Same(k, pd - pi) BY <1>6, <2>1, <2>2, <2>3, <2>4, FieldOps
  <2> QED BY <2>5 DEF pd, ph, pa, pi
<1> HIDE DEF k, n
<1>9. IsSum(<<(k * n - e * c) % P, (n * m + c * l) % P, (m * e + l * k) % P>>, <<u, v, w>>, <<x, y>>)
  BY <1>2, <1>5, <1>6, <1>7, <1>8, TailSum
<1>10. r = (k * n - e * c) % P
  <2> DEFINE s == FMul(k, n)   ps == k * n
             t == FMul(e, c)   pt == e * c
  <2>0. Same(k, k) /\ Same(n, n) /\ Same(e, e) /\ Same(c, c) BY SameSelf
  <2>1. /\ s \in Field /\ s \in Int /\ Same(s, ps) /\ ps \in Int
        /\ t \in Field /\ t \in Int /\ Same(t, pt) /\ pt \in Int
    BY <1>6, <1>7, <1>8, <2>0, FieldOps
  <2>2. r = FSub(s, t) BY <2>1, ModSubIs
  <2> HIDE DEF s, t, ps, pt
  <2>3. Same(s - t, ps - pt) BY <2>1, SameOps
  <2> QED BY <2>2, <2>3 DEF FSub, Same, s, t, ps, pt
<1> HIDE DEF r
<1> QED BY <1>1, <1>9, <1>10
-----------------------------------------------------------------------------
(***************************************************************************)
(* Points of the curve, and the polynomials on a chord, a tangent and a    *)
(* vertical line.                                                          *)
(***************************************************************************)
LEMMA ZeroIsMultiple ==
  ASSUME NEW r \in Int
  PROVE  Same(r, 0) <=> \E k \in Int : r = P * k
<1>1. \A k \in Int : 0 + P * k = P * k BY ModulusIs
<1> QED BY <1>1, SameIsMultiple

LEMMA ZeroSum == 
  ASSUME NEW a \in Int, NEW b \in Int
  PROVE  Same(a, b) <=> Same(a - b, 0)
<1>1. Same(a, a) /\ Same(b, b) BY SameSelf
<1>2. a - b \in Int /\ (a - b) + b = a /\ 0 + b = b /\ b - b = 0 OBVIOUS
<1>3. Same(a, b) => Same(a - b, b - b) BY <1>1, SameOps
<1>4. Same(a - b, 0) => Same((a - b) + b, 0 + b) BY <1>1, <1>2, SameOps
<1> QED BY <1>2, <1>3, <1>4

LEMMA NonZeroProduct ==
  ASSUME NEW a \in Int, NEW b \in Int, ~Same(a, 0), ~Same(b, 0)
  PROVE  ~Same(a * b, 0)
BY NoZeroDivisors

OnIt(x, y) == Same(y * y - x * x * x - B, 0)

LEMMA OnCurveIs == \A x, y : OnCurve(x, y) <=> OnIt(x, y)
<1>1. 0 % P = 0 BY ModulusIs, ModSmall DEF Field
<1> QED BY <1>1 DEF OnCurve, OnIt, Same

(* Being on the curve depends on the residues only.                        *)
LEMMA OnItAlike ==
  ASSUME NEW x \in Int, NEW y \in Int, NEW z \in Int, NEW w \in Int, Same(x, z), Same(y, w), OnIt(x, y)
  PROVE  OnIt(z, w)
<1> DEFINE yy == y * y  ww == w * w
           xx == x * x  zz == z * z
           x3 == xx * x z3 == zz * z
<1>1. /\ yy \in Int /\ ww \in Int /\ Same(yy, ww) /\ xx \in Int /\ zz \in Int /\ Same(xx, zz)
  BY SameOps
<1> HIDE DEF yy, ww, xx, zz
<1>2. x3 \in Int /\ z3 \in Int /\ Same(x3, z3) BY <1>1, SameOps
<1> HIDE DEF x3, z3
<1>3. B \in Int /\ Same(B, B) BY ConstantIs, SameSelf
<1>4. Same(yy - x3 - B, ww - z3 - B) BY <1>1, <1>2, <1>3, ThreeTerms
<1>5. Same(yy - x3 - B, 0) BY DEF yy, x3, xx, OnIt
<1>6. Same(ww - z3 - B, 0) BY <1>4, <1>5 DEF Same
<1> QED BY <1>6 DEF ww, z3, zz, OnIt

(* No point of the curve has order two.                                    *)
LEMMA OrdinateNotZero ==
  ASSUME NEW x \in Int, NEW y \in Int, OnIt(x, y)
  PROVE  ~Same(y, 0)
<1> SUFFICES ASSUME Same(y, 0) PROVE FALSE OBVIOUS
<1> DEFINE r == x % P
<1>1. r \in Field /\ r \in Int /\ Same(r, x) BY SameReduced
<1> HIDE DEF r
<1>2. Same(x, r) /\ 0 \in Int BY <1>1 DEF Same
<1>3. OnIt(r, 0) BY <1>1, <1>2, OnItAlike
<1> QED BY <1>1, <1>3, OnCurveIs, OrderAssumption

LEMMA TwoNotZero == ~Same(2, 0)
BY ModulusIs, ModSmall, CurveAssumption DEF Same, Field

(* The third point of a chord, mirrored, is on the curve.                  *)
LEMMA ChordOnCurve ==
  ASSUME NEW a \in Int, NEW c \in Int, NEW x \in Int, NEW y \in Int, OnIt(a, c), OnIt(x, y),
         ~Same(x - a, 0), NEW m \in Int, Same(m * (x - a), y - c),
         NEW s \in Int, NEW t \in Int, Same(s, m * m - a - x), Same(t, m * (a - s) - c)
  PROVE  OnIt(s, t)
<1> DEFINE d == x - a
           z == m * d + c
           w == m * (a - s) - c
           r1 == c * c - a * a * a - B
           r2 == z * z - x * x * x - B
           r3 == s - (m * m - a - x)
           f == w * w - s * s * s - B
<1>1. B \in Int BY ConstantIs
<1>2. /\ d \in Int /\ z \in Int /\ w \in Int /\ r1 \in Int /\ r2 \in Int /\ r3 \in Int /\ f \in Int
      /\ m * d \in Int /\ y - c \in Int /\ m * m - a - x \in Int
  BY <1>1
<1>3. Same(r1, 0) BY DEF OnIt
<1>4. Same(r2, 0)
  <2>1. Same(c, c) /\ Same(x, x) BY SameSelf
  <2>2. Same(m * d + c, (y - c) + c) BY <1>2, <2>1, SameOps
  <2>3. (y - c) + c = y OBVIOUS
  <2>4. Same(y, z) BY <2>2, <2>3 DEF Same
  <2>5. OnIt(x, z) BY <1>2, <2>1, <2>4, OnItAlike
  <2> QED BY <2>5 DEF OnIt
<1>5. Same(r3, 0) BY <1>2, ZeroSum
<1> DEFINE p == x - s
           q == s - a
           g == 0 - d * (s - a) * (s - x)
<1>6. d * f = p * r1 + q * r2 + g * r3 BY <1>1
<1>7. p \in Int /\ q \in Int /\ g \in Int /\ d * f \in Int BY <1>2
<1> HIDE DEF r1, r2, r3, f, z, d, p, q, g
<1>8. Same(d * f, 0)
  <2>1. PICK i \in Int : r1 = P * i BY <1>2, <1>3, ZeroIsMultiple
  <2>2. PICK j \in Int : r2 = P * j BY <1>2, <1>4, ZeroIsMultiple
  <2>3. PICK k \in Int : r3 = P * k BY <1>2, <1>5, ZeroIsMultiple
  <2>4. d * f = P * (p * i + q * j + g * k) /\ p * i + q * j + g * k \in Int
    BY <1>6, <1>7, <2>1, <2>2, <2>3, ModulusIs
  <2> QED BY <1>7, <2>4, ZeroIsMultiple
<1>9. Same(f, 0) BY <1>2, <1>8, NoZeroDivisors DEF d
<1>10. OnIt(s, w) BY <1>9 DEF OnIt, f
<1>11. Same(w, t) /\ Same(s, s) BY DEF Same
<1> QED BY <1>2, <1>10, <1>11, OnItAlike

(* And so is that of a tangent.                                            *)
LEMMA TangentOnCurve ==
  ASSUME NEW a \in Int, NEW c \in Int, OnIt(a, c), NEW m \in Int, Same(m * (2 * c), 3 * a * a),
         NEW s \in Int, NEW t \in Int, Same(s, m * m - a - a), Same(t, m * (a - s) - c)
  PROVE  OnIt(s, t)
<1> DEFINE w == m * (a - s) - c
           r1 == c * c - a * a * a - B
           r2 == m * (2 * c) - 3 * a * a
           r3 == s - (m * m - a - a)
           f == w * w - s * s * s - B
<1>1. B \in Int BY ConstantIs
<1>2. /\ w \in Int /\ r1 \in Int /\ r2 \in Int /\ r3 \in Int /\ f \in Int
      /\ m * m - a - a \in Int /\ m * (2 * c) \in Int /\ 3 * a * a \in Int
  BY <1>1
<1>3. Same(r1, 0) BY DEF OnIt
<1>4. Same(r2, 0) BY <1>2, ZeroSum
<1>5. Same(r3, 0) BY <1>2, ZeroSum
<1> DEFINE q == s - a
           g == 0 - (s - a) * (s - a)
<1>6. f = r1 + q * r2 + g * r3 BY <1>1
<1>7. q \in Int /\ g \in Int OBVIOUS
<1> HIDE DEF r1, r2, r3, f, q, g
<1>8. Same(f, 0)
  <2>1. PICK i \in Int : r1 = P * i BY <1>2, <1>3, ZeroIsMultiple
  <2>2. PICK j \in Int : r2 = P * j BY <1>2, <1>4, ZeroIsMultiple
  <2>3. PICK k \in Int : r3 = P * k BY <1>2, <1>5, ZeroIsMultiple
  <2>4. f = P * (i + q * j + g * k) /\ i + q * j + g * k \in Int
    BY <1>6, <1>7, <2>1, <2>2, <2>3, ModulusIs
  <2> QED BY <1>2, <2>4, ZeroIsMultiple
<1>9. OnIt(s, w) BY <1>8 DEF OnIt, f
<1>10. Same(w, t) /\ Same(s, s) BY DEF Same
<1> QED BY <1>2, <1>9, <1>10, OnItAlike

LEMMA ProductsAlike ==
  ASSUME NEW a \in Int, NEW b \in Int, NEW k \in Int, Same(a, b)
  PROVE  Same(k * a, k * b) /\ Same(a * k, b * k)
<1>1. Same(k, k) BY SameSelf
<1> QED BY <1>1, SameOps

(* The sum never vanishes with its Z when the points differ in x.          *)
LEMMA ChordDenominator ==
  ASSUME NEW a \in Int, NEW c \in Int, NEW x \in Int, NEW y \in Int, OnIt(a, c), OnIt(x, y),
         ~Same(x - a, 0)
  PROVE  ~Same(NumZ(a, c, 1, x, y), 0)
<1>1. PICK v \in Int : Same((x - a) * v, 1)
  <2>1. x - a \in Int OBVIOUS
  <2> QED BY <2>1, Invertible
<1> DEFINE d == x - a
           h == 0 - (y + c)
           m == h * v
           s == m * m - a - x
           t == m * (a - s) - c
           z == 0 - y
           nz == NumZ(a, c, 1, x, y)
<1>2. B \in Int BY ConstantIs
<1>3. /\ d \in Int /\ h \in Int /\ m \in Int /\ z \in Int /\ z - c \in Int /\ m * d \in Int
      /\ nz \in Int
  BY <1>1, <1>2 DEF NumZ
<1>3a. s \in Int BY <1>3
<1>3b. t \in Int BY <1>3, <1>3a
<1>4. Same(m * d, h)
  <2> DEFINE dv == d * v
             one == 1
  <2>1. dv \in Int /\ Same(dv, one) /\ one \in Int BY <1>1, <1>3
  <2>2. m = h * v /\ dv = d * v OBVIOUS
  <2> HIDE DEF d, h, m, dv
  <2>3. m * d = h * dv
    <3>1. (h * v) * d = h * (d * v) BY <1>1, <1>3
    <3> QED BY <2>2, <3>1
  <2>4. h * one = h BY <1>3
  <2> HIDE DEF one
  <2>5. Same(h * dv, h * one) BY <1>3, <2>1, ProductsAlike
  <2> QED BY <2>3, <2>4, <2>5
<1>5. OnIt(x, z)
  <2>1. z * z = y * y OBVIOUS
  <2> QED BY <2>1 DEF OnIt
<1>6. h = z - c OBVIOUS
<1>7. OnIt(s, t)
  <2>1. Same(s, m * m - a - x) /\ Same(t, m * (a - s) - c) BY SameSelf
  <2>2. Same(m * (x - a), z - c) BY <1>4, <1>6
  <2> HIDE DEF m, s, t, z, h
  <2> QED BY <1>3, <1>3a, <1>3b, <1>5, <2>1, <2>2, ChordOnCurve
<1>8. ~Same(t, 0) BY <1>3a, <1>3b, <1>7, OrdinateNotZero
<1> DEFINE r1 == c * c - a * a * a - B
           r2 == y * y - x * x * x - B
           r3 == h - m * d
           p == 0 - c - 2 * y
           q == 0 - 2 * c - y
           g == (a + a + x) * d * d - (h * h + h * m * d + m * m * d * d)
           dt == d * d * d * t
<1>9. Same(r1, 0) /\ Same(r2, 0) BY DEF OnIt
<1>10. Same(r3, 0)
  <2> HIDE DEF d, h, m
  <2>1. Same(h, m * d) BY <1>4 DEF Same
  <2> QED BY <1>3, <2>1, ZeroSum
<1>11. nz = dt + p * r1 + q * r2 + g * r3
  <2>1. d = x - a /\ h = 0 - (y + c) /\ s = m * m - a - x /\ t = m * (a - s) - c OBVIOUS
  <2> HIDE DEF m
  <2> QED BY <1>2, <1>3 DEF NumZ
<1>12. r1 \in Int /\ r2 \in Int /\ r3 \in Int /\ p \in Int /\ q \in Int /\ g \in Int /\ dt \in Int
  <2> HIDE DEF d, h, m, t
  <2> QED BY <1>2, <1>3, <1>3b
<1>13. ~Same(dt, 0)
  <2> HIDE DEF d, t
  <2>1. d * d \in Int /\ d * d * d \in Int /\ ~Same(d, 0) BY <1>3 DEF d
  <2>2. ~Same(d * d, 0) BY <1>3, <2>1, NonZeroProduct
  <2>3. ~Same(d * d * d, 0) BY <1>3, <2>1, <2>2, NonZeroProduct
  <2> QED BY <1>3b, <1>8, <2>1, <2>3, NonZeroProduct
<1> HIDE DEF r1, r2, r3, p, q, g, dt, nz
<1>14. Same(nz, dt)
  <2>1. PICK i \in Int : r1 = P * i BY <1>9, <1>12, ZeroIsMultiple
  <2>2. PICK j \in Int : r2 = P * j BY <1>9, <1>12, ZeroIsMultiple
  <2>3. PICK k \in Int : r3 = P * k BY <1>10, <1>12, ZeroIsMultiple
  <2>4. nz = dt + P * (p * i + q * j + g * k) /\ p * i + q * j + g * k \in Int
    BY <1>11, <1>12, <2>1, <2>2, <2>3, ModulusIs
  <2> QED BY <1>3, <1>12, <2>4, SameIsMultiple
<1>15. ~Same(nz, 0) BY <1>13, <1>14 DEF Same
<1> QED BY <1>15 DEF nz

(* On a chord the polynomials are its third point times their Z.           *)
LEMMA ChordSum ==
  ASSUME NEW a \in Int, NEW c \in Int, NEW x \in Int, NEW y \in Int, OnIt(a, c), OnIt(x, y),
         ~Same(x - a, 0), NEW m \in Int, Same(m * (x - a), y - c),
         NEW s \in Int, NEW t \in Int, Same(s, m * m - a - x), Same(t, m * (a - s) - c)
  PROVE  /\ Same(NumX(a, c, 1, x, y), NumZ(a, c, 1, x, y) * s)
         /\ Same(NumY(a, c, 1, x, y), NumZ(a, c, 1, x, y) * t)
<1> DEFINE d == x - a
           n == y - c
           r1 == c * c - a * a * a - B
           r2 == y * y - x * x * x - B
           e1 == n - m * d
           e2 == s - (m * m - a - x)
           e3 == t - (m * (a - s) - c)
           u == n * n - (a + x) * d * d
           w == n * (a * d * d - u) - c * d * d * d
           nx == NumX(a, c, 1, x, y)
           ny == NumY(a, c, 1, x, y)
           nz == NumZ(a, c, 1, x, y)
<1>1. B \in Int BY ConstantIs
<1>2. /\ d \in Int /\ n \in Int /\ r1 \in Int /\ r2 \in Int /\ m * d \in Int
      /\ m * m - a - x \in Int /\ m * (a - s) - c \in Int
      /\ e1 \in Int /\ e2 \in Int /\ e3 \in Int /\ u \in Int
      /\ nx \in Int /\ ny \in Int /\ nz \in Int
  BY <1>1 DEF NumX, NumY, NumZ
<1>3. PICK i \in Int : r1 = P * i
  <2>1. Same(r1, 0) BY DEF OnIt
  <2> HIDE DEF r1
  <2> QED BY <1>2, <2>1, ZeroIsMultiple
<1>4. PICK j \in Int : r2 = P * j
  <2>1. Same(r2, 0) BY DEF OnIt
  <2> HIDE DEF r2
  <2> QED BY <1>2, <2>1, ZeroIsMultiple
<1>5. PICK k1 \in Int : e1 = P * k1
  <2>1. Same(n, m * d) BY DEF Same
  <2>2. Same(e1, 0) BY <1>2, <2>1, ZeroSum
  <2> HIDE DEF e1
  <2> QED BY <1>2, <2>2, ZeroIsMultiple
<1>6. PICK k2 \in Int : e2 = P * k2
  <2>1. Same(e2, 0) BY <1>2, ZeroSum
  <2> HIDE DEF e2
  <2> QED BY <1>2, <2>1, ZeroIsMultiple
<1>7. PICK k3 \in Int : e3 = P * k3
  <2>1. Same(e3, 0) BY <1>2, ZeroSum
  <2> HIDE DEF e3
  <2> QED BY <1>2, <2>1, ZeroIsMultiple
<1> DEFINE p1 == n + m * d
           p2 == d * d
           uu == d * d * s
<1>8. u = uu + p1 * e1 + (0 - p2) * e2 BY <1>2
<1>9. p1 \in Int /\ p2 \in Int /\ uu \in Int BY <1>2
<1> DEFINE ad == a * d * d
           q1 == ad - u
           q2 == m * d
           d3 == d * d * d
           ww == d3 * t
<1>10. w = ww + q1 * e1 + (0 - q2) * (u - uu) + (0 - d3) * e3
  <2>1. n = m * d + e1 /\ t = m * (a - s) - c + e3 /\ ad = a * d * d /\ uu = d * d * s BY <1>2
  <2> HIDE DEF e1, e3, u, uu, d, ad, n
  <2> QED BY <1>1, <1>2, <1>9, <2>1
<1>11. ad \in Int /\ q1 \in Int /\ q2 \in Int /\ d3 \in Int /\ ww \in Int /\ w \in Int
  <2> HIDE DEF d, u, n
  <2> QED BY <1>2
<1>12. Same(u, uu)
  <2> HIDE DEF u, uu, p1, p2, e1, e2
  <2>1. u = uu + P * (p1 * k1 + (0 - p2) * k2) /\ p1 * k1 + (0 - p2) * k2 \in Int
    BY <1>2, <1>5, <1>6, <1>8, <1>9, ModulusIs
  <2> QED BY <1>2, <1>9, <2>1, SameIsMultiple
<1>13. Same(w, ww)
  <2>1. PICK l \in Int : u = uu + P * l BY <1>2, <1>9, <1>12, SameIsMultiple
  <2> HIDE DEF u, uu, w, ww, q1, q2, d3, e1, e3
  <2>2. u - uu = P * l BY <2>1, <1>2, <1>9, ModulusIs
  <2>3. w = ww + P * (q1 * k1 + (0 - q2) * l + (0 - d3) * k3) /\ q1 * k1 + (0 - q2) * l + (0 - d3) * k3 \in Int
    BY <1>5, <1>7, <1>10, <1>11, <2>2, ModulusIs
  <2> QED BY <1>11, <2>3, SameIsMultiple
<1>14. ~Same(d, 0) /\ ~Same(p2, 0) /\ ~Same(d3, 0)
  <2>1. ~Same(d, 0) OBVIOUS
  <2> HIDE DEF d
  <2>2. ~Same(p2, 0) BY <1>2, <2>1, NonZeroProduct
  <2>3. d3 = p2 * d BY <1>2
  <2> HIDE DEF p2, d3
  <2>4. ~Same(d3, 0) BY <1>2, <1>9, <2>1, <2>2, <2>3, NonZeroProduct
  <2> QED BY <2>1, <2>2, <2>4
(* The identities in the coordinates of the two points.                    *)
<1> DEFINE g1 == 0-3*a*a*x*y - 3*a*c*x*x + 3*a*x*x*y - c*c*y + 3*c*x*x*x - 2*c*y*y + 3*y*y*y
           g2 == 3*a*a*a*y + 3*a*a*c*x - 3*a*a*x*y - 3*a*c*x*x + 3*c*c*c - 2*c*c*y - c*y*y
           h1 == 0-9*a*a*a*x*x*x + 9*a*a*a*y*y - 9*a*a*a*B - 3*a*a*c*x*y + 18*a*a*x*x*x*x -
                 12*a*a*x*y*y + 27*a*a*x*B - 3*a*c*c*x*x + 6*a*c*x*x*y - 9*a*x*x*x*x*x -
                 27*a*x*x*B - c*c*c*y + 3*c*c*x*x*x - c*c*y*y - 3*c*x*x*x*y + 5*c*y*y*y +
                 3*x*x*x*y*y + 9*x*x*x*B - 3*y*y*y*y
           h2 == 9*a*a*a*a*a*a - 18*a*a*a*a*a*x + 9*a*a*a*a*x*x - 12*a*a*a*c*c + 3*a*a*a*c*y -
                 3*a*a*a*y*y + 27*a*a*c*c*x - 6*a*a*c*x*y + 3*a*a*x*y*y - 15*a*c*c*x*x +
                 3*a*c*x*x*y + 3*c*c*c*c - 5*c*c*c*y + c*c*y*y + c*y*y*y
<1>15. nx * p2 = nz * u + g1 * r1 + g2 * r2 BY <1>1 DEF NumX, NumZ
<1>16. ny * d3 = nz * w + h1 * r1 + h2 * r2 BY <1>1 DEF NumY, NumZ
<1>17. g1 \in Int /\ g2 \in Int /\ h1 \in Int /\ h2 \in Int BY <1>1
<1> HIDE DEF g1, g2, h1, h2, r1, r2, nx, ny, nz, u, w, d3, p2, ww, uu, d
<1>18. Same(nx * p2, nz * u)
  <2>1. nx * p2 = nz * u + P * (g1 * i + g2 * j) /\ g1 * i + g2 * j \in Int
    BY <1>2, <1>3, <1>4, <1>9, <1>15, <1>17, ModulusIs
  <2>2. nx * p2 \in Int /\ nz * u \in Int BY <1>2, <1>9
  <2> QED BY <2>1, <2>2, SameIsMultiple
<1>19. Same(ny * d3, nz * w)
  <2>1. ny * d3 = nz * w + P * (h1 * i + h2 * j) /\ h1 * i + h2 * j \in Int
    BY <1>2, <1>3, <1>4, <1>11, <1>16, <1>17, ModulusIs
  <2>2. ny * d3 \in Int /\ nz * w \in Int BY <1>2, <1>11
  <2> QED BY <2>1, <2>2, SameIsMultiple
<1>20. Same(nx, nz * s)
  <2>1. Same(nz * u, nz * uu) BY <1>2, <1>9, <1>12, ProductsAlike
  <2>2. nz * uu = (nz * s) * p2 BY <1>2, <1>9 DEF uu, p2
  <2>3. Same(nx * p2, (nz * s) * p2) /\ nz * s \in Int BY <1>2, <1>18, <2>1, <2>2 DEF Same
  <2> QED BY <1>2, <1>9, <1>14, <2>3, Cancelled
<1>21. Same(ny, nz * t)
  <2>1. Same(nz * w, nz * ww) BY <1>2, <1>11, <1>13, ProductsAlike
  <2>2. nz * ww = (nz * t) * d3 BY <1>2, <1>11 DEF ww
  <2>3. Same(ny * d3, (nz * t) * d3) /\ nz * t \in Int BY <1>2, <1>19, <2>1, <2>2 DEF Same
  <2> QED BY <1>2, <1>11, <1>14, <2>3, Cancelled
<1> QED BY <1>20, <1>21 DEF nx, ny, nz

LEMMA NumIsInt ==
  ASSUME NEW u \in Int, NEW v \in Int, NEW w \in Int, NEW x \in Int, NEW y \in Int
  PROVE  NumX(u, v, w, x, y) \in Int /\ NumY(u, v, w, x, y) \in Int /\ NumZ(u, v, w, x, y) \in Int
BY ConstantIs DEF NumX, NumY, NumZ

(* Twice the ordinate of a point is not zero.                              *)
LEMMA TwiceNotZero ==
  ASSUME NEW a \in Int, NEW c \in Int, OnIt(a, c)
  PROVE  ~Same(2 * c, 0) /\ ~Same(8 * c * c * c, 0)
<1>1. ~Same(c, 0) BY OrdinateNotZero
<1> DEFINE e == 2 * c
           f == e * e
           g == f * e
<1>2. ~Same(e, 0) /\ e \in Int /\ f \in Int /\ g \in Int BY <1>1, TwoNotZero, NonZeroProduct
<1>3. 8 * c * c * c = g OBVIOUS
<1> HIDE DEF e
<1>4. ~Same(f, 0) BY <1>2, NonZeroProduct
<1> HIDE DEF f
<1>5. ~Same(g, 0) BY <1>2, <1>4, NonZeroProduct
<1> QED BY <1>2, <1>3, <1>5 DEF e

(* On a tangent they are its third point times (2y)^3.                     *)
LEMMA TangentSum ==
  ASSUME NEW a \in Int, NEW c \in Int, OnIt(a, c), NEW m \in Int, Same(m * (2 * c), 3 * a * a),
         NEW s \in Int, NEW t \in Int, Same(s, m * m - a - a), Same(t, m * (a - s) - c)
  PROVE  /\ Same(NumZ(a, c, 1, a, c), 8 * c * c * c)
         /\ Same(NumX(a, c, 1, a, c), 8 * c * c * c * s)
         /\ Same(NumY(a, c, 1, a, c), 8 * c * c * c * t)
<1> DEFINE r1 == c * c - a * a * a - B
           e1 == m * (2 * c) - 3 * a * a
           e2 == s - (m * m - a - a)
           e3 == t - (m * (a - s) - c)
           nx == NumX(a, c, 1, a, c)
           ny == NumY(a, c, 1, a, c)
           nz == NumZ(a, c, 1, a, c)
           k == 8 * c * c * c
           ks == 8 * c * c * c * s
           kt == 8 * c * c * c * t
<1>1. B \in Int /\ nx \in Int /\ ny \in Int /\ nz \in Int
  <2>1. B \in Int /\ 1 \in Int BY ConstantIs
  <2>2. nx \in Int /\ ny \in Int /\ nz \in Int BY <2>1, NumIsInt
  <2> QED BY <2>1, <2>2
<1>2. /\ r1 \in Int /\ e1 \in Int /\ e2 \in Int /\ e3 \in Int /\ k \in Int /\ ks \in Int /\ kt \in Int
      /\ m * (2 * c) \in Int /\ 3 * a * a \in Int /\ m * m - a - a \in Int /\ m * (a - s) - c \in Int
  BY <1>1
<1>3. Same(r1, 0) /\ Same(e1, 0) /\ Same(e2, 0) /\ Same(e3, 0)
  <2>1. Same(r1, 0) BY DEF OnIt
  <2> DEFINE d1 == m * (2 * c)   n1 == 3 * a * a
             n2 == m * m - a - a
             n3 == m * (a - s) - c
  <2>a. /\ d1 \in Int /\ n1 \in Int /\ n2 \in Int /\ n3 \in Int
        /\ Same(d1, n1) /\ Same(s, n2) /\ Same(t, n3)
        /\ e1 = d1 - n1 /\ e2 = s - n2 /\ e3 = t - n3
    BY <1>2
  <2> HIDE DEF d1, n1, n2, n3, e1, e2, e3
  <2>2. Same(e1, 0) BY <2>a, ZeroSum
  <2>3. Same(e2, 0) BY <2>a, ZeroSum
  <2>4. Same(e3, 0) BY <2>a, ZeroSum
  <2> QED BY <2>1, <2>2, <2>3, <2>4
<1> DEFINE p == 0 - 6 * c
           q1 == 18 * a * c
           q2 == 0 - 2 * c * (2 * c * m + 3 * a * a)
           q3 == 0 - k
           g1 == 9 * B + 9 * c * c - 27 * a * a * a
           g2 == 3 * a * a * (2 * c * m + 3 * a * a) - 4 * c * c * (a - s)
           g3 == 12 * a * a * c * c
<1>4. nz = k + p * r1 BY <1>1 DEF NumZ
<1>5. nx = ks + q1 * r1 + q2 * e1 + q3 * e2 BY <1>1 DEF NumX
<1>6. ny = kt + g1 * r1 + g2 * e1 + g3 * e2 + q3 * e3 BY <1>1 DEF NumY
<1>7. /\ p \in Int /\ q1 \in Int /\ q2 \in Int /\ q3 \in Int /\ g1 \in Int /\ g2 \in Int /\ g3 \in Int
  BY <1>1, <1>2
<1> HIDE DEF r1, e1, e2, e3, nx, ny, nz, k, ks, kt, p, q1, q2, q3, g1, g2, g3
<1>8. PICK i1 \in Int : r1 = P * i1 BY <1>2, <1>3, ZeroIsMultiple
<1>9. PICK i2 \in Int : e1 = P * i2 BY <1>2, <1>3, ZeroIsMultiple
<1>10. PICK i3 \in Int : e2 = P * i3 BY <1>2, <1>3, ZeroIsMultiple
<1>11. PICK i4 \in Int : e3 = P * i4 BY <1>2, <1>3, ZeroIsMultiple
<1>12. Same(nz, k)
  <2>1. nz = k + P * (p * i1) /\ p * i1 \in Int BY <1>1, <1>2, <1>4, <1>7, <1>8, ModulusIs
  <2> QED BY <1>1, <1>2, <2>1, SameIsMultiple
<1>13. Same(nx, ks)
  <2>1. nx = ks + P * (q1 * i1 + q2 * i2 + q3 * i3) /\ q1 * i1 + q2 * i2 + q3 * i3 \in Int
    BY <1>1, <1>2, <1>5, <1>7, <1>8, <1>9, <1>10, ModulusIs
  <2> QED BY <1>1, <1>2, <2>1, SameIsMultiple
<1>14. Same(ny, kt)
  <2>1. /\ ny = kt + P * (g1 * i1 + g2 * i2 + g3 * i3 + q3 * i4)
        /\ g1 * i1 + g2 * i2 + g3 * i3 + q3 * i4 \in Int
    BY <1>1, <1>2, <1>6, <1>7, <1>8, <1>9, <1>10, <1>11, ModulusIs
  <2> QED BY <1>1, <1>2, <2>1, SameIsMultiple
<1> QED BY <1>12, <1>13, <1>14 DEF nx, ny, nz, k, ks, kt

LEMMA SlopeExists ==
  ASSUME NEW d \in Int, NEW n \in Int, ~Same(d, 0)
  PROVE  \E m \in Int : Same(m * d, n)
<1>1. PICK v \in Int : Same(d * v, 1) BY Invertible
<1> DEFINE dv == d * v
           one == 1
           m == n * v
<1>2. dv \in Int /\ one \in Int /\ Same(dv, one) BY <1>1
<1>3. n * one = n OBVIOUS
<1>4. m * d = n * dv /\ m \in Int BY <1>1
<1> HIDE DEF dv, one, m
<1>5. Same(n * dv, n * one) BY <1>2, ProductsAlike
<1> QED BY <1>3, <1>4, <1>5

(* A point and its inverse: infinity, with an ordinate that is not zero.   *)
LEMMA InverseSum ==
  ASSUME NEW a \in Int, NEW c \in Int, NEW y \in Int, OnIt(a, c), Same(y, 0 - c)
  PROVE  /\ Same(NumX(a, c, 1, a, y), 0) /\ Same(NumZ(a, c, 1, a, y), 0)
         /\ ~Same(NumY(a, c, 1, a, y), 0)
<1> DEFINE e == y + c
           nx == NumX(a, c, 1, a, y)
           ny == NumY(a, c, 1, a, y)
           nz == NumZ(a, c, 1, a, y)
           my == NumY(a, c, 1, a, c)
<1>1. B \in Int /\ nx \in Int /\ ny \in Int /\ nz \in Int /\ my \in Int
  <2>1. B \in Int /\ 1 \in Int BY ConstantIs
  <2>2. nx \in Int /\ ny \in Int /\ nz \in Int BY <2>1, NumIsInt
  <2>3. my \in Int BY <2>1, NumIsInt
  <2> QED BY <2>1, <2>2, <2>3
<1>2. PICK i \in Int : e = P * i
  <2>1. y - (0 - c) = e /\ 0 - c \in Int /\ e \in Int OBVIOUS
  <2>2. Same(e, 0) BY <2>1, ZeroSum
  <2> HIDE DEF e
  <2> QED BY <2>1, <2>2, ZeroIsMultiple
<1> DEFINE p == a * (c * y - 3 * B) - 6 * B * a
           q == (c * y + 3 * B) + 3 * a * a * a
           g == c * c * (y - c)
<1>3. nx = p * e /\ nz = q * e /\ ny = my + g * e BY <1>1 DEF NumX, NumY, NumZ
<1>4. p \in Int /\ q \in Int /\ g \in Int /\ e \in Int BY <1>1
<1>5. ~Same(my, 0)
  <2>1. PICK m \in Int : Same(m * (2 * c), 3 * a * a)
    <3> DEFINE d == 2 * c
               n == 3 * a * a
    <3>1. d \in Int /\ n \in Int /\ ~Same(d, 0) BY TwiceNotZero
    <3> HIDE DEF d, n
    <3>2. \E m \in Int : Same(m * d, n) BY <3>1, SlopeExists
    <3> QED BY <3>2 DEF d, n
  <2> DEFINE s == m * m - a - a
             t == m * (a - s) - c
             k == 8 * c * c * c
  <2>2. s \in Int /\ Same(s, s) BY SameSelf
  <2>3. t \in Int /\ Same(t, t) /\ k \in Int BY <2>2, SameSelf
  <2>4. OnIt(s, t)
    <3>1. Same(s, m * m - a - a) /\ Same(t, m * (a - s) - c) BY <2>2, <2>3
    <3> HIDE DEF s, t
    <3> QED BY <2>1, <2>2, <2>3, <3>1, TangentOnCurve
  <2>5. Same(my, k * t)
    <3>1. Same(s, m * m - a - a) /\ Same(t, m * (a - s) - c) BY <2>2, <2>3
    <3> HIDE DEF s, t
    <3> QED BY <2>1, <2>2, <2>3, <3>1, TangentSum
  <2>6. ~Same(t, 0)
    <3> HIDE DEF s, t
    <3> QED BY <2>2, <2>3, <2>4, OrdinateNotZero
  <2>7. ~Same(k, 0) BY TwiceNotZero
  <2> HIDE DEF s, t, k, my
  <2>8. ~Same(k * t, 0) BY <2>3, <2>6, <2>7, NonZeroProduct
  <2> QED BY <2>5, <2>8 DEF Same
<1> HIDE DEF e, nx, ny, nz, my, p, q, g
<1>6. nx = P * (p * i) /\ p * i \in Int /\ nz = P * (q * i) /\ q * i \in Int
      /\ ny = my + P * (g * i) /\ g * i \in Int
  BY <1>1, <1>2, <1>3, <1>4, ModulusIs
<1>7. Same(nx, 0) /\ Same(nz, 0) BY <1>1, <1>6, ZeroIsMultiple
<1>8. Same(ny, my) BY <1>1, <1>6, SameIsMultiple
<1>9. ~Same(ny, 0) BY <1>5, <1>8 DEF Same
<1> QED BY <1>7, <1>9 DEF nx, ny, nz

(* The formulas are homogeneous in the accumulator.                        *)
LEMMA NumScaled ==
  ASSUME NEW a \in Int, NEW c \in Int, NEW w \in Int, NEW x \in Int, NEW y \in Int
  PROVE  /\ NumX(a * w, c * w, w, x, y) = w * w * NumX(a, c, 1, x, y)
         /\ NumY(a * w, c * w, w, x, y) = w * w * NumY(a, c, 1, x, y)
         /\ NumZ(a * w, c * w, w, x, y) = w * w * NumZ(a, c, 1, x, y)
BY ConstantIs DEF NumX, NumY, NumZ

(* The polynomials depend on the residues only.                            *)
LEMMA NumAlike ==
  ASSUME NEW u \in Int, NEW v \in Int, NEW w \in Int, NEW x \in Int, NEW y \in Int,
         NEW u1 \in Int, NEW v1 \in Int, Same(u, u1), Same(v, v1)
  PROVE  /\ Same(NumX(u, v, w, x, y), NumX(u1, v1, w, x, y))
         /\ Same(NumY(u, v, w, x, y), NumY(u1, v1, w, x, y))
         /\ Same(NumZ(u, v, w, x, y), NumZ(u1, v1, w, x, y))
<1>1. PICK i \in Int : u = u1 + P * i BY SameIsMultiple
<1>2. PICK j \in Int : v = v1 + P * j BY SameIsMultiple
<1> DEFINE al == u * y + x * v      al1 == u1 * y + x * v1
           be == v * y - 3 * B * w  be1 == v1 * y - 3 * B * w
           ga == v * y + 3 * B * w  ga1 == v1 * y + 3 * B * w
           de == u + x * w          de1 == u1 + x * w
           th == v + y * w          th1 == v1 + y * w
           et == 3 * B * th         et1 == 3 * B * th1
           ze == 3 * u * x          ze1 == 3 * u1 * x
           xi == 9 * B * u * x      xi1 == 9 * B * u1 * x
<1>3. B \in Int /\ P \in Int BY ConstantIs, ModulusIs
<1>4. /\ al \in Int /\ be \in Int /\ ga \in Int /\ de \in Int /\ th \in Int
      /\ al1 \in Int /\ be1 \in Int /\ ga1 \in Int /\ de1 \in Int /\ th1 \in Int
  BY <1>3
<1>5. /\ et \in Int /\ ze \in Int /\ xi \in Int /\ et1 \in Int /\ ze1 \in Int /\ xi1 \in Int
  BY <1>3
<1>6. /\ al = al1 + P * (i * y + x * j) /\ i * y + x * j \in Int
      /\ be = be1 + P * (j * y) /\ ga = ga1 + P * (j * y) /\ j * y \in Int
      /\ de = de1 + P * i /\ th = th1 + P * j
  BY <1>1, <1>2, <1>3
<1>7. /\ et = et1 + P * (3 * B * j) /\ 3 * B * j \in Int
      /\ ze = ze1 + P * (3 * i * x) /\ 3 * i * x \in Int
      /\ xi = xi1 + P * (9 * B * i * x) /\ 9 * B * i * x \in Int
  BY <1>1, <1>2, <1>3
<1>8. /\ NumX(u, v, w, x, y) = al * be - et * de
      /\ NumX(u1, v1, w, x, y) = al1 * be1 - et1 * de1
      /\ NumY(u, v, w, x, y) = ga * be + xi * de
      /\ NumY(u1, v1, w, x, y) = ga1 * be1 + xi1 * de1
      /\ NumZ(u, v, w, x, y) = ga * th + ze * al
      /\ NumZ(u1, v1, w, x, y) = ga1 * th1 + ze1 * al1
  BY <1>3 DEF NumX, NumY, NumZ
<1> HIDE DEF al, be, ga, de, th, et, ze, xi, al1, be1, ga1, de1, th1, et1, ze1, xi1
<1>9. Same(al, al1) /\ Same(be, be1) /\ Same(ga, ga1) /\ Same(de, de1) /\ Same(th, th1)
  BY <1>4, <1>6, SameIsMultiple
<1>10. Same(et, et1) /\ Same(ze, ze1) /\ Same(xi, xi1)
  BY <1>5, <1>7, SameIsMultiple
<1>11. Same(NumX(u, v, w, x, y), NumX(u1, v1, w, x, y))
  <2> DEFINE f == al * be   f1 == al1 * be1
             g == et * de   g1 == et1 * de1
  <2>1. f \in Int /\ f1 \in Int /\ Same(f, f1) BY <1>4, <1>9, SameOps
  <2>2. g \in Int /\ g1 \in Int /\ Same(g, g1) BY <1>4, <1>5, <1>9, <1>10, SameOps
  <2> HIDE DEF f, g, f1, g1
  <2>3. Same(f - g, f1 - g1) BY <2>1, <2>2, SameOps
  <2> QED BY <1>8, <2>3 DEF f, g, f1, g1
<1>12. Same(NumY(u, v, w, x, y), NumY(u1, v1, w, x, y))
  <2> DEFINE f == ga * be   f1 == ga1 * be1
             g == xi * de   g1 == xi1 * de1
  <2>1. f \in Int /\ f1 \in Int /\ Same(f, f1) BY <1>4, <1>9, SameOps
  <2>2. g \in Int /\ g1 \in Int /\ Same(g, g1) BY <1>4, <1>5, <1>9, <1>10, SameOps
  <2> HIDE DEF f, g, f1, g1
  <2>3. Same(f + g, f1 + g1) BY <2>1, <2>2, SameOps
  <2> QED BY <1>8, <2>3 DEF f, g, f1, g1
<1>13. Same(NumZ(u, v, w, x, y), NumZ(u1, v1, w, x, y))
  <2> DEFINE f == ga * th   f1 == ga1 * th1
             g == ze * al   g1 == ze1 * al1
  <2>1. f \in Int /\ f1 \in Int /\ Same(f, f1) BY <1>4, <1>9, SameOps
  <2>2. g \in Int /\ g1 \in Int /\ Same(g, g1) BY <1>4, <1>5, <1>9, <1>10, SameOps
  <2> HIDE DEF f, g, f1, g1
  <2>3. Same(f + g, f1 + g1) BY <2>1, <2>2, SameOps
  <2> QED BY <1>8, <2>3 DEF f, g, f1, g1
<1> QED BY <1>11, <1>12, <1>13
-----------------------------------------------------------------------------
(***************************************************************************)
(* The affine group law, arm by arm, and that the polynomials are          *)
(* coordinates of its result.                                              *)
(***************************************************************************)
(* Dividing by a field element.                                            *)
LEMMA QuotientIs ==
  ASSUME NEW n \in Int, NEW d \in Field, d # 0
  PROVE  /\ FMul(n, FInv(d)) \in Field /\ FMul(n, FInv(d)) \in Int
         /\ Same(FMul(n, FInv(d)) * d, n)
<1> DEFINE v == FInv(d)
           m == FMul(n, v)
           one == 1
           dv == d * v
<1>1. v \in Int /\ dv \in Int /\ Same(dv, one) /\ d \in Int /\ one \in Int
  BY InverseIs, ModulusIs
<1> HIDE DEF v
<1>2. n \in Int /\ Same(n, n) /\ Same(v, v) BY SameSelf
<1>3. m \in Field /\ m \in Int /\ Same(m, n * v) /\ n * v \in Int BY <1>1, <1>2, FieldOps
<1>4. (n * v) * d = n * dv BY <1>1
<1>5. n * one = n OBVIOUS
<1> HIDE DEF m, dv, one
<1>6. Same(m * d, (n * v) * d) BY <1>1, <1>3, ProductsAlike
<1>7. Same(n * dv, n * one) BY <1>1, ProductsAlike
<1>8. Same(m * d, n) BY <1>4, <1>5, <1>6, <1>7 DEF Same
<1> QED BY <1>3, <1>8 DEF m, v

(* Zero is the only field element congruent to it.                         *)
LEMMA NotSameIs ==
  ASSUME NEW a \in Field
  PROVE  Same(a, 0) <=> a = 0
BY SameInField, ModulusIs, SameSelf

(* r are projective coordinates of the affine point pt.                    *)
Represents(r, pt) ==
  IF pt = None THEN r[1] = 0 /\ r[2] # 0 /\ r[3] = 0
  ELSE r[3] # 0 /\ Same(r[1], r[3] * pt[1]) /\ Same(r[2], r[3] * pt[2])

(* The coordinates of the sum of <<a, c>> and <<x, y>> in terms of nx, ny, *)
(* nz.                                                                     *)
SumIs(sum, nx, ny, nz) ==
  IF sum = None THEN Same(nx, 0) /\ ~Same(ny, 0) /\ Same(nz, 0)
  ELSE ~Same(nz, 0) /\ Same(nx, nz * sum[1]) /\ Same(ny, nz * sum[2])

LEMMA PointIs ==
  ASSUME NEW pt \in AffinePoint, pt # None
  PROVE  /\ pt[1] \in Field /\ pt[2] \in Field /\ pt = <<pt[1], pt[2]>>
         /\ pt[1] \in Int /\ pt[2] \in Int /\ OnIt(pt[1], pt[2])
<1>1. pt \in Field \X Field /\ OnCurve(pt[1], pt[2]) BY DEF AffinePoint
<1>2. OnIt(pt[1], pt[2]) BY <1>1, OnCurveIs
<1>3. pt[1] \in Field /\ pt[2] \in Field /\ pt = <<pt[1], pt[2]>> BY <1>1
<1>4. pt[1] \in Int /\ pt[2] \in Int BY <1>3, ModulusIs
<1> QED BY <1>2, <1>3, <1>4

(* Which arm of add_affine is taken.                                       *)
LEMMA AddArms ==
  ASSUME NEW pa, NEW qa, pa # None, qa # None
  PROVE  /\ qa = neg_affine(pa) => add_affine(pa, qa) = None
         /\ qa # neg_affine(pa) =>
              LET lam == IF pa[1] = qa[1]
                         THEN FMul(3 * pa[1] * pa[1], FInv((2 * pa[2]) % P))
                         ELSE FMul(qa[2] - pa[2], FInv(FSub(qa[1], pa[1])))
                  x3  == (lam * lam - pa[1] - qa[1]) % P
              IN  add_affine(pa, qa) = <<x3, (lam * (pa[1] - x3) - pa[2]) % P>>
BY DEF add_affine

LEMMA PairIsPoint ==
  ASSUME NEW x \in Field, NEW y \in Field, OnIt(x, y)
  PROVE  <<x, y>> \in AffinePoint /\ <<x, y>> # None
BY OnCurveIs DEF AffinePoint, None

(* The chord through two points, and its slope.                            *)
LEMMA ChordPoint ==
  ASSUME NEW a \in Field, NEW c \in Field, NEW x \in Field, NEW y \in Field,
         OnIt(a, c), OnIt(x, y), a # x
  PROVE  LET d == FSub(x, a)
             sum == add_affine(<<a, c>>, <<x, y>>)
         IN  /\ d \in Field /\ d # 0 /\ Same(d, x - a)
             /\ \E m \in Int, s \in Field, t \in Field :
                  /\ sum = <<s, t>> /\ OnIt(s, t) /\ Same(m * d, y - c)
                  /\ Same(m * (x - a), y - c)
                  /\ Same(s, m * m - a - x) /\ Same(t, m * (a - s) - c)
<1> DEFINE d == FSub(x, a)
           n == y - c
           e == x - a
           m == FMul(n, FInv(d))
           s == (m * m - a - x) % P
           t == (m * (a - s) - c) % P
           sum == add_affine(<<a, c>>, <<x, y>>)
<1>1. a \in Int /\ c \in Int /\ x \in Int /\ y \in Int /\ n \in Int /\ e \in Int BY ModulusIs
<1>2. Same(a, a) /\ Same(x, x) BY SameSelf
<1>3. d \in Field /\ d \in Int /\ Same(d, e) BY <1>1, <1>2, FieldOps
<1>4. ~Same(e, 0)
  <2>1. ~Same(x, a) BY SameInField
  <2> QED BY <1>1, <2>1, ZeroSum
<1>5. d # 0 BY <1>3, <1>4 DEF Same
<1>6. sum = <<s, t>>
  <2>1. <<x, y>> # neg_affine(<<a, c>>) BY DEF neg_affine, None
  <2>2. <<a, c>> # None /\ <<x, y>> # None BY DEF None
  <2>3. LET lam == IF a = x THEN FMul(3 * a * a, FInv((2 * c) % P))
                            ELSE FMul(y - c, FInv(FSub(x, a)))
            x3  == (lam * lam - a - x) % P
        IN  sum = <<x3, (lam * (a - x3) - c) % P>>
    BY <2>1, <2>2, AddArms
  <2> QED BY <2>3
<1> HIDE DEF d, n, e
<1>7. m \in Field /\ m \in Int /\ Same(m * d, n) BY <1>1, <1>3, <1>5, QuotientIs
<1> HIDE DEF m, sum
<1>8. Same(m * e, n)
  <2>1. Same(m * d, m * e) BY <1>1, <1>3, <1>7, ProductsAlike
  <2> QED BY <1>7, <2>1 DEF Same
<1>9. s \in Field /\ s \in Int /\ Same(s, m * m - a - x)
  <2>1. m * m - a - x \in Int BY <1>1, <1>7
  <2> QED BY <2>1, SameReduced
<1> HIDE DEF s
<1>10. t \in Field /\ t \in Int /\ Same(t, m * (a - s) - c)
  <2>1. m * (a - s) - c \in Int BY <1>1, <1>7, <1>9
  <2> QED BY <2>1, SameReduced
<1> HIDE DEF t
<1>11. ~Same(x - a, 0) /\ Same(m * (x - a), y - c) BY <1>4, <1>8 DEF e, n
<1>12. OnIt(s, t) BY <1>1, <1>7, <1>9, <1>10, <1>11, ChordOnCurve
<1>13. Same(m * d, y - c) /\ Same(d, x - a) BY <1>3, <1>7 DEF n, e
<1> QED BY <1>3, <1>5, <1>6, <1>7, <1>9, <1>10, <1>11, <1>12, <1>13 DEF d, sum

(* Two points with different x.                                            *)
LEMMA ChordCase ==
  ASSUME NEW a \in Field, NEW c \in Field, NEW x \in Field, NEW y \in Field,
         OnIt(a, c), OnIt(x, y), a # x
  PROVE  LET sum == add_affine(<<a, c>>, <<x, y>>)
         IN  /\ sum \in AffinePoint
             /\ SumIs(sum, NumX(a, c, 1, x, y), NumY(a, c, 1, x, y), NumZ(a, c, 1, x, y))
<1> DEFINE sum == add_affine(<<a, c>>, <<x, y>>)
<1>1. PICK m \in Int, s \in Field, t \in Field :
        /\ sum = <<s, t>> /\ OnIt(s, t) /\ Same(m * (x - a), y - c)
        /\ Same(s, m * m - a - x) /\ Same(t, m * (a - s) - c)
  BY ChordPoint
<1> HIDE DEF sum
<1>2. a \in Int /\ c \in Int /\ x \in Int /\ y \in Int /\ s \in Int /\ t \in Int /\ x - a \in Int
  BY ModulusIs
<1>3. ~Same(x - a, 0)
  <2>1. ~Same(x, a) BY SameInField
  <2> QED BY <1>2, <2>1, ZeroSum
<1>4. <<s, t>> \in AffinePoint /\ <<s, t>> # None BY <1>1, PairIsPoint
<1>5. ~Same(NumZ(a, c, 1, x, y), 0) BY <1>2, <1>3, ChordDenominator
<1>6. /\ Same(NumX(a, c, 1, x, y), NumZ(a, c, 1, x, y) * s)
      /\ Same(NumY(a, c, 1, x, y), NumZ(a, c, 1, x, y) * t)
  BY <1>1, <1>2, <1>3, ChordSum
<1>7. sum[1] = s /\ sum[2] = t /\ sum \in AffinePoint /\ sum # None BY <1>1, <1>4
<1> QED BY <1>5, <1>6, <1>7 DEF SumIs, sum

(* The tangent at a point, and its slope.                                  *)
LEMMA TangentPoint ==
  ASSUME NEW a \in Field, NEW c \in Field, OnIt(a, c), <<a, c>> # neg_affine(<<a, c>>)
  PROVE  LET sum == add_affine(<<a, c>>, <<a, c>>)
         IN  \E m \in Int, s \in Field, t \in Field :
               /\ sum = <<s, t>> /\ OnIt(s, t) /\ Same(m * (2 * c), 3 * a * a)
               /\ Same(s, m * m - a - a) /\ Same(t, m * (a - s) - c)
<1> DEFINE e == 2 * c
           d == e % P
           n == 3 * a * a
           m == FMul(n, FInv(d))
           s == (m * m - a - a) % P
           t == (m * (a - s) - c) % P
           sum == add_affine(<<a, c>>, <<a, c>>)
<1>1. a \in Int /\ c \in Int BY ModulusIs
<1>2. n \in Int /\ e \in Int BY <1>1
<1>3. d \in Field /\ d \in Int /\ Same(d, e) BY <1>2, SameReduced
<1>4. ~Same(e, 0) BY <1>1, TwiceNotZero
<1>5. d # 0 BY <1>3, <1>4 DEF Same
<1>6. sum = <<s, t>>
  <2>1. <<a, c>> # None BY DEF None
  <2>2. LET lam == IF a = a THEN FMul(3 * a * a, FInv((2 * c) % P))
                            ELSE FMul(c - c, FInv(FSub(a, a)))
            x3  == (lam * lam - a - a) % P
        IN  sum = <<x3, (lam * (a - x3) - c) % P>>
    BY <2>1, AddArms
  <2> QED BY <2>2
<1> HIDE DEF d, n, e
<1>7. m \in Field /\ m \in Int /\ Same(m * d, n) BY <1>2, <1>3, <1>5, QuotientIs
<1> HIDE DEF m, sum
<1>8. Same(m * e, n)
  <2>1. Same(m * d, m * e) BY <1>2, <1>3, <1>7, ProductsAlike
  <2> QED BY <1>7, <2>1 DEF Same
<1>9. s \in Field /\ s \in Int /\ Same(s, m * m - a - a)
  <2>1. m * m - a - a \in Int BY <1>1, <1>7
  <2> QED BY <2>1, SameReduced
<1> HIDE DEF s
<1>10. t \in Field /\ t \in Int /\ Same(t, m * (a - s) - c)
  <2>1. m * (a - s) - c \in Int BY <1>1, <1>7, <1>9
  <2> QED BY <2>1, SameReduced
<1> HIDE DEF t
<1>11. Same(m * (2 * c), 3 * a * a) BY <1>8 DEF e, n
<1>12. OnIt(s, t) BY <1>1, <1>7, <1>9, <1>10, <1>11, TangentOnCurve
<1> QED BY <1>6, <1>7, <1>9, <1>10, <1>11, <1>12 DEF sum

(* A point and itself.                                                     *)
LEMMA TangentCase ==
  ASSUME NEW a \in Field, NEW c \in Field, OnIt(a, c), <<a, c>> # neg_affine(<<a, c>>)
  PROVE  LET sum == add_affine(<<a, c>>, <<a, c>>)
         IN  /\ sum \in AffinePoint
             /\ SumIs(sum, NumX(a, c, 1, a, c), NumY(a, c, 1, a, c), NumZ(a, c, 1, a, c))
<1> DEFINE k == 8 * c * c * c
           sum == add_affine(<<a, c>>, <<a, c>>)
           nx == NumX(a, c, 1, a, c)
           ny == NumY(a, c, 1, a, c)
           nz == NumZ(a, c, 1, a, c)
<1>1. PICK m \in Int, s \in Field, t \in Field :
        /\ sum = <<s, t>> /\ OnIt(s, t) /\ Same(m * (2 * c), 3 * a * a)
        /\ Same(s, m * m - a - a) /\ Same(t, m * (a - s) - c)
  BY TangentPoint
<1> HIDE DEF sum
<1>2. a \in Int /\ c \in Int /\ s \in Int /\ t \in Int /\ k \in Int BY ModulusIs
<1>3. <<s, t>> \in AffinePoint /\ <<s, t>> # None BY <1>1, PairIsPoint
<1>4. Same(nz, k) /\ Same(nx, k * s) /\ Same(ny, k * t) BY <1>1, <1>2, TangentSum
<1>5. ~Same(k, 0) BY <1>2, TwiceNotZero
<1>6. nx \in Int /\ ny \in Int /\ nz \in Int
  <2>1. 1 \in Int OBVIOUS
  <2> QED BY <1>2, <2>1, NumIsInt
<1> HIDE DEF nx, ny, nz, k
<1>7. ~Same(nz, 0) BY <1>4, <1>5 DEF Same
<1>8. Same(nz * s, k * s) /\ Same(nz * t, k * t) BY <1>2, <1>4, <1>6, ProductsAlike
<1>9. Same(nx, nz * s) /\ Same(ny, nz * t) BY <1>4, <1>8 DEF Same
<1>10. sum[1] = s /\ sum[2] = t /\ sum \in AffinePoint /\ sum # None BY <1>1, <1>3
<1> QED BY <1>7, <1>9, <1>10 DEF SumIs, sum, nx, ny, nz

(* A point and its inverse.                                                *)
LEMMA InverseCase ==
  ASSUME NEW a \in Field, NEW c \in Field, OnIt(a, c), NEW y \in Field,
         <<a, y>> = neg_affine(<<a, c>>)
  PROVE  LET sum == add_affine(<<a, c>>, <<a, y>>)
         IN  /\ sum \in AffinePoint
             /\ SumIs(sum, NumX(a, c, 1, a, y), NumY(a, c, 1, a, y), NumZ(a, c, 1, a, y))
<1>1. a \in Int /\ c \in Int /\ y \in Int /\ 0 - c \in Int /\ -c = 0 - c BY ModulusIs
<1>2. <<a, c>> # None /\ <<a, y>> # None /\ None \in AffinePoint BY DEF None, AffinePoint
<1>3. y = (0 - c) % P
  <2>1. neg_affine(<<a, c>>) = <<a, (-c) % P>> BY <1>2 DEF neg_affine
  <2>2. y = (-c) % P BY <2>1
  <2> QED BY <1>1, <2>2
<1>4. Same(y, 0 - c) BY <1>1, <1>3, SameReduced
<1>5. add_affine(<<a, c>>, <<a, y>>) = None BY <1>2, AddArms
<1>6. /\ Same(NumX(a, c, 1, a, y), 0) /\ Same(NumZ(a, c, 1, a, y), 0)
      /\ ~Same(NumY(a, c, 1, a, y), 0)
  BY <1>1, <1>4, InverseSum
<1> QED BY <1>2, <1>5, <1>6 DEF SumIs

(* Two points with one abscissa are equal or inverse.                      *)
LEMMA OneAbscissa ==
  ASSUME NEW a \in Field, NEW c \in Field, NEW y \in Field, OnIt(a, c), OnIt(a, y), y # c
  PROVE  <<a, y>> = neg_affine(<<a, c>>) /\ Same(y + c, 0)
<1> DEFINE d == y - c
           e == y + c
           u == y * y - a * a * a - B
           v == c * c - a * a * a - B
           f == d * e
<1>1. a \in Int /\ c \in Int /\ y \in Int /\ B \in Int /\ 0 - c \in Int /\ -c = 0 - c
  BY ModulusIs, ConstantIs
<1>2. d \in Int /\ e \in Int /\ u \in Int /\ v \in Int /\ f \in Int /\ f = u - v BY <1>1
<1>3. Same(u, 0) /\ Same(v, 0) BY DEF OnIt
<1> HIDE DEF u, v, f
<1>4. Same(f, 0)
  <2>1. Same(u, v) BY <1>3 DEF Same
  <2>2. Same(u - v, 0) BY <1>2, <2>1, ZeroSum
  <2> QED BY <1>2, <2>2
<1>5. ~Same(d, 0)
  <2>1. ~Same(y, c) BY SameInField
  <2> QED BY <1>1, <2>1, ZeroSum
<1> HIDE DEF d, e
<1>6. Same(e, 0) BY <1>2, <1>4, <1>5, NoZeroDivisors DEF f
<1>7. Same(y, 0 - c)
  <2>1. y - (0 - c) = e BY <1>1 DEF e
  <2> QED BY <1>1, <1>6, <2>1, ZeroSum
<1>8. y = (0 - c) % P
  <2>1. (0 - c) % P \in Field /\ Same((0 - c) % P, 0 - c) BY <1>1, SameReduced
  <2>2. Same(y, (0 - c) % P) BY <1>7, <2>1 DEF Same
  <2> QED BY <2>1, <2>2, SameInField
<1>9. <<a, c>> # None BY DEF None
<1>10. neg_affine(<<a, c>>) = <<a, (-c) % P>> BY <1>9 DEF neg_affine
<1>11. (-c) % P = y BY <1>1, <1>8
<1>12. <<a, y>> = neg_affine(<<a, c>>) BY <1>10, <1>11
<1> QED BY <1>6, <1>12 DEF e

(* Two points of the curve, whichever arm the group law takes.             *)
LEMMA AffineSum ==
  ASSUME NEW a \in Field, NEW c \in Field, NEW x \in Field, NEW y \in Field,
         OnIt(a, c), OnIt(x, y)
  PROVE  LET sum == add_affine(<<a, c>>, <<x, y>>)
         IN  /\ sum \in AffinePoint
             /\ SumIs(sum, NumX(a, c, 1, x, y), NumY(a, c, 1, x, y), NumZ(a, c, 1, x, y))
<1>1. CASE x # a BY <1>1, ChordCase
<1>2. CASE x = a /\ <<x, y>> = neg_affine(<<a, c>>) BY <1>2, InverseCase
<1>3. CASE x = a /\ <<x, y>> # neg_affine(<<a, c>>)
  <2>1. y = c BY <1>3, OneAbscissa
  <2> QED BY <1>3, <2>1, TangentCase
<1> QED BY <1>1, <1>2, <1>3

(* The neutral point on the left, and on the right.                        *)
LEMMA AddToNone == \A pa, qa : pa = None => add_affine(pa, qa) = qa
BY DEF add_affine

(* Infinity plus a point.                                                  *)
LEMMA SumAtInfinity ==
  ASSUME NEW v \in Int, ~Same(v, 0), NEW x \in Int, NEW y \in Int, OnIt(x, y)
  PROVE  SumIs(<<x, y>>, NumX(0, v, 0, x, y), NumY(0, v, 0, x, y), NumZ(0, v, 0, x, y))
<1> DEFINE vy == v * y
           k == vy * v
<1>1. B \in Int BY ConstantIs
<1>2. ~Same(y, 0) BY OrdinateNotZero
<1>3. vy \in Int /\ k \in Int /\ ~Same(vy, 0) BY <1>2, NonZeroProduct
<1>4. NumX(0, v, 0, x, y) = k * x /\ NumY(0, v, 0, x, y) = k * y /\ NumZ(0, v, 0, x, y) = k
  BY <1>1 DEF NumX, NumY, NumZ
<1> HIDE DEF vy
<1>5. ~Same(k, 0) BY <1>3, NonZeroProduct
<1>6. k * <<x, y>>[1] = k * x /\ k * <<x, y>>[2] = k * y /\ <<x, y>> # None BY DEF None
<1> HIDE DEF k
<1>7. Same(k * x, k * x) /\ Same(k * y, k * y) BY SameSelf
<1> QED BY <1>4, <1>5, <1>6, <1>7 DEF SumIs

(* Scaled coordinates stand for the same sum.                              *)
LEMMA SumIsScaled ==
  ASSUME NEW sum \in AffinePoint, NEW nx \in Int, NEW ny \in Int, NEW nz \in Int, SumIs(sum, nx, ny, nz),
         NEW k \in Int, ~Same(k, 0), NEW mx \in Int, NEW my \in Int, NEW mz \in Int,
         Same(mx, k * nx), Same(my, k * ny), Same(mz, k * nz)
  PROVE  SumIs(sum, mx, my, mz)
<1> DEFINE kx == k * nx
           ky == k * ny
           kz == k * nz
<1>1. kx \in Int /\ ky \in Int /\ kz \in Int OBVIOUS
<1>2. CASE sum = None
  <2> DEFINE nil == 0
  <2>0. nil \in Int /\ k * nil = 0 OBVIOUS
  <2>1. Same(nx, nil) /\ ~Same(ny, 0) /\ Same(nz, nil) BY <1>2 DEF SumIs
  <2> HIDE DEF nil
  <2>2. Same(kx, k * nil) BY <2>0, <2>1, ProductsAlike
  <2>3. Same(kz, k * nil) BY <2>0, <2>1, ProductsAlike
  <2>4. ~Same(ky, 0) BY <2>1, NonZeroProduct
  <2> HIDE DEF kx, ky, kz
  <2>5. Same(mx, kx) /\ Same(my, ky) /\ Same(mz, kz) BY DEF kx, ky, kz
  <2>6. Same(mx, 0) /\ ~Same(my, 0) /\ Same(mz, 0) BY <2>0, <2>2, <2>3, <2>4, <2>5 DEF Same
  <2> QED BY <1>2, <2>6 DEF SumIs
<1>3. CASE sum # None
  <2> DEFINE s == sum[1]
             t == sum[2]
             ns == nz * s
             nt == nz * t
             ms == mz * s
             mt == mz * t
             ks == k * ns
             kt == k * nt
  <2>1. s \in Int /\ t \in Int BY <1>3, PointIs
  <2>2. ~Same(nz, 0) /\ Same(nx, ns) /\ Same(ny, nt) BY <1>3 DEF SumIs
  <2> HIDE DEF s, t
  <2>3. ns \in Int /\ nt \in Int BY <2>1
  <2>4. Same(kx, ks) BY <2>2, <2>3, ProductsAlike
  <2>5. Same(ky, kt) BY <2>2, <2>3, ProductsAlike
  <2>6. ~Same(kz, 0) BY <2>2, NonZeroProduct
  <2>7. ks = kz * s /\ kt = kz * t BY <2>1
  <2> HIDE DEF kz
  <2>8. Same(mz, kz) BY DEF kz
  <2>9. Same(ms, kz * s) BY <1>1, <2>1, <2>8, ProductsAlike
  <2>10. Same(mt, kz * t) BY <1>1, <2>1, <2>8, ProductsAlike
  <2>11. ~Same(mz, 0) BY <2>6, <2>8 DEF Same
  <2> HIDE DEF ms, mt, ns, nt, ks, kt, kx, ky
  <2>12. Same(mx, kx) /\ Same(my, ky) BY DEF kx, ky
  <2>13. Same(mx, ms) /\ Same(my, mt) BY <2>4, <2>5, <2>7, <2>9, <2>10, <2>12 DEF Same
  <2> QED BY <1>3, <2>11, <2>13 DEF SumIs, ms, mt, s, t
<1> QED BY <1>2, <1>3

(* Projective coordinates that satisfy the formulas are those of the sum.  *)
LEMMA SumInGroup ==
  ASSUME NEW q \in Field \X Field \X Field, NEW pa \in AffinePoint, Represents(q, pa),
         NEW t \in AffinePoint, t # None, NEW r, IsSum(r, q, t)
  PROVE  add_affine(pa, t) \in AffinePoint /\ Represents(r, add_affine(pa, t))
<1> DEFINE u == q[1]
           v == q[2]
           w == q[3]
           x == t[1]
           y == t[2]
           sum == add_affine(pa, t)
           mx == NumX(u, v, w, x, y)
           my == NumY(u, v, w, x, y)
           mz == NumZ(u, v, w, x, y)
<1>1. u \in Field /\ v \in Field /\ w \in Field /\ u \in Int /\ v \in Int /\ w \in Int
  BY ModulusIs
<1>2. /\ x \in Field /\ y \in Field /\ t = <<x, y>> /\ x \in Int /\ y \in Int /\ OnIt(x, y)
  BY PointIs
<1>3. mx \in Int /\ my \in Int /\ mz \in Int BY <1>1, <1>2, NumIsInt
<1>4. /\ r[1] \in Field /\ Same(r[1], mx)
      /\ r[2] \in Field /\ Same(r[2], my)
      /\ r[3] \in Field /\ Same(r[3], mz)
  BY DEF IsSum
<1> HIDE DEF u, v, w, x, y
<1>5. sum \in AffinePoint /\ SumIs(sum, mx, my, mz)
  <2>1. CASE pa = None
    <3>1. u = 0 /\ v # 0 /\ w = 0 BY <2>1 DEF Represents, u, v, w
    <3>2. ~Same(v, 0) BY <1>1, <3>1, NotSameIs
    <3>3. add_affine(pa, t) = t BY <2>1, AddToNone
    <3>4. SumIs(<<x, y>>, mx, my, mz) BY <1>1, <1>2, <3>1, <3>2, SumAtInfinity
    <3> QED BY <1>2, <2>1, <3>3, <3>4
  <2>2. CASE pa # None
    <3> DEFINE a == pa[1]
               c == pa[2]
               nx == NumX(a, c, 1, x, y)
               ny == NumY(a, c, 1, x, y)
               nz == NumZ(a, c, 1, x, y)
               aw == a * w
               cw == c * w
               k == w * w
    <3>1. a \in Field /\ c \in Field /\ pa = <<a, c>> /\ a \in Int /\ c \in Int /\ OnIt(a, c)
      BY <2>2, PointIs
    <3>2. w # 0 /\ Same(u, w * a) /\ Same(v, w * c) BY <2>2 DEF Represents, u, v, w
    <3> HIDE DEF a, c
    <3>3. sum \in AffinePoint /\ SumIs(sum, nx, ny, nz)
      <4>1. add_affine(<<a, c>>, <<x, y>>) = sum BY <1>2, <3>1
      <4> HIDE DEF sum
      <4> QED BY <1>2, <3>1, <4>1, AffineSum
    <3>4. nx \in Int /\ ny \in Int /\ nz \in Int
      <4>1. 1 \in Int OBVIOUS
      <4> QED BY <1>2, <3>1, <4>1, NumIsInt
    <3>5. aw \in Int /\ cw \in Int /\ k \in Int /\ aw = w * a /\ cw = w * c BY <1>1, <3>1
    <3>6. ~Same(w, 0) /\ ~Same(k, 0)
      <4>1. ~Same(w, 0) BY <1>1, <3>2, NotSameIs
      <4> QED BY <1>1, <4>1, NonZeroProduct
    <3>7. /\ NumX(aw, cw, w, x, y) = k * nx /\ NumY(aw, cw, w, x, y) = k * ny
          /\ NumZ(aw, cw, w, x, y) = k * nz
      BY <1>1, <1>2, <3>1, NumScaled
    <3> HIDE DEF aw, cw, k, nx, ny, nz
    <3>8. Same(u, aw) /\ Same(v, cw) BY <3>2, <3>5
    <3>9. /\ Same(mx, NumX(aw, cw, w, x, y)) /\ Same(my, NumY(aw, cw, w, x, y))
          /\ Same(mz, NumZ(aw, cw, w, x, y))
      BY <1>1, <1>2, <3>5, <3>8, NumAlike
    <3> HIDE DEF mx, my, mz, sum
    <3>10. Same(mx, k * nx) /\ Same(my, k * ny) /\ Same(mz, k * nz) BY <3>7, <3>9
    <3>11. SumIs(sum, mx, my, mz) BY <1>3, <3>3, <3>4, <3>5, <3>6, <3>10, SumIsScaled
    <3> QED BY <3>3, <3>11
  <2> QED BY <2>1, <2>2
<1> HIDE DEF mx, my, mz, sum
<1>6. SumIs(sum, r[1], r[2], r[3])
  <2> DEFINE one == 1
  <2>1. /\ one * mx = mx /\ one * my = my /\ one * mz = mz /\ one \in Int /\ ~Same(one, 0)
        /\ r[1] \in Int /\ r[2] \in Int /\ r[3] \in Int
    <3>1. one * mx = mx /\ one * my = my /\ one * mz = mz /\ one \in Int BY <1>3
    <3>2. one \in Field /\ one # 0 BY ModulusIs
    <3> HIDE DEF one
    <3>3. ~Same(one, 0) BY <3>2, NotSameIs
    <3>4. r[1] \in Int /\ r[2] \in Int /\ r[3] \in Int BY <1>4, ModulusIs
    <3> QED BY <3>1, <3>3, <3>4
  <2> HIDE DEF one
  <2>2. Same(r[1], one * mx) /\ Same(r[2], one * my) /\ Same(r[3], one * mz) BY <1>4, <2>1
  <2> QED BY <1>3, <1>5, <2>1, <2>2, SumIsScaled
<1>7. CASE sum = None
  <2>1. Same(r[1], 0) /\ ~Same(r[2], 0) /\ Same(r[3], 0) BY <1>6, <1>7 DEF SumIs
  <2>2. r[1] = 0 /\ r[2] # 0 /\ r[3] = 0 BY <1>4, <2>1, NotSameIs
  <2>3. Represents(r, sum) BY <1>7, <2>2 DEF Represents
  <2> QED BY <1>5, <2>3 DEF sum
<1>8. CASE sum # None
  <2>1. ~Same(r[3], 0) /\ Same(r[1], r[3] * sum[1]) /\ Same(r[2], r[3] * sum[2])
    BY <1>6, <1>8 DEF SumIs
  <2>2. r[3] # 0 BY <1>4, <2>1, NotSameIs
  <2>3. Represents(r, sum) BY <1>8, <2>1, <2>2 DEF Represents
  <2> QED BY <1>5, <2>3 DEF sum
<1> QED BY <1>7, <1>8
-----------------------------------------------------------------------------
(***************************************************************************)
(* The values of a call, named as the comments of the netlist name them.   *)
(***************************************************************************)
A  == FMul(acc[1], TableX)
S  == FAdd(TableX, TableY)
XZ == FMul(TableX, acc[3])
XS == FAdd(XZ, acc[1])
G  == FAdd(acc[1], acc[2])
H  == FMul(S, G)
C  == FMul(21, XS)
I  == FMul(acc[2], TableY)
YZ == FMul(TableY, acc[3])
E  == FAdd(YZ, acc[2])
F  == FMul(21, acc[3])
AI == FAdd(A, I)
K  == FSub(H, AI)
A2 == FAdd(A, A)
L  == FAdd(A2, A)
M  == FAdd(I, F)
N  == FSub(I, F)
EC == FMul(E, C)
CL == FMul(C, L)
LK == FMul(L, K)
KN == FMul(K, N)
Xr == FSub(KN, EC)
NM == FMul(N, M)
Yr == FAdd(NM, CL)
ME == FMul(M, E)
Zr == FAdd(ME, LK)
Streamed == StreamedTailValue(acc[1], acc[2], acc[3])
OutX == IF TableMeta # 0 THEN acc[1] ELSE Xr
OutY == IF TableMeta # 0 THEN acc[2] ELSE Yr
OutZ == IF TableMeta # 0 THEN acc[3] ELSE Zr

(***************************************************************************)
(* The live ranges.                                                        *)
(***************************************************************************)
Holds(r, lo, hi, v) == pc \in lo .. hi => env[r] = v

WiresHold ==
  /\ env["Q.X"] = acc[1] /\ env["Q.Y"] = acc[2] /\ env["Q.Z"] = acc[3]

BaseHead ==
  /\ Holds("qx", 1, 11, acc[1])
  /\ Holds("qy", 2, 16, acc[2])
  /\ Holds("qz", 3, 17, acc[3])
  /\ Holds("lx", 4, 9, TableX)
  /\ Holds("ly", 5, 15, TableY)
  /\ Holds("meta", 6, 37, TableMeta)
  /\ Holds("f_lookup_inf", 7, 17, TableMeta)
  /\ Holds("t0", 8, 17, A)
  /\ Holds("t1", 9, 12, S)
  /\ Holds("lx", 10, 10, XZ)
  /\ Holds("lx", 11, 13, XS)
  /\ Holds("qx", 12, 12, G)
  /\ Holds("t1", 13, 17, H)
  /\ Holds("lx", 14, 17, C)
  /\ Holds("qx", 15, 17, I)
  /\ Holds("ly", 16, 16, YZ)
  /\ Holds("ly", 17, 17, E)
  /\ (pc < 7 => env["f_lookup_inf"] = Undef)

LookupFedHead ==
  /\ Holds("lookup_meta", 1, 37, TableMeta)
  /\ Holds("lookup_x", 2, 14, TableX)
  /\ Holds("lookup_y", 3, 17, TableY)
  /\ Holds("f_lookup_inf", 4, 17, TableMeta)
  /\ Holds("t1", 5, 16, S)
  /\ Holds("qx", 6, 15, acc[1])
  /\ Holds("qy", 7, 17, acc[2])
  /\ Holds("qz", 8, 13, acc[3])
  /\ Holds("lx", 9, 9, XZ)
  /\ Holds("lx", 10, 10, XS)
  /\ Holds("lx", 11, 17, C)
  /\ Holds("ly", 12, 12, YZ)
  /\ Holds("ly", 13, 17, E)
  /\ Holds("qz", 14, 17, F)
  /\ Holds("t0", 15, 17, A)
  /\ Holds("qx", 16, 16, G)
  /\ Holds("t1", 17, 17, H)
  /\ (pc < 4 => env["f_lookup_inf"] = Undef)

CommonTail ==
  /\ Holds("f_lookup_inf", 18, 36, TableMeta)
  /\ Holds("t0", 18, 21, A)
  /\ Holds("t1", 18, 19, H)
  /\ Holds("lx", 18, 25, C)
  /\ Holds("qx", 18, 23, I)
  /\ Holds("ly", 18, 31, E)
  /\ Holds("qz", 18, 23, F)
  /\ Holds("qy", 19, 19, AI)
  /\ Holds("t1", 20, 27, K)
  /\ Holds("qy", 21, 21, A2)
  /\ Holds("qy", 22, 26, L)
  /\ Holds("t0", 23, 31, M)
  /\ Holds("qx", 24, 29, N)
  /\ Holds("qz", 25, 28, EC)
  /\ Holds("lx", 26, 30, CL)
  /\ Holds("qy", 27, 32, LK)
  /\ Holds("t1", 28, 28, KN)
  /\ Holds("t1", 29, 33, Xr)
  /\ Holds("qx", 30, 30, NM)
  /\ Holds("lx", 31, 34, Yr)
  /\ Holds("t0", 32, 32, ME)
  /\ Holds("t0", 33, 35, Zr)
  /\ Holds("qx", 34, 37, OutX)
  /\ Holds("qy", 35, 37, OutY)
  /\ Holds("qz", 36, 37, OutZ)
  /\ Holds("f_lookup_inf", 37, 37, 0)

StreamedTail ==
  /\ Holds("qx", 1, 5, acc[1])
  /\ Holds("qy", 2, 5, acc[2])
  /\ Holds("qz", 3, 5, acc[3])
  /\ (pc >= 4 => env["lookup_meta"] = TableMeta)
  /\ (pc < 5 => env["f_lookup_inf"] = Undef)
  /\ (pc >= 5 => env["f_lookup_inf"] = TableMeta)
  /\ (pc = 6 => Result = Streamed)

Versions ==
  /\ ~Idle => WiresHold
  /\ leaf = "base" => BaseHead
  /\ leaf = "lookup_fed" => LookupFedHead
  /\ leaf \in {"base", "lookup_fed"} => CommonTail
  /\ leaf = "streamed_tail" => StreamedTail

IInv == TypeOK /\ Versions
-----------------------------------------------------------------------------
(***************************************************************************)
(* The field operations stay in the field.                                 *)
(***************************************************************************)
LEMMA FieldClosed ==
  ASSUME NEW a \in Int, NEW b \in Int
  PROVE  FAdd(a, b) \in Field /\ FSub(a, b) \in Field /\ FMul(a, b) \in Field
BY CurveAssumption DEF FAdd, FSub, FMul, Field

LEMMA FieldIsInt == Field \subseteq Int /\ 0 \in Field /\ 1 \in Field
BY CurveAssumption DEF Field

LEMMA FieldOpsInt ==
  ASSUME NEW a \in Int, NEW b \in Int
  PROVE  FAdd(a, b) \in Int /\ FSub(a, b) \in Int /\ FMul(a, b) \in Int
<1>1. FAdd(a, b) \in Field /\ FSub(a, b) \in Field /\ FMul(a, b) \in Field
  BY FieldClosed
<1> QED BY <1>1, FieldIsInt

LEMMA InverseInField ==
  ASSUME NEW a \in Field, a # 0
  PROVE  FInv(a) \in Field
BY InverseAssumption DEF FInv

(* Going to affine form and back gives field coordinates.                  *)
LEMMA RenormalisedInField ==
  ASSUME NEW q \in Field \X Field \X Field
  PROVE  affine_to_proj(proj_to_affine(q)) \in Field \X Field \X Field
<1>1. CASE q[3] = 0
  BY <1>1, FieldIsInt DEF affine_to_proj, proj_to_affine, None
<1>2. CASE q[3] # 0
  <2>1. FInv(q[3]) \in Int  BY <1>2, InverseInField, FieldIsInt
  <2>2. FMul(q[1], FInv(q[3])) \in Field /\ FMul(q[2], FInv(q[3])) \in Field
    BY <2>1, FieldClosed, FieldIsInt
  <2> QED BY <1>2, <2>2, FieldIsInt DEF affine_to_proj, proj_to_affine, None
<1> QED BY <1>1, <1>2

LEMMA TableInField ==
  ASSUME entry \in AffinePoint
  PROVE  TableX \in Field /\ TableY \in Field /\ TableMeta \in {0, 1}
BY FieldIsInt DEF AffinePoint, TableX, TableY, TableMeta, None
-----------------------------------------------------------------------------
(***************************************************************************)
(* Every instruction of the three netlists names registers of the register *)
(* file and has the operands its opcode reads; only a lookup writes a wire *)
(* of the lookup.                                                          *)
(***************************************************************************)
Arity(op) ==
  CASE op \in {"lookup_affine_x", "lookup_affine_y", "lookup_meta"} -> 0
    [] op \in {"field_mul", "field_add", "field_sub"} -> 2
    [] op \in {"select_field_if_flag", "complete_a0_all_streamed_tail"} -> 3
    [] OTHER -> 1

IsTail(ins) == ins.op = "complete_a0_all_streamed_tail"

WellFormed(ins) ==
  /\ ins.dst \in Reg
  /\ \A i \in 1 .. Arity(ins.op) : i \in DOMAIN ins.src
  /\ \A i \in DOMAIN ins.src : ins.src[i] \in Reg
  /\ ins.op = "clear_bool_from_flag" => ins.dst = "f_lookup_inf"
  /\ ins.dst = "lookup_x" => ins.op = "lookup_affine_x"
  /\ ins.dst = "lookup_y" => ins.op = "lookup_affine_y"
  /\ ins.dst = "lookup_meta" => ins.op = "lookup_meta"

LEMMA BaseWellFormed ==
  ASSUME NEW k \in 1 .. 37
  PROVE  WellFormed(BaseNetlist[k]) /\ ~IsTail(BaseNetlist[k])
<1> USE DEF BaseNetlist, Ins, WellFormed, IsTail, Arity, Reg
<1>1. CASE k = 1  BY <1>1
<1>2. CASE k = 2  BY <1>2
<1>3. CASE k = 3  BY <1>3
<1>4. CASE k = 4  BY <1>4
<1>5. CASE k = 5  BY <1>5
<1>6. CASE k = 6  BY <1>6
<1>7. CASE k = 7  BY <1>7
<1>8. CASE k = 8  BY <1>8
<1>9. CASE k = 9  BY <1>9
<1>10. CASE k = 10  BY <1>10
<1>11. CASE k = 11  BY <1>11
<1>12. CASE k = 12  BY <1>12
<1>13. CASE k = 13  BY <1>13
<1>14. CASE k = 14  BY <1>14
<1>15. CASE k = 15  BY <1>15
<1>16. CASE k = 16  BY <1>16
<1>17. CASE k = 17  BY <1>17
<1>18. CASE k = 18  BY <1>18
<1>19. CASE k = 19  BY <1>19
<1>20. CASE k = 20  BY <1>20
<1>21. CASE k = 21  BY <1>21
<1>22. CASE k = 22  BY <1>22
<1>23. CASE k = 23  BY <1>23
<1>24. CASE k = 24  BY <1>24
<1>25. CASE k = 25  BY <1>25
<1>26. CASE k = 26  BY <1>26
<1>27. CASE k = 27  BY <1>27
<1>28. CASE k = 28  BY <1>28
<1>29. CASE k = 29  BY <1>29
<1>30. CASE k = 30  BY <1>30
<1>31. CASE k = 31  BY <1>31
<1>32. CASE k = 32  BY <1>32
<1>33. CASE k = 33  BY <1>33
<1>34. CASE k = 34  BY <1>34
<1>35. CASE k = 35  BY <1>35
<1>36. CASE k = 36  BY <1>36
<1>37. CASE k = 37  BY <1>37
<1> HIDE DEF BaseNetlist, Ins, WellFormed, IsTail, Arity, Reg
<1> QED
  BY <1>1, <1>2, <1>3, <1>4, <1>5, <1>6, <1>7, <1>8, <1>9, <1>10,
     <1>11, <1>12, <1>13, <1>14, <1>15, <1>16, <1>17, <1>18, <1>19,
     <1>20, <1>21, <1>22, <1>23, <1>24, <1>25, <1>26, <1>27, <1>28,
     <1>29, <1>30, <1>31, <1>32, <1>33, <1>34, <1>35, <1>36, <1>37

LEMMA LookupFedOrderInRange ==
  ASSUME NEW k \in 1 .. 37  PROVE LookupFedLeafOrder[k] \in 0 .. 36
BY DEF LookupFedLeafOrder

LEMMA LookupFedWellFormed ==
  ASSUME NEW k \in 1 .. 37
  PROVE  WellFormed(LookupFedNetlist[k]) /\ ~IsTail(LookupFedNetlist[k])
<1> DEFINE old == LookupFedLeafOrder[k]
           ins == BaseNetlist[old + 1]
<1>1. old \in 0 .. 36 /\ WellFormed(ins) /\ ~IsTail(ins)
  BY LookupFedOrderInRange, BaseWellFormed
<1>2. LookupFedNetlist[k] = LookupFedInstruction(old, ins)
  BY DEF LookupFedNetlist
<1>3. CASE old \notin {3, 4, 5, 6, 7, 8, 9, 14, 15, 36}
  BY <1>1, <1>2, <1>3 DEF LookupFedInstruction
<1> USE <1>2 DEF BaseNetlist, LookupFedInstruction, Ins, WellFormed, IsTail,
            Arity, Reg
<1>o3. CASE old = 3  BY <1>o3
<1>o4. CASE old = 4  BY <1>o4
<1>o5. CASE old = 5  BY <1>o5
<1>o6. CASE old = 6  BY <1>o6
<1>o7. CASE old = 7  BY <1>o7
<1>o8. CASE old = 8  BY <1>o8
<1>o9. CASE old = 9  BY <1>o9
<1>o14. CASE old = 14  BY <1>o14
<1>o15. CASE old = 15  BY <1>o15
<1>o36. CASE old = 36  BY <1>o36
<1> HIDE <1>2 DEF BaseNetlist, LookupFedInstruction, Ins, WellFormed, IsTail,
             Arity, Reg
<1> QED
  BY <1>1, <1>3, <1>o3, <1>o4, <1>o5, <1>o6, <1>o7, <1>o8, <1>o9,
     <1>o14, <1>o15, <1>o36

LEMMA StreamedWellFormed ==
  ASSUME NEW k \in 1 .. 6  PROVE WellFormed(StreamedTailNetlist[k])
<1> USE DEF StreamedTailNetlist, Ins, WellFormed, Arity, Reg
<1>1. CASE k = 1  BY <1>1
<1>2. CASE k = 2  BY <1>2
<1>3. CASE k = 3  BY <1>3
<1>4. CASE k = 4  BY <1>4
<1>5. CASE k = 5  BY <1>5
<1>6. CASE k = 6  BY <1>6
<1> QED BY <1>1, <1>2, <1>3, <1>4, <1>5, <1>6

LEMMA FetchedWellFormed ==
  ASSUME leaf \in Leaves, pc \in 0 .. NetlistLength(leaf) - 1
  PROVE  WellFormed(Fetched)
<1>1. leaf \in {"base", "lookup_fed", "streamed_tail"}  BY LeafAssumption
<1> QED BY <1>1, BaseWellFormed, LookupFedWellFormed, StreamedWellFormed
           DEF Fetched, Netlist, NetlistLength
-----------------------------------------------------------------------------
(***************************************************************************)
(* One step of the interpreter writes the fetched instruction's value to   *)
(* its destination and moves on.                                           *)
(***************************************************************************)
Value ==
  CASE Fetched.op = "load_input" -> Src(1)
    [] Fetched.op = "lookup_affine_x" -> TableX
    [] Fetched.op = "lookup_affine_y" -> TableY
    [] Fetched.op = "lookup_meta" -> TableMeta
    [] Fetched.op = "bool_from_flag" -> FlagBit
    [] Fetched.op = "clear_bool_from_flag" -> (env["f_lookup_inf"] + FlagBit) % 2
    [] Fetched.op = "field_mul" -> FMul(Src(1), Src(2))
    [] Fetched.op = "field_add" -> FAdd(Src(1), Src(2))
    [] Fetched.op = "field_sub" -> FSub(Src(1), Src(2))
    [] Fetched.op = "mul_const" -> FMul(21, Src(1))
    [] Fetched.op = "select_field_if_flag" -> IF Src(3) # 0 THEN Src(1) ELSE Src(2)

LEMMA StepWrites ==
  ASSUME Step
  PROVE  /\ ~Idle /\ ~BoundaryNoop /\ pc < NetlistLength(leaf) /\ pc' = pc + 1
         /\ UNCHANGED <<caller, acc, leaf, entry>>
         /\ ~IsTail(Fetched) => env' = [env EXCEPT ![Fetched.dst] = Value]
BY DEF Step, LoadInput, LookupX, LookupY, LookupMeta, BoolFromFlag, ClearBool,
       FieldMul, FieldAdd, FieldSub, MulConst, SelectField, AllStreamedTail,
       Fetches, Writes, Value, IsTail

LEMMA StreamedTailInField ==
  ASSUME NEW x \in Int, NEW y \in Int, NEW z \in Int,
         TableX \in Int, TableY \in Int
  PROVE  StreamedTailValue(x, y, z) \in Field \X Field \X Field
<1> DEFINE h == FMul(x + y, FAdd(TableX, TableY))
           a == FMul(x, TableX)
           c == FMul(21, x + FMul(z, TableX))
           i == FMul(y, TableY)
           k == (h - a - i) % P
           l == FMul(3, a)
           e == FAdd(y, FMul(TableY, z))
           f == FMul(21, z)
           m == FAdd(i, f)
           n == FSub(i, f)
<1> HIDE DEF h, a, c, i, k, l, e, f, m, n
<1>1. h \in Int /\ a \in Int /\ i \in Int /\ f \in Int
  <2>1. x + y \in Int /\ FAdd(TableX, TableY) \in Int /\ 21 \in Int  BY FieldOpsInt
  <2> QED BY FieldOpsInt, <2>1 DEF h, a, i, f
<1>2. FMul(z, TableX) \in Int /\ FMul(TableY, z) \in Int  BY FieldOpsInt
<1>3. c \in Int /\ l \in Int /\ e \in Int /\ m \in Int /\ n \in Int
  <2>1. x + FMul(z, TableX) \in Int /\ 21 \in Int /\ 3 \in Int  BY <1>2
  <2> QED BY FieldOpsInt, <1>1, <1>2, <2>1 DEF c, l, e, m, n
<1>4. k \in Int
  <2>1. h - a - i \in Int  BY <1>1
  <2> QED BY <2>1, CurveAssumption DEF k
<1>5. k * n - e * c \in Int /\ n * m + c * l \in Int /\ m * e + l * k \in Int
  BY <1>3, <1>4
<1>6. \A v \in Int : v % P \in Field  BY CurveAssumption DEF Field
<1>7. StreamedTailValue(x, y, z) =
        <<(k * n - e * c) % P, (n * m + c * l) % P, (m * e + l * k) % P>>
  BY DEF StreamedTailValue, h, a, c, i, k, l, e, f, m, n
<1> QED BY <1>5, <1>6, <1>7

(* A step keeps the register file in the field, whatever the instruction.  *)
LEMMA StepType ==
  ASSUME TypeOK, Step
  PROVE  TypeOK'
<1>1. /\ ~Idle /\ pc < NetlistLength(leaf) /\ pc' = pc + 1
      /\ UNCHANGED <<caller, acc, leaf, entry>>
  BY StepWrites
<1>2. NetlistLength(leaf) \in {6, 37}  BY DEF NetlistLength
<1>3. WellFormed(Fetched)
  BY <1>1, <1>2, FetchedWellFormed DEF TypeOK, Idle
<1>4. SUFFICES env' \in [Reg -> Field \cup {Undef}]
  BY <1>1, <1>2 DEF TypeOK, Idle
<1>5. /\ TableX \in Field /\ TableY \in Field /\ TableMeta \in Field
      /\ Field \subseteq Int /\ Undef \notin Field
  BY TableInField, FieldIsInt, LeafAssumption DEF TypeOK
<1>6. ASSUME NEW v \in Field, Writes(v)
      PROVE  env' \in [Reg -> Field \cup {Undef}]
  BY <1>3, <1>6 DEF Writes, TypeOK, WellFormed
<1>7. ASSUME NEW op, Fetches(op), NEW i \in 1 .. Arity(op)
      PROVE  Src(i) \in Field
  BY <1>3, <1>7 DEF Fetches, WellFormed, Src, TypeOK
<1>8. CASE LoadInput
  BY <1>6, <1>7, <1>8 DEF LoadInput, Arity
<1>9. CASE LookupX \/ LookupY \/ LookupMeta
  BY <1>5, <1>6, <1>9 DEF LookupX, LookupY, LookupMeta
<1>10. CASE BoolFromFlag
  <2>1. Src(1) \in Int  BY <1>5, <1>7, <1>10 DEF BoolFromFlag, Arity
  <2>2. FlagBit \in {0, 1}  BY <2>1 DEF FlagBit
  <2> QED BY <1>6, <1>10, <2>2, FieldIsInt DEF BoolFromFlag
<1>11. CASE ClearBool
  <2>1. Src(1) \in Int /\ env["f_lookup_inf"] \in Int
    BY <1>5, <1>7, <1>11 DEF ClearBool, Arity, TypeOK, Reg
  <2>2. (env["f_lookup_inf"] + FlagBit) % 2 \in {0, 1}  BY <2>1 DEF FlagBit
  <2> QED BY <1>6, <1>11, <2>2, FieldIsInt DEF ClearBool
<1>12. CASE FieldMul \/ FieldAdd \/ FieldSub
  <2>1. Src(1) \in Int /\ Src(2) \in Int
    BY <1>5, <1>7, <1>12 DEF FieldMul, FieldAdd, FieldSub, Arity
  <2> QED BY <1>6, <1>12, <2>1, FieldClosed DEF FieldMul, FieldAdd, FieldSub
<1>13. CASE MulConst
  <2>1. Src(1) \in Int  BY <1>5, <1>7, <1>13 DEF MulConst, Arity
  <2> QED BY <1>6, <1>13, <2>1, FieldClosed DEF MulConst
<1>14. CASE SelectField
  BY <1>6, <1>7, <1>14 DEF SelectField, Arity
<1>15. CASE AllStreamedTail
  <2>1. Src(1) \in Int /\ Src(2) \in Int /\ Src(3) \in Int
    BY <1>5, <1>7, <1>15 DEF AllStreamedTail, Arity
  <2>2. StreamedTailValue(Src(1), Src(2), Src(3)) \in Field \X Field \X Field
    BY <1>5, <2>1, StreamedTailInField
  <2> QED BY <1>15, <2>2 DEF AllStreamedTail, TypeOK
<1> QED BY <1>8, <1>9, <1>10, <1>11, <1>12, <1>13, <1>14, <1>15 DEF Step
-----------------------------------------------------------------------------
(***************************************************************************)
(* The values depend on the accumulator and the entry only, so a step      *)
(* changes none of them.                                                   *)
(***************************************************************************)
Values == <<TableX, TableY, TableMeta, A, S, XZ, XS, G, H, C, I, YZ, E, F, AI,
            K, A2, L, M, N, EC, CL, LK, KN, Xr, NM, Yr, ME, Zr, OutX, OutY, OutZ, Streamed>>

LEMMA ValuesFixed ==
  ASSUME UNCHANGED <<acc, entry>>
  PROVE  UNCHANGED Values
BY DEF Values, TableX, TableY, TableMeta, A, S, XZ, XS, G, H, C, I, YZ, E, F,
    AI, K, A2, L, M, N, EC, CL, LK, KN, Xr, NM, Yr, ME, Zr, OutX, OutY, OutZ, Streamed,
    StreamedTailValue

(* What a step of either full netlist does to the state.                   *)
LEMMA NetlistStep ==
  ASSUME TypeOK, Step, leaf \in {"base", "lookup_fed"}
  PROVE  /\ pc \in 0 .. 36 /\ pc' = pc + 1 /\ DOMAIN env = Reg
         /\ UNCHANGED <<caller, acc, leaf, entry>> /\ UNCHANGED Values
         /\ env' = [env EXCEPT ![Fetched.dst] = Value]
<1>1. UNCHANGED Values  BY StepWrites, ValuesFixed
<1>2. ~Idle /\ pc \in 0 .. 36 /\ DOMAIN env = Reg
  BY StepWrites DEF TypeOK, NetlistLength
<1>3. ~IsTail(Fetched)
  BY <1>2, BaseWellFormed, LookupFedWellFormed DEF Fetched, Netlist
<1> QED BY <1>1, <1>2, <1>3, StepWrites

LEMMA BaseHeadStep ==
  ASSUME TypeOK, Versions, Step, leaf = "base", pc <= 17
  PROVE  Versions'
<1>1. pc \in 0 .. 17 /\ Fetched = BaseNetlist[pc + 1]
  BY DEF TypeOK, Fetched, Netlist
<1>2. /\ pc' = pc + 1 /\ DOMAIN env = Reg /\ leaf \in {"base", "lookup_fed"}
      /\ UNCHANGED <<caller, acc, leaf, entry>> /\ UNCHANGED Values
      /\ env' = [env EXCEPT ![Fetched.dst] = Value]
  BY NetlistStep
<1>3. TableMeta \in {0, 1}  BY TableInField DEF TypeOK
<1>c0. CASE pc = 0
  <2>1. Fetched = Ins("load_input", "qx", <<"Q.X">>)
    BY <1>1, <1>c0 DEF BaseNetlist
  <2>2. Value = acc[1]
    BY <1>c0, <2>1 DEF Value, Src, Ins, Versions, WiresHold, Idle
  <2> QED BY <1>2, <1>c0, <2>1, <2>2 DEF Ins, Values, Holds, Versions,
      WiresHold, BaseHead, CommonTail, Idle, Reg
<1>c1. CASE pc = 1
  <2>1. Fetched = Ins("load_input", "qy", <<"Q.Y">>)
    BY <1>1, <1>c1 DEF BaseNetlist
  <2>2. Value = acc[2]
    BY <1>c1, <2>1 DEF Value, Src, Ins, Versions, WiresHold, Idle
  <2> QED BY <1>2, <1>c1, <2>1, <2>2 DEF Ins, Values, Holds, Versions,
      WiresHold, BaseHead, CommonTail, Idle, Reg
<1>c2. CASE pc = 2
  <2>1. Fetched = Ins("load_input", "qz", <<"Q.Z">>)
    BY <1>1, <1>c2 DEF BaseNetlist
  <2>2. Value = acc[3]
    BY <1>c2, <2>1 DEF Value, Src, Ins, Versions, WiresHold, Idle
  <2> QED BY <1>2, <1>c2, <2>1, <2>2 DEF Ins, Values, Holds, Versions,
      WiresHold, BaseHead, CommonTail, Idle, Reg
<1>c3. CASE pc = 3
  <2>1. Fetched = Ins("lookup_affine_x", "lx", << >>)
    BY <1>1, <1>c3 DEF BaseNetlist
  <2>2. Value = TableX
    BY <1>c3, <2>1 DEF Value, Ins
  <2> QED BY <1>2, <1>c3, <2>1, <2>2 DEF Ins, Values, Holds, Versions,
      WiresHold, BaseHead, CommonTail, Idle, Reg
<1>c4. CASE pc = 4
  <2>1. Fetched = Ins("lookup_affine_y", "ly", << >>)
    BY <1>1, <1>c4 DEF BaseNetlist
  <2>2. Value = TableY
    BY <1>c4, <2>1 DEF Value, Ins
  <2> QED BY <1>2, <1>c4, <2>1, <2>2 DEF Ins, Values, Holds, Versions,
      WiresHold, BaseHead, CommonTail, Idle, Reg
<1>c5. CASE pc = 5
  <2>1. Fetched = Ins("lookup_meta", "meta", << >>)
    BY <1>1, <1>c5 DEF BaseNetlist
  <2>2. Value = TableMeta
    BY <1>c5, <2>1 DEF Value, Ins
  <2> QED BY <1>2, <1>c5, <2>1, <2>2 DEF Ins, Values, Holds, Versions,
      WiresHold, BaseHead, CommonTail, Idle, Reg
<1>c6. CASE pc = 6
  <2>1. Fetched = Ins("bool_from_flag", "f_lookup_inf", <<"meta">>)
    BY <1>1, <1>c6 DEF BaseNetlist
  <2>2. Value = TableMeta
    BY <1>3, <1>c6, <2>1 DEF Value, Src, Ins, Versions, BaseHead, Holds, FlagBit
  <2> QED BY <1>2, <1>c6, <2>1, <2>2 DEF Ins, Values, Holds, Versions,
      WiresHold, BaseHead, CommonTail, Idle, Reg
<1>c7. CASE pc = 7
  <2>1. Fetched = Ins("field_mul", "t0", <<"qx", "lx">>)
    BY <1>1, <1>c7 DEF BaseNetlist
  <2>2. Value = A
    BY <1>c7, <2>1 DEF Value, Src, Ins, Versions, BaseHead, Holds, A
  <2> QED BY <1>2, <1>c7, <2>1, <2>2 DEF Ins, Values, Holds, Versions,
      WiresHold, BaseHead, CommonTail, Idle, Reg
<1>c8. CASE pc = 8
  <2>1. Fetched = Ins("field_add", "t1", <<"lx", "ly">>)
    BY <1>1, <1>c8 DEF BaseNetlist
  <2>2. Value = S
    BY <1>c8, <2>1 DEF Value, Src, Ins, Versions, BaseHead, Holds, S
  <2> QED BY <1>2, <1>c8, <2>1, <2>2 DEF Ins, Values, Holds, Versions,
      WiresHold, BaseHead, CommonTail, Idle, Reg
<1>c9. CASE pc = 9
  <2>1. Fetched = Ins("field_mul", "lx", <<"lx", "qz">>)
    BY <1>1, <1>c9 DEF BaseNetlist
  <2>2. Value = XZ
    BY <1>c9, <2>1 DEF Value, Src, Ins, Versions, BaseHead, Holds, XZ
  <2> QED BY <1>2, <1>c9, <2>1, <2>2 DEF Ins, Values, Holds, Versions,
      WiresHold, BaseHead, CommonTail, Idle, Reg
<1>c10. CASE pc = 10
  <2>1. Fetched = Ins("field_add", "lx", <<"lx", "qx">>)
    BY <1>1, <1>c10 DEF BaseNetlist
  <2>2. Value = XS
    BY <1>c10, <2>1 DEF Value, Src, Ins, Versions, BaseHead, Holds, XS
  <2> QED BY <1>2, <1>c10, <2>1, <2>2 DEF Ins, Values, Holds, Versions,
      WiresHold, BaseHead, CommonTail, Idle, Reg
<1>c11. CASE pc = 11
  <2>1. Fetched = Ins("field_add", "qx", <<"qx", "qy">>)
    BY <1>1, <1>c11 DEF BaseNetlist
  <2>2. Value = G
    BY <1>c11, <2>1 DEF Value, Src, Ins, Versions, BaseHead, Holds, G
  <2> QED BY <1>2, <1>c11, <2>1, <2>2 DEF Ins, Values, Holds, Versions,
      WiresHold, BaseHead, CommonTail, Idle, Reg
<1>c12. CASE pc = 12
  <2>1. Fetched = Ins("field_mul", "t1", <<"t1", "qx">>)
    BY <1>1, <1>c12 DEF BaseNetlist
  <2>2. Value = H
    BY <1>c12, <2>1 DEF Value, Src, Ins, Versions, BaseHead, Holds, H
  <2> QED BY <1>2, <1>c12, <2>1, <2>2 DEF Ins, Values, Holds, Versions,
      WiresHold, BaseHead, CommonTail, Idle, Reg
<1>c13. CASE pc = 13
  <2>1. Fetched = Ins("mul_const", "lx", <<"lx">>)
    BY <1>1, <1>c13 DEF BaseNetlist
  <2>2. Value = C
    BY <1>c13, <2>1 DEF Value, Src, Ins, Versions, BaseHead, Holds, C
  <2> QED BY <1>2, <1>c13, <2>1, <2>2 DEF Ins, Values, Holds, Versions,
      WiresHold, BaseHead, CommonTail, Idle, Reg
<1>c14. CASE pc = 14
  <2>1. Fetched = Ins("field_mul", "qx", <<"qy", "ly">>)
    BY <1>1, <1>c14 DEF BaseNetlist
  <2>2. Value = I
    BY <1>c14, <2>1 DEF Value, Src, Ins, Versions, BaseHead, Holds, I
  <2> QED BY <1>2, <1>c14, <2>1, <2>2 DEF Ins, Values, Holds, Versions,
      WiresHold, BaseHead, CommonTail, Idle, Reg
<1>c15. CASE pc = 15
  <2>1. Fetched = Ins("field_mul", "ly", <<"ly", "qz">>)
    BY <1>1, <1>c15 DEF BaseNetlist
  <2>2. Value = YZ
    BY <1>c15, <2>1 DEF Value, Src, Ins, Versions, BaseHead, Holds, YZ
  <2> QED BY <1>2, <1>c15, <2>1, <2>2 DEF Ins, Values, Holds, Versions,
      WiresHold, BaseHead, CommonTail, Idle, Reg
<1>c16. CASE pc = 16
  <2>1. Fetched = Ins("field_add", "ly", <<"ly", "qy">>)
    BY <1>1, <1>c16 DEF BaseNetlist
  <2>2. Value = E
    BY <1>c16, <2>1 DEF Value, Src, Ins, Versions, BaseHead, Holds, E
  <2> QED BY <1>2, <1>c16, <2>1, <2>2 DEF Ins, Values, Holds, Versions,
      WiresHold, BaseHead, CommonTail, Idle, Reg
<1>c17. CASE pc = 17
  <2>1. Fetched = Ins("mul_const", "qz", <<"qz">>)
    BY <1>1, <1>c17 DEF BaseNetlist
  <2>2. Value = F
    BY <1>c17, <2>1 DEF Value, Src, Ins, Versions, BaseHead, Holds, F
  <2> QED BY <1>2, <1>c17, <2>1, <2>2 DEF Ins, Values, Holds, Versions,
      WiresHold, BaseHead, CommonTail, Idle, Reg
<1> QED BY <1>1, <1>c0, <1>c1, <1>c2, <1>c3, <1>c4, <1>c5, <1>c6, <1>c7,
           <1>c8, <1>c9, <1>c10, <1>c11, <1>c12, <1>c13, <1>c14, <1>c15,
           <1>c16, <1>c17

LEMMA LookupFedHeadStep ==
  ASSUME TypeOK, Versions, Step, leaf = "lookup_fed", pc <= 17
  PROVE  Versions'
<1>1. /\ pc \in 0 .. 17
      /\ Fetched = LookupFedInstruction(LookupFedLeafOrder[pc + 1],
                                        BaseNetlist[LookupFedLeafOrder[pc + 1] + 1])
  BY DEF TypeOK, Fetched, Netlist, LookupFedNetlist
<1>2. /\ pc' = pc + 1 /\ DOMAIN env = Reg /\ leaf \in {"base", "lookup_fed"}
      /\ UNCHANGED <<caller, acc, leaf, entry>> /\ UNCHANGED Values
      /\ env' = [env EXCEPT ![Fetched.dst] = Value]
  BY NetlistStep
<1>3. TableMeta \in {0, 1}  BY TableInField DEF TypeOK
<1>c0. CASE pc = 0
  <2>1. LookupFedLeafOrder[pc + 1] = 5  BY <1>c0 DEF LookupFedLeafOrder
  <2>2. Fetched = Ins("lookup_meta", "lookup_meta", << >>)
    BY <1>1, <2>1 DEF LookupFedInstruction, BaseNetlist, Ins
  <2>3. Value = TableMeta
    BY <1>c0, <2>2 DEF Value, Ins
  <2> QED BY <1>2, <1>c0, <2>2, <2>3 DEF Ins, Values, Holds, Versions,
      WiresHold, LookupFedHead, CommonTail, Idle, Reg
<1>c1. CASE pc = 1
  <2>1. LookupFedLeafOrder[pc + 1] = 3  BY <1>c1 DEF LookupFedLeafOrder
  <2>2. Fetched = Ins("lookup_affine_x", "lookup_x", << >>)
    BY <1>1, <2>1 DEF LookupFedInstruction, BaseNetlist, Ins
  <2>3. Value = TableX
    BY <1>c1, <2>2 DEF Value, Ins
  <2> QED BY <1>2, <1>c1, <2>2, <2>3 DEF Ins, Values, Holds, Versions,
      WiresHold, LookupFedHead, CommonTail, Idle, Reg
<1>c2. CASE pc = 2
  <2>1. LookupFedLeafOrder[pc + 1] = 4  BY <1>c2 DEF LookupFedLeafOrder
  <2>2. Fetched = Ins("lookup_affine_y", "lookup_y", << >>)
    BY <1>1, <2>1 DEF LookupFedInstruction, BaseNetlist, Ins
  <2>3. Value = TableY
    BY <1>c2, <2>2 DEF Value, Ins
  <2> QED BY <1>2, <1>c2, <2>2, <2>3 DEF Ins, Values, Holds, Versions,
      WiresHold, LookupFedHead, CommonTail, Idle, Reg
<1>c3. CASE pc = 3
  <2>1. LookupFedLeafOrder[pc + 1] = 6  BY <1>c3 DEF LookupFedLeafOrder
  <2>2. Fetched = Ins("bool_from_flag", "f_lookup_inf", <<"lookup_meta">>)
    BY <1>1, <2>1 DEF LookupFedInstruction, BaseNetlist, Ins
  <2>3. Value = TableMeta
    BY <1>3, <1>c3, <2>2 DEF Value, Src, Ins, Versions, LookupFedHead, Holds, FlagBit
  <2> QED BY <1>2, <1>c3, <2>2, <2>3 DEF Ins, Values, Holds, Versions,
      WiresHold, LookupFedHead, CommonTail, Idle, Reg
<1>c4. CASE pc = 4
  <2>1. LookupFedLeafOrder[pc + 1] = 8  BY <1>c4 DEF LookupFedLeafOrder
  <2>2. Fetched = Ins("field_add", "t1", <<"lookup_x", "lookup_y">>)
    BY <1>1, <2>1 DEF LookupFedInstruction, BaseNetlist, Ins
  <2>3. Value = S
    BY <1>c4, <2>2 DEF Value, Src, Ins, Versions, LookupFedHead, Holds, S
  <2> QED BY <1>2, <1>c4, <2>2, <2>3 DEF Ins, Values, Holds, Versions,
      WiresHold, LookupFedHead, CommonTail, Idle, Reg
<1>c5. CASE pc = 5
  <2>1. LookupFedLeafOrder[pc + 1] = 0  BY <1>c5 DEF LookupFedLeafOrder
  <2>2. Fetched = Ins("load_input", "qx", <<"Q.X">>)
    BY <1>1, <2>1 DEF LookupFedInstruction, BaseNetlist, Ins
  <2>3. Value = acc[1]
    BY <1>c5, <2>2 DEF Value, Src, Ins, Versions, WiresHold, Idle
  <2> QED BY <1>2, <1>c5, <2>2, <2>3 DEF Ins, Values, Holds, Versions,
      WiresHold, LookupFedHead, CommonTail, Idle, Reg
<1>c6. CASE pc = 6
  <2>1. LookupFedLeafOrder[pc + 1] = 1  BY <1>c6 DEF LookupFedLeafOrder
  <2>2. Fetched = Ins("load_input", "qy", <<"Q.Y">>)
    BY <1>1, <2>1 DEF LookupFedInstruction, BaseNetlist, Ins
  <2>3. Value = acc[2]
    BY <1>c6, <2>2 DEF Value, Src, Ins, Versions, WiresHold, Idle
  <2> QED BY <1>2, <1>c6, <2>2, <2>3 DEF Ins, Values, Holds, Versions,
      WiresHold, LookupFedHead, CommonTail, Idle, Reg
<1>c7. CASE pc = 7
  <2>1. LookupFedLeafOrder[pc + 1] = 2  BY <1>c7 DEF LookupFedLeafOrder
  <2>2. Fetched = Ins("load_input", "qz", <<"Q.Z">>)
    BY <1>1, <2>1 DEF LookupFedInstruction, BaseNetlist, Ins
  <2>3. Value = acc[3]
    BY <1>c7, <2>2 DEF Value, Src, Ins, Versions, WiresHold, Idle
  <2> QED BY <1>2, <1>c7, <2>2, <2>3 DEF Ins, Values, Holds, Versions,
      WiresHold, LookupFedHead, CommonTail, Idle, Reg
<1>c8. CASE pc = 8
  <2>1. LookupFedLeafOrder[pc + 1] = 9  BY <1>c8 DEF LookupFedLeafOrder
  <2>2. Fetched = Ins("field_mul", "lx", <<"lookup_x", "qz">>)
    BY <1>1, <2>1 DEF LookupFedInstruction, BaseNetlist, Ins
  <2>3. Value = XZ
    BY <1>c8, <2>2 DEF Value, Src, Ins, Versions, LookupFedHead, Holds, XZ
  <2> QED BY <1>2, <1>c8, <2>2, <2>3 DEF Ins, Values, Holds, Versions,
      WiresHold, LookupFedHead, CommonTail, Idle, Reg
<1>c9. CASE pc = 9
  <2>1. LookupFedLeafOrder[pc + 1] = 10  BY <1>c9 DEF LookupFedLeafOrder
  <2>2. Fetched = Ins("field_add", "lx", <<"lx", "qx">>)
    BY <1>1, <2>1 DEF LookupFedInstruction, BaseNetlist, Ins
  <2>3. Value = XS
    BY <1>c9, <2>2 DEF Value, Src, Ins, Versions, LookupFedHead, Holds, XS
  <2> QED BY <1>2, <1>c9, <2>2, <2>3 DEF Ins, Values, Holds, Versions,
      WiresHold, LookupFedHead, CommonTail, Idle, Reg
<1>c10. CASE pc = 10
  <2>1. LookupFedLeafOrder[pc + 1] = 13  BY <1>c10 DEF LookupFedLeafOrder
  <2>2. Fetched = Ins("mul_const", "lx", <<"lx">>)
    BY <1>1, <2>1 DEF LookupFedInstruction, BaseNetlist, Ins
  <2>3. Value = C
    BY <1>c10, <2>2 DEF Value, Src, Ins, Versions, LookupFedHead, Holds, C
  <2> QED BY <1>2, <1>c10, <2>2, <2>3 DEF Ins, Values, Holds, Versions,
      WiresHold, LookupFedHead, CommonTail, Idle, Reg
<1>c11. CASE pc = 11
  <2>1. LookupFedLeafOrder[pc + 1] = 15  BY <1>c11 DEF LookupFedLeafOrder
  <2>2. Fetched = Ins("field_mul", "ly", <<"lookup_y", "qz">>)
    BY <1>1, <2>1 DEF LookupFedInstruction, BaseNetlist, Ins
  <2>3. Value = YZ
    BY <1>c11, <2>2 DEF Value, Src, Ins, Versions, LookupFedHead, Holds, YZ
  <2> QED BY <1>2, <1>c11, <2>2, <2>3 DEF Ins, Values, Holds, Versions,
      WiresHold, LookupFedHead, CommonTail, Idle, Reg
<1>c12. CASE pc = 12
  <2>1. LookupFedLeafOrder[pc + 1] = 16  BY <1>c12 DEF LookupFedLeafOrder
  <2>2. Fetched = Ins("field_add", "ly", <<"ly", "qy">>)
    BY <1>1, <2>1 DEF LookupFedInstruction, BaseNetlist, Ins
  <2>3. Value = E
    BY <1>c12, <2>2 DEF Value, Src, Ins, Versions, LookupFedHead, Holds, E
  <2> QED BY <1>2, <1>c12, <2>2, <2>3 DEF Ins, Values, Holds, Versions,
      WiresHold, LookupFedHead, CommonTail, Idle, Reg
<1>c13. CASE pc = 13
  <2>1. LookupFedLeafOrder[pc + 1] = 17  BY <1>c13 DEF LookupFedLeafOrder
  <2>2. Fetched = Ins("mul_const", "qz", <<"qz">>)
    BY <1>1, <2>1 DEF LookupFedInstruction, BaseNetlist, Ins
  <2>3. Value = F
    BY <1>c13, <2>2 DEF Value, Src, Ins, Versions, LookupFedHead, Holds, F
  <2> QED BY <1>2, <1>c13, <2>2, <2>3 DEF Ins, Values, Holds, Versions,
      WiresHold, LookupFedHead, CommonTail, Idle, Reg
<1>c14. CASE pc = 14
  <2>1. LookupFedLeafOrder[pc + 1] = 7  BY <1>c14 DEF LookupFedLeafOrder
  <2>2. Fetched = Ins("field_mul", "t0", <<"qx", "lookup_x">>)
    BY <1>1, <2>1 DEF LookupFedInstruction, BaseNetlist, Ins
  <2>3. Value = A
    BY <1>c14, <2>2 DEF Value, Src, Ins, Versions, LookupFedHead, Holds, A
  <2> QED BY <1>2, <1>c14, <2>2, <2>3 DEF Ins, Values, Holds, Versions,
      WiresHold, LookupFedHead, CommonTail, Idle, Reg
<1>c15. CASE pc = 15
  <2>1. LookupFedLeafOrder[pc + 1] = 11  BY <1>c15 DEF LookupFedLeafOrder
  <2>2. Fetched = Ins("field_add", "qx", <<"qx", "qy">>)
    BY <1>1, <2>1 DEF LookupFedInstruction, BaseNetlist, Ins
  <2>3. Value = G
    BY <1>c15, <2>2 DEF Value, Src, Ins, Versions, LookupFedHead, Holds, G
  <2> QED BY <1>2, <1>c15, <2>2, <2>3 DEF Ins, Values, Holds, Versions,
      WiresHold, LookupFedHead, CommonTail, Idle, Reg
<1>c16. CASE pc = 16
  <2>1. LookupFedLeafOrder[pc + 1] = 12  BY <1>c16 DEF LookupFedLeafOrder
  <2>2. Fetched = Ins("field_mul", "t1", <<"t1", "qx">>)
    BY <1>1, <2>1 DEF LookupFedInstruction, BaseNetlist, Ins
  <2>3. Value = H
    BY <1>c16, <2>2 DEF Value, Src, Ins, Versions, LookupFedHead, Holds, H
  <2> QED BY <1>2, <1>c16, <2>2, <2>3 DEF Ins, Values, Holds, Versions,
      WiresHold, LookupFedHead, CommonTail, Idle, Reg
<1>c17. CASE pc = 17
  <2>1. LookupFedLeafOrder[pc + 1] = 14  BY <1>c17 DEF LookupFedLeafOrder
  <2>2. Fetched = Ins("field_mul", "qx", <<"qy", "lookup_y">>)
    BY <1>1, <2>1 DEF LookupFedInstruction, BaseNetlist, Ins
  <2>3. Value = I
    BY <1>c17, <2>2 DEF Value, Src, Ins, Versions, LookupFedHead, Holds, I
  <2> QED BY <1>2, <1>c17, <2>2, <2>3 DEF Ins, Values, Holds, Versions,
      WiresHold, LookupFedHead, CommonTail, Idle, Reg
<1> QED BY <1>1, <1>c0, <1>c1, <1>c2, <1>c3, <1>c4, <1>c5, <1>c6, <1>c7,
           <1>c8, <1>c9, <1>c10, <1>c11, <1>c12, <1>c13, <1>c14, <1>c15,
           <1>c16, <1>c17

LEMMA TailFetched ==
  ASSUME leaf \in {"base", "lookup_fed"}, pc \in 18 .. 36
  PROVE  /\ pc <= 35 => Fetched = BaseNetlist[pc + 1]
         /\ pc = 36 => Fetched = Ins("clear_bool_from_flag", "f_lookup_inf", <<MetaReg>>)
<1>1. BaseNetlist[37] = Ins("clear_bool_from_flag", "f_lookup_inf", <<"meta">>)
  BY DEF BaseNetlist
<1>2. CASE leaf = "base"  BY <1>1, <1>2 DEF Fetched, Netlist, MetaReg
<1>3. CASE leaf = "lookup_fed"
  <2>1. LookupFedLeafOrder[pc + 1] = pc  BY DEF LookupFedLeafOrder
  <2>2. Fetched = LookupFedInstruction(pc, BaseNetlist[pc + 1])
    BY <1>3, <2>1 DEF Fetched, Netlist, LookupFedNetlist
  <2> QED BY <1>1, <1>3, <2>2 DEF LookupFedInstruction, Ins, MetaReg
<1> QED BY <1>2, <1>3

LEMMA CommonTailStep ==
  ASSUME TypeOK, Versions, Step, leaf \in {"base", "lookup_fed"}, pc >= 18
  PROVE  Versions'
<1>1. /\ pc \in 18 .. 36
      /\ pc <= 35 => Fetched = BaseNetlist[pc + 1]
      /\ pc = 36 => Fetched = Ins("clear_bool_from_flag", "f_lookup_inf", <<MetaReg>>)
  BY TailFetched, NetlistStep DEF TypeOK
<1>2. /\ pc' = pc + 1 /\ DOMAIN env = Reg /\ leaf \in {"base", "lookup_fed"}
      /\ UNCHANGED <<caller, acc, leaf, entry>> /\ UNCHANGED Values
      /\ env' = [env EXCEPT ![Fetched.dst] = Value]
  BY NetlistStep
<1>3. TableMeta \in {0, 1}  BY TableInField DEF TypeOK
<1>4. ASSUME CommonTail', NEW r \in Reg \ {"Q.X", "Q.Y", "Q.Z", "meta", "lookup_meta"},
             NEW v, env' = [env EXCEPT ![r] = v]
      PROVE  Versions'
  <2>1. WiresHold'
    BY <1>2, <1>4 DEF Versions, WiresHold, Idle, Reg
  <2>2. leaf = "base" => BaseHead'
    BY <1>1, <1>2, <1>4 DEF Values, Versions, BaseHead, Holds, Reg
  <2>3. leaf = "lookup_fed" => LookupFedHead'
    BY <1>1, <1>2, <1>4 DEF Values, Versions, LookupFedHead, Holds, Reg
  <2> QED BY <1>2, <1>4, <2>1, <2>2, <2>3 DEF Versions
<1>c18. CASE pc = 18
  <2>1. Fetched = Ins("field_add", "qy", <<"t0", "qx">>)
    BY <1>1, <1>c18 DEF BaseNetlist
  <2>2. Value = AI
    BY <1>c18, <2>1 DEF Value, Src, Ins, Versions, CommonTail, Holds, AI
  <2>3. CommonTail'
    BY <1>2, <1>c18, <2>1, <2>2 DEF Ins, Values, Versions, CommonTail, Holds, Reg
  <2> QED BY <1>2, <1>4, <2>1, <2>3 DEF Ins, Reg
<1>c19. CASE pc = 19
  <2>1. Fetched = Ins("field_sub", "t1", <<"t1", "qy">>)
    BY <1>1, <1>c19 DEF BaseNetlist
  <2>2. Value = K
    BY <1>c19, <2>1 DEF Value, Src, Ins, Versions, CommonTail, Holds, K
  <2>3. CommonTail'
    BY <1>2, <1>c19, <2>1, <2>2 DEF Ins, Values, Versions, CommonTail, Holds, Reg
  <2> QED BY <1>2, <1>4, <2>1, <2>3 DEF Ins, Reg
<1>c20. CASE pc = 20
  <2>1. Fetched = Ins("field_add", "qy", <<"t0", "t0">>)
    BY <1>1, <1>c20 DEF BaseNetlist
  <2>2. Value = A2
    BY <1>c20, <2>1 DEF Value, Src, Ins, Versions, CommonTail, Holds, A2
  <2>3. CommonTail'
    BY <1>2, <1>c20, <2>1, <2>2 DEF Ins, Values, Versions, CommonTail, Holds, Reg
  <2> QED BY <1>2, <1>4, <2>1, <2>3 DEF Ins, Reg
<1>c21. CASE pc = 21
  <2>1. Fetched = Ins("field_add", "qy", <<"qy", "t0">>)
    BY <1>1, <1>c21 DEF BaseNetlist
  <2>2. Value = L
    BY <1>c21, <2>1 DEF Value, Src, Ins, Versions, CommonTail, Holds, L
  <2>3. CommonTail'
    BY <1>2, <1>c21, <2>1, <2>2 DEF Ins, Values, Versions, CommonTail, Holds, Reg
  <2> QED BY <1>2, <1>4, <2>1, <2>3 DEF Ins, Reg
<1>c22. CASE pc = 22
  <2>1. Fetched = Ins("field_add", "t0", <<"qx", "qz">>)
    BY <1>1, <1>c22 DEF BaseNetlist
  <2>2. Value = M
    BY <1>c22, <2>1 DEF Value, Src, Ins, Versions, CommonTail, Holds, M
  <2>3. CommonTail'
    BY <1>2, <1>c22, <2>1, <2>2 DEF Ins, Values, Versions, CommonTail, Holds, Reg
  <2> QED BY <1>2, <1>4, <2>1, <2>3 DEF Ins, Reg
<1>c23. CASE pc = 23
  <2>1. Fetched = Ins("field_sub", "qx", <<"qx", "qz">>)
    BY <1>1, <1>c23 DEF BaseNetlist
  <2>2. Value = N
    BY <1>c23, <2>1 DEF Value, Src, Ins, Versions, CommonTail, Holds, N
  <2>3. CommonTail'
    BY <1>2, <1>c23, <2>1, <2>2 DEF Ins, Values, Versions, CommonTail, Holds, Reg
  <2> QED BY <1>2, <1>4, <2>1, <2>3 DEF Ins, Reg
<1>c24. CASE pc = 24
  <2>1. Fetched = Ins("field_mul", "qz", <<"ly", "lx">>)
    BY <1>1, <1>c24 DEF BaseNetlist
  <2>2. Value = EC
    BY <1>c24, <2>1 DEF Value, Src, Ins, Versions, CommonTail, Holds, EC
  <2>3. CommonTail'
    BY <1>2, <1>c24, <2>1, <2>2 DEF Ins, Values, Versions, CommonTail, Holds, Reg
  <2> QED BY <1>2, <1>4, <2>1, <2>3 DEF Ins, Reg
<1>c25. CASE pc = 25
  <2>1. Fetched = Ins("field_mul", "lx", <<"lx", "qy">>)
    BY <1>1, <1>c25 DEF BaseNetlist
  <2>2. Value = CL
    BY <1>c25, <2>1 DEF Value, Src, Ins, Versions, CommonTail, Holds, CL
  <2>3. CommonTail'
    BY <1>2, <1>c25, <2>1, <2>2 DEF Ins, Values, Versions, CommonTail, Holds, Reg
  <2> QED BY <1>2, <1>4, <2>1, <2>3 DEF Ins, Reg
<1>c26. CASE pc = 26
  <2>1. Fetched = Ins("field_mul", "qy", <<"qy", "t1">>)
    BY <1>1, <1>c26 DEF BaseNetlist
  <2>2. Value = LK
    BY <1>c26, <2>1 DEF Value, Src, Ins, Versions, CommonTail, Holds, LK
  <2>3. CommonTail'
    BY <1>2, <1>c26, <2>1, <2>2 DEF Ins, Values, Versions, CommonTail, Holds, Reg
  <2> QED BY <1>2, <1>4, <2>1, <2>3 DEF Ins, Reg
<1>c27. CASE pc = 27
  <2>1. Fetched = Ins("field_mul", "t1", <<"t1", "qx">>)
    BY <1>1, <1>c27 DEF BaseNetlist
  <2>2. Value = KN
    BY <1>c27, <2>1 DEF Value, Src, Ins, Versions, CommonTail, Holds, KN
  <2>3. CommonTail'
    BY <1>2, <1>c27, <2>1, <2>2 DEF Ins, Values, Versions, CommonTail, Holds, Reg
  <2> QED BY <1>2, <1>4, <2>1, <2>3 DEF Ins, Reg
<1>c28. CASE pc = 28
  <2>1. Fetched = Ins("field_sub", "t1", <<"t1", "qz">>)
    BY <1>1, <1>c28 DEF BaseNetlist
  <2>2. Value = Xr
    BY <1>c28, <2>1 DEF Value, Src, Ins, Versions, CommonTail, Holds, Xr
  <2>3. CommonTail'
    BY <1>2, <1>c28, <2>1, <2>2 DEF Ins, Values, Versions, CommonTail, Holds, Reg
  <2> QED BY <1>2, <1>4, <2>1, <2>3 DEF Ins, Reg
<1>c29. CASE pc = 29
  <2>1. Fetched = Ins("field_mul", "qx", <<"qx", "t0">>)
    BY <1>1, <1>c29 DEF BaseNetlist
  <2>2. Value = NM
    BY <1>c29, <2>1 DEF Value, Src, Ins, Versions, CommonTail, Holds, NM
  <2>3. CommonTail'
    BY <1>2, <1>c29, <2>1, <2>2 DEF Ins, Values, Versions, CommonTail, Holds, Reg
  <2> QED BY <1>2, <1>4, <2>1, <2>3 DEF Ins, Reg
<1>c30. CASE pc = 30
  <2>1. Fetched = Ins("field_add", "lx", <<"qx", "lx">>)
    BY <1>1, <1>c30 DEF BaseNetlist
  <2>2. Value = Yr
    BY <1>c30, <2>1 DEF Value, Src, Ins, Versions, CommonTail, Holds, Yr
  <2>3. CommonTail'
    BY <1>2, <1>c30, <2>1, <2>2 DEF Ins, Values, Versions, CommonTail, Holds, Reg
  <2> QED BY <1>2, <1>4, <2>1, <2>3 DEF Ins, Reg
<1>c31. CASE pc = 31
  <2>1. Fetched = Ins("field_mul", "t0", <<"t0", "ly">>)
    BY <1>1, <1>c31 DEF BaseNetlist
  <2>2. Value = ME
    BY <1>c31, <2>1 DEF Value, Src, Ins, Versions, CommonTail, Holds, ME
  <2>3. CommonTail'
    BY <1>2, <1>c31, <2>1, <2>2 DEF Ins, Values, Versions, CommonTail, Holds, Reg
  <2> QED BY <1>2, <1>4, <2>1, <2>3 DEF Ins, Reg
<1>c32. CASE pc = 32
  <2>1. Fetched = Ins("field_add", "t0", <<"t0", "qy">>)
    BY <1>1, <1>c32 DEF BaseNetlist
  <2>2. Value = Zr
    BY <1>c32, <2>1 DEF Value, Src, Ins, Versions, CommonTail, Holds, Zr
  <2>3. CommonTail'
    BY <1>2, <1>c32, <2>1, <2>2 DEF Ins, Values, Versions, CommonTail, Holds, Reg
  <2> QED BY <1>2, <1>4, <2>1, <2>3 DEF Ins, Reg
<1>c33. CASE pc = 33
  <2>1. Fetched = Ins("select_field_if_flag", "qx", <<"Q.X", "t1", "f_lookup_inf">>)
    BY <1>1, <1>c33 DEF BaseNetlist
  <2>2. Value = OutX
    BY <1>3, <1>c33, <2>1 DEF Value, Src, Ins, Versions, CommonTail, Holds, WiresHold, Idle, OutX
  <2>3. CommonTail'
    BY <1>2, <1>c33, <2>1, <2>2 DEF Ins, Values, Versions, CommonTail, Holds, Reg
  <2> QED BY <1>2, <1>4, <2>1, <2>3 DEF Ins, Reg
<1>c34. CASE pc = 34
  <2>1. Fetched = Ins("select_field_if_flag", "qy", <<"Q.Y", "lx", "f_lookup_inf">>)
    BY <1>1, <1>c34 DEF BaseNetlist
  <2>2. Value = OutY
    BY <1>3, <1>c34, <2>1 DEF Value, Src, Ins, Versions, CommonTail, Holds, WiresHold, Idle, OutY
  <2>3. CommonTail'
    BY <1>2, <1>c34, <2>1, <2>2 DEF Ins, Values, Versions, CommonTail, Holds, Reg
  <2> QED BY <1>2, <1>4, <2>1, <2>3 DEF Ins, Reg
<1>c35. CASE pc = 35
  <2>1. Fetched = Ins("select_field_if_flag", "qz", <<"Q.Z", "t0", "f_lookup_inf">>)
    BY <1>1, <1>c35 DEF BaseNetlist
  <2>2. Value = OutZ
    BY <1>3, <1>c35, <2>1 DEF Value, Src, Ins, Versions, CommonTail, Holds, WiresHold, Idle, OutZ
  <2>3. CommonTail'
    BY <1>2, <1>c35, <2>1, <2>2 DEF Ins, Values, Versions, CommonTail, Holds, Reg
  <2> QED BY <1>2, <1>4, <2>1, <2>3 DEF Ins, Reg
<1>c36. CASE pc = 36
  <2>1. Fetched = Ins("clear_bool_from_flag", "f_lookup_inf", <<MetaReg>>)
    BY <1>1, <1>c36 DEF MetaReg
  <2>2. Value = 0
    BY <1>2, <1>3, <1>c36, <2>1 DEF Value, Src, Ins, Versions, BaseHead,
       LookupFedHead, CommonTail, Holds, FlagBit, MetaReg
  <2>3. CommonTail'
    BY <1>2, <1>c36, <2>1, <2>2 DEF Ins, Values, Versions, CommonTail, Holds, Reg
  <2> QED BY <1>2, <1>4, <2>1, <2>3 DEF Ins, Reg
<1> QED BY <1>1, <1>c18, <1>c19, <1>c20, <1>c21, <1>c22, <1>c23, <1>c24,
           <1>c25, <1>c26, <1>c27, <1>c28, <1>c29, <1>c30, <1>c31, <1>c32,
           <1>c33, <1>c34, <1>c35, <1>c36

LEMMA StreamedTailStep ==
  ASSUME TypeOK, Versions, Step, leaf = "streamed_tail"
  PROVE  Versions'
<1>1. /\ pc \in 0 .. 5 /\ pc' = pc + 1 /\ DOMAIN env = Reg /\ ~Idle
      /\ UNCHANGED <<caller, acc, leaf, entry>> /\ UNCHANGED Values
      /\ Fetched = StreamedTailNetlist[pc + 1]
      /\ ~IsTail(Fetched) => env' = [env EXCEPT ![Fetched.dst] = Value]
  BY StepWrites, ValuesFixed DEF TypeOK, NetlistLength, Fetched, Netlist, Idle
<1>2. /\ TableMeta \in {0, 1} /\ TableX \in Int /\ TableY \in Int
      /\ acc[1] \in Field /\ acc[2] \in Field /\ acc[3] \in Field
  BY TableInField, FieldIsInt DEF TypeOK
<1>3. TableMeta' = TableMeta  BY <1>1 DEF Values
<1>4. ASSUME NEW r \in Reg, NEW v, env' = [env EXCEPT ![r] = v], StreamedTail',
             r \notin {"Q.X", "Q.Y", "Q.Z"}
      PROVE  Versions'
  BY <1>1, <1>4 DEF Versions, WiresHold, Idle, Reg
<1>c0. CASE pc = 0
  <2>1. Fetched = Ins("load_input", "qx", <<"Q.X">>)
    BY <1>1, <1>c0 DEF StreamedTailNetlist
  <2>2. Value = acc[1]
    BY <1>1, <2>1 DEF Value, Src, Ins, Versions, WiresHold
  <2>3. env' = [env EXCEPT !["qx"] = acc[1]]
    BY <1>1, <2>1, <2>2 DEF Ins, IsTail
  <2>4. StreamedTail'
    BY <1>1, <1>2, <1>3, <1>c0, <2>3 DEF Versions, StreamedTail, Holds, Reg, Values
  <2> QED BY <1>4, <2>3, <2>4 DEF Reg
<1>c1. CASE pc = 1
  <2>1. Fetched = Ins("load_input", "qy", <<"Q.Y">>)
    BY <1>1, <1>c1 DEF StreamedTailNetlist
  <2>2. Value = acc[2]
    BY <1>1, <2>1 DEF Value, Src, Ins, Versions, WiresHold
  <2>3. env' = [env EXCEPT !["qy"] = acc[2]]
    BY <1>1, <2>1, <2>2 DEF Ins, IsTail
  <2>4. StreamedTail'
    BY <1>1, <1>2, <1>3, <1>c1, <2>3 DEF Versions, StreamedTail, Holds, Reg, Values
  <2> QED BY <1>4, <2>3, <2>4 DEF Reg
<1>c2. CASE pc = 2
  <2>1. Fetched = Ins("load_input", "qz", <<"Q.Z">>)
    BY <1>1, <1>c2 DEF StreamedTailNetlist
  <2>2. Value = acc[3]
    BY <1>1, <2>1 DEF Value, Src, Ins, Versions, WiresHold
  <2>3. env' = [env EXCEPT !["qz"] = acc[3]]
    BY <1>1, <2>1, <2>2 DEF Ins, IsTail
  <2>4. StreamedTail'
    BY <1>1, <1>2, <1>3, <1>c2, <2>3 DEF Versions, StreamedTail, Holds, Reg, Values
  <2> QED BY <1>4, <2>3, <2>4 DEF Reg
<1>c3. CASE pc = 3
  <2>1. Fetched = Ins("lookup_meta", "lookup_meta", << >>)
    BY <1>1, <1>c3 DEF StreamedTailNetlist
  <2>2. env' = [env EXCEPT !["lookup_meta"] = TableMeta]
    BY <1>1, <2>1 DEF Ins, IsTail, Value
  <2>3. StreamedTail'
    BY <1>1, <1>2, <1>3, <1>c3, <2>2 DEF Versions, StreamedTail, Holds, Reg, Values
  <2> QED BY <1>4, <2>2, <2>3 DEF Reg
<1>c4. CASE pc = 4
  <2>1. Fetched = Ins("bool_from_flag", "f_lookup_inf", <<"lookup_meta">>)
    BY <1>1, <1>c4 DEF StreamedTailNetlist
  <2>2. Value = TableMeta
    BY <1>2, <1>c4, <2>1 DEF Value, Src, Ins, FlagBit, Versions, StreamedTail
  <2>3. env' = [env EXCEPT !["f_lookup_inf"] = TableMeta]
    BY <1>1, <2>1, <2>2 DEF Ins, IsTail
  <2>4. StreamedTail'
    BY <1>1, <1>2, <1>3, <1>c4, <2>3 DEF Versions, StreamedTail, Holds, Reg, Values
  <2> QED BY <1>4, <2>3, <2>4 DEF Reg
<1>c5. CASE pc = 5
  <2>1. Fetched = Ins("complete_a0_all_streamed_tail", "qx", <<"qx", "qy", "qz">>)
    BY <1>1, <1>c5 DEF StreamedTailNetlist
  <2>2. AllStreamedTail
    BY <2>1 DEF Step, LoadInput, LookupX, LookupY, LookupMeta, BoolFromFlag,
       ClearBool, FieldMul, FieldAdd, FieldSub, MulConst, SelectField, Fetches, Ins
  <2>3. Src(1) = acc[1] /\ Src(2) = acc[2] /\ Src(3) = acc[3]
    BY <1>1, <1>c5, <2>1 DEF Versions, StreamedTail, Holds, Src, Ins
  <2>4. env' = [env EXCEPT !["qx"] = Streamed[1], !["qy"] = Streamed[2], !["qz"] = Streamed[3]]
    BY <2>2, <2>3 DEF AllStreamedTail, Streamed
  <2>5. Streamed = <<Streamed[1], Streamed[2], Streamed[3]>>  BY DEF Streamed, StreamedTailValue
  <2>6. StreamedTail'
    BY <1>1, <1>3, <1>c5, <2>4, <2>5 DEF Versions, StreamedTail, Holds, Reg, Values, Result
  <2> QED BY <1>1, <2>4, <2>6 DEF Versions, WiresHold, Idle, Reg
<1> QED BY <1>1, <1>c0, <1>c1, <1>c2, <1>c3, <1>c4, <1>c5

(* A step keeps every version of every register.                           *)
LEMMA StepVersions ==
  ASSUME TypeOK, Versions, Step
  PROVE  Versions'
<1>1. leaf \in {"base", "lookup_fed", "streamed_tail"} /\ pc \in 0 .. 36
  BY StepWrites, LeafAssumption DEF TypeOK, Idle, NetlistLength
<1> QED BY <1>1, BaseHeadStep, LookupFedHeadStep, CommonTailStep, StreamedTailStep
-----------------------------------------------------------------------------
(***************************************************************************)
(* The calls.                                                              *)
(***************************************************************************)
LEMMA InitIInv == ASSUME Init PROVE IInv
<1>1. acc \in Field \X Field \X Field
  BY FieldIsInt DEF Init, affine_to_proj, AffinePoint, None
<1>2. None \in AffinePoint  BY DEF AffinePoint
<1>3. TypeOK
  BY <1>1, <1>2 DEF Init, TypeOK, Idle, EmptyRegisters, NetlistLength
<1> QED BY <1>3, LeafAssumption DEF Init, IInv, Versions, Idle

LEMMA CallIInv ==
  ASSUME TypeOK, NEW l \in Leaves, NEW t \in AffinePoint, CallLeaf(l, t)
  PROVE  IInv'
<1>1. TypeOK'
  BY LeafAssumption DEF TypeOK, CallLeaf, Idle, EmptyRegisters, NetlistLength, Reg
<1>2. /\ pc' = 0 /\ acc' = acc /\ env'["f_lookup_inf"] = Undef
      /\ env'["Q.X"] = acc[1] /\ env'["Q.Y"] = acc[2] /\ env'["Q.Z"] = acc[3]
  BY DEF CallLeaf, EmptyRegisters, Reg
<1>3. WiresHold'  BY <1>2 DEF WiresHold
<1>4. BaseHead' /\ LookupFedHead' /\ CommonTail'
  BY <1>2 DEF BaseHead, LookupFedHead, CommonTail, Holds
<1>5. StreamedTail'  BY <1>2 DEF StreamedTail, Holds
<1> QED BY <1>1, <1>3, <1>4, <1>5 DEF IInv, Versions

LEMMA HandBackIInv ==
  ASSUME TypeOK, NEW q \in Field \X Field \X Field, HandBack(q)
  PROVE  IInv'
<1>1. acc' \in Field \X Field \X Field
  BY RenormalisedInField DEF HandBack
<1>2. None \in AffinePoint  BY DEF AffinePoint
<1>3. TypeOK'
  BY <1>1, <1>2 DEF TypeOK, HandBack, Idle, EmptyRegisters, NetlistLength
<1> QED BY <1>3 DEF HandBack, IInv, Versions, Idle

(* Every value of a call is a field element.                               *)
LEMMA ValuesInField ==
  ASSUME TypeOK
  PROVE  Xr \in Field /\ Yr \in Field /\ Zr \in Field
<1>1. /\ acc[1] \in Int /\ acc[2] \in Int /\ acc[3] \in Int
      /\ TableX \in Int /\ TableY \in Int /\ 21 \in Int
  <2>1. /\ acc[1] \in Field /\ acc[2] \in Field /\ acc[3] \in Field
        /\ TableX \in Field /\ TableY \in Field
    BY TableInField DEF TypeOK
  <2> QED BY <2>1, CurveAssumption DEF Field
<1>2. A \in Int /\ S \in Int /\ XZ \in Int /\ G \in Int /\ I \in Int
      /\ YZ \in Int /\ F \in Int
  BY FieldOpsInt, <1>1 DEF A, S, XZ, G, I, YZ, F
<1>3. XS \in Int /\ H \in Int /\ E \in Int /\ AI \in Int /\ A2 \in Int
      /\ M \in Int /\ N \in Int
  BY FieldOpsInt, <1>1, <1>2 DEF XS, H, E, AI, A2, M, N
<1>4. C \in Int /\ K \in Int /\ L \in Int
  BY FieldOpsInt, <1>1, <1>2, <1>3 DEF C, K, L
<1>5. EC \in Int /\ CL \in Int /\ LK \in Int /\ KN \in Int /\ NM \in Int /\ ME \in Int
  BY FieldOpsInt, <1>3, <1>4 DEF EC, CL, LK, KN, NM, ME
<1> QED BY <1>5, FieldClosed DEF Xr, Yr, Zr

(* At the end of a call the interpreter holds field elements in qx, qy, qz.*)
LEMMA OutputsInField ==
  ASSUME TypeOK, Versions, Finished
  PROVE  Result \in Field \X Field \X Field
<1>1. leaf \in {"base", "lookup_fed", "streamed_tail"}
  BY LeafAssumption DEF TypeOK, Finished, Idle
<1>2. CASE leaf = "streamed_tail"
  <2>1. Result = Streamed
    BY <1>2 DEF Versions, StreamedTail, Finished, NetlistLength
  <2>2. /\ acc[1] \in Int /\ acc[2] \in Int /\ acc[3] \in Int
        /\ TableX \in Int /\ TableY \in Int
    BY TableInField, FieldIsInt DEF TypeOK
  <2> QED BY <2>1, <2>2, StreamedTailInField DEF Streamed
<1>3. CASE leaf \in {"base", "lookup_fed"}
  <2>1. Result = <<OutX, OutY, OutZ>>
    BY <1>3 DEF Versions, CommonTail, Holds, Finished, NetlistLength, Result
  <2> QED BY <2>1, ValuesInField DEF TypeOK, OutX, OutY, OutZ
<1> QED BY <1>1, <1>2, <1>3
-----------------------------------------------------------------------------
(***************************************************************************)
(* The invariant and what follows from it.                                 *)
(***************************************************************************)
LEMMA NextIInv == ASSUME IInv, [Next]_vars PROVE IInv'
<1> USE DEF IInv
<1>1. ASSUME NEW l \in Leaves, NEW t \in AffinePoint, CallLeaf(l, t)
      PROVE  IInv'
  BY <1>1, CallIInv
<1>2. CASE Step  BY <1>2, StepType, StepVersions
<1>3. CASE Return
  BY <1>3, OutputsInField, HandBackIInv DEF Return, Finished, Result
<1>4. CASE ReturnAtBoundary
  BY <1>4, HandBackIInv DEF ReturnAtBoundary, TypeOK
<1>5. CASE UNCHANGED vars
  <2>1. TypeOK'  BY <1>5 DEF TypeOK, vars, Idle
  <2>2. UNCHANGED Values  BY <1>5, ValuesFixed DEF vars
  <2>3. Versions'
    BY <1>5, <2>2 DEF vars, Values, Versions, WiresHold, BaseHead, LookupFedHead,
       CommonTail, StreamedTail, Holds, Idle, Result
  <2> QED BY <2>1, <2>3
<1> QED BY <1>1, <1>2, <1>3, <1>4, <1>5 DEF Next

LEMMA InvariantIInv == Spec => []IInv
BY InitIInv, NextIInv, PTL DEF Spec

(* Every register holds a field element or was never written, and the      *)
(* accumulator has field coordinates: no instruction of the three netlists *)
(* and no renormalisation leaves the field.                                *)
THEOREM TypeCorrect == Spec => []TypeOK
<1>1. IInv => TypeOK  BY DEF IInv
<1> QED BY <1>1, InvariantIInv, PTL

LEMMA LeafComputes == ASSUME IInv PROVE LeafComputesMixedAdd
<1> SUFFICES ASSUME Finished, leaf \in {"base", "lookup_fed"}
             PROVE  Result = IF entry = None THEN acc ELSE MixedAdd(acc, entry)
  BY DEF LeafComputesMixedAdd
<1>1. Result = <<OutX, OutY, OutZ>>
  BY DEF IInv, Versions, CommonTail, Holds, Finished, NetlistLength, Result
<1>2. CASE entry = None
  BY <1>1, <1>2 DEF OutX, OutY, OutZ, TableMeta, IInv, TypeOK
<1>3. CASE entry # None
  BY <1>1, <1>3 DEF OutX, OutY, OutZ, TableMeta, TableX, TableY, MixedAdd,
     A, S, XZ, XS, G, H, C, I, YZ, E, F, AI, K, A2, L, M, N, EC, CL, LK, KN,
     Xr, NM, Yr, ME, Zr
<1> QED BY <1>2, <1>3

(* For every prime, every accumulator and every entry the base and the     *)
(* lookup-fed netlist compute the mixed addition, whatever the order in    *)
(* which they reuse their registers.                                       *)
THEOREM LeafCorrect == Spec => []LeafComputesMixedAdd
BY LeafComputes, InvariantIInv, PTL

(* The no-op flag of every leaf is the metadata bit from its extraction on,*)
(* and 0 again when the leaf ends.                                         *)
THEOREM FlagCorrect == Spec => []FlagUncomputed
<1>1. ASSUME IInv PROVE FlagUncomputed
  <2> SUFFICES ASSUME ~Idle, env["f_lookup_inf"] # Undef
               PROVE  /\ env[MetaReg] = TableMeta
                      /\ env["f_lookup_inf"] = IF Finished THEN 0 ELSE TableMeta
    BY DEF FlagUncomputed
  <2>1. leaf \in {"base", "lookup_fed", "streamed_tail"} /\ pc \in 0 .. NetlistLength(leaf)
    BY <1>1, LeafAssumption DEF IInv, TypeOK, Idle, NetlistLength
  <2>2. CASE leaf = "base"
    BY <1>1, <2>1, <2>2 DEF IInv, Versions, BaseHead, CommonTail, Holds, MetaReg,
       Finished, BoundaryNoop, NetlistLength
  <2>3. CASE leaf = "lookup_fed"
    BY <1>1, <2>1, <2>3 DEF IInv, Versions, LookupFedHead, CommonTail, Holds,
       MetaReg, Finished, BoundaryNoop, NetlistLength
  <2>4. CASE leaf = "streamed_tail"
    BY <1>1, <2>1, <2>4 DEF IInv, Versions, StreamedTail, MetaReg, Finished,
       BoundaryNoop, NetlistLength, TableMeta
  <2> QED BY <2>1, <2>2, <2>3, <2>4
<1> QED BY <1>1, InvariantIInv, PTL
-----------------------------------------------------------------------------
(***************************************************************************)
(* What a finished call leaves, coordinate for coordinate and as a point.  *)
(***************************************************************************)
(* Going to affine form recovers the point.                                *)
LEMMA RepresentsIs ==
  ASSUME NEW r \in Field \X Field \X Field, NEW pt \in AffinePoint, Represents(r, pt)
  PROVE  proj_to_affine(r) = pt
<1> DEFINE u == r[1]
           v == r[2]
           w == r[3]
<1>1. u \in Field /\ v \in Field /\ w \in Field /\ u \in Int /\ v \in Int /\ w \in Int
  BY ModulusIs
<1>2. CASE pt = None
  <2>1. w = 0 BY <1>2 DEF Represents
  <2> QED BY <1>2, <2>1 DEF proj_to_affine
<1>3. CASE pt # None
  <2> DEFINE x == pt[1]
             y == pt[2]
             i == FInv(w)
             wi == w * i
             one == 1
  <2>1. x \in Field /\ y \in Field /\ pt = <<x, y>> /\ x \in Int /\ y \in Int BY <1>3, PointIs
  <2>2. w # 0 /\ Same(u, w * x) /\ Same(v, w * y) BY <1>3 DEF Represents
  <2>3. proj_to_affine(r) = <<FMul(u, i), FMul(v, i)>> BY <2>2 DEF proj_to_affine
  <2>4. i \in Int /\ wi \in Int /\ Same(wi, one) /\ one \in Int BY <1>1, <2>2, InverseIs
  <2> HIDE DEF u, v, w, x, y, i
  <2>5. Same(i, i) BY SameSelf
  <2>6. w * x \in Int /\ w * y \in Int BY <1>1, <2>1
  <2>7. FMul(u, i) \in Field /\ Same(FMul(u, i), (w * x) * i) BY <1>1, <2>2, <2>4, <2>5, <2>6, FieldOps
  <2>8. FMul(v, i) \in Field /\ Same(FMul(v, i), (w * y) * i) BY <1>1, <2>2, <2>4, <2>5, <2>6, FieldOps
  <2>9. (w * x) * i = x * wi /\ (w * y) * i = y * wi BY <1>1, <2>1, <2>4
  <2>10. x * one = x /\ y * one = y BY <2>1
  <2> HIDE DEF wi, one
  <2>11. Same(x * wi, x * one) BY <2>1, <2>4, ProductsAlike
  <2>12. Same(y * wi, y * one) BY <2>1, <2>4, ProductsAlike
  <2>13. Same(FMul(u, i), x) BY <2>7, <2>9, <2>10, <2>11 DEF Same
  <2>14. Same(FMul(v, i), y) BY <2>8, <2>9, <2>10, <2>12 DEF Same
  <2>15. FMul(u, i) = x /\ FMul(v, i) = y BY <2>1, <2>7, <2>8, <2>13, <2>14, SameInField
  <2> QED BY <2>1, <2>3, <2>15
<1> QED BY <1>2, <1>3

(* Coming from affine form is faithful.                                    *)
LEMMA AffineRepresents ==
  ASSUME NEW pt \in AffinePoint
  PROVE  affine_to_proj(pt) \in Field \X Field \X Field /\ Represents(affine_to_proj(pt), pt)
<1>1. CASE pt = None
  <2>1. affine_to_proj(pt) = <<0, 1, 0>> BY <1>1 DEF affine_to_proj
  <2> QED BY <1>1, <2>1, ModulusIs DEF Represents
<1>2. CASE pt # None
  <2> DEFINE x == pt[1]
             y == pt[2]
  <2>1. x \in Field /\ y \in Field /\ x \in Int /\ y \in Int BY <1>2, PointIs
  <2>2. affine_to_proj(pt) = <<x, y, 1>> BY <1>2 DEF affine_to_proj
  <2> HIDE DEF x, y
  <2>3. 1 * x = x /\ 1 * y = y BY <2>1
  <2>4. Same(x, 1 * x) /\ Same(y, 1 * y) BY <2>3, SameSelf
  <2>5. <<x, y, 1>> \in Field \X Field \X Field BY <2>1, ModulusIs
  <2> QED BY <1>2, <2>2, <2>4, <2>5 DEF Represents, x, y
<1> QED BY <1>1, <1>2

(* The formulas determine the coordinates of the sum.                      *)
LEMMA SumCoordinates ==
  ASSUME NEW r, NEW s, NEW q, NEW t, IsSum(r, q, t), IsSum(s, q, t)
  PROVE  r[1] = s[1] /\ r[2] = s[2] /\ r[3] = s[3]
<1>1. r[1] \in Field /\ s[1] \in Field /\ Same(r[1], s[1]) BY DEF IsSum, Same
<1>2. r[2] \in Field /\ s[2] \in Field /\ Same(r[2], s[2]) BY DEF IsSum, Same
<1>3. r[3] \in Field /\ s[3] \in Field /\ Same(r[3], s[3]) BY DEF IsSum, Same
<1> QED BY <1>1, <1>2, <1>3, SameInField

(* The polynomials determine the coordinates.                              *)
LEMMA SumUnique ==
  ASSUME NEW r \in Field \X Field \X Field, NEW s \in Field \X Field \X Field, NEW q, NEW t,
         IsSum(r, q, t), IsSum(s, q, t)
  PROVE  r = s
BY SumCoordinates

(* What a leaf leaves of a call with an entry that is not neutral.         *)
LEMMA ResultIsSum ==
  ASSUME IInv, Finished, entry # None
  PROVE  Result \in Field \X Field \X Field /\ IsSum(Result, acc, entry)
<1>1. Result \in Field \X Field \X Field BY OutputsInField DEF IInv
<1>2. leaf \in {"base", "lookup_fed", "streamed_tail"}
  BY LeafAssumption DEF IInv, TypeOK, Finished, Idle
<1> DEFINE u == acc[1]
           v == acc[2]
           w == acc[3]
           x == entry[1]
           y == entry[2]
<1>3. u \in Field /\ v \in Field /\ w \in Field /\ acc = <<u, v, w>> BY DEF IInv, TypeOK
<1>4. x \in Field /\ y \in Field /\ entry = <<x, y>>
  <2>1. entry \in AffinePoint BY DEF IInv, TypeOK
  <2> QED BY <2>1, PointIs
<1>5. TableX = x /\ TableY = y BY DEF TableX, TableY
<1>6. CASE leaf = "streamed_tail"
  <2>1. Result = StreamedTailValue(u, v, w)
    BY <1>6 DEF IInv, Versions, StreamedTail, Finished, NetlistLength, Streamed
  <2> HIDE DEF u, v, w, x, y
  <2>2. IsSum(StreamedTailValue(u, v, w), <<u, v, w>>, <<TableX, TableY>>)
    BY <1>3, <1>4, <1>5, StreamedTailIs
  <2> QED BY <1>1, <1>3, <1>4, <1>5, <2>1, <2>2
<1>7. CASE leaf \in {"base", "lookup_fed"}
  <2>1. Result = MixedAdd(acc, entry)
    BY <1>7, LeafComputes DEF LeafComputesMixedAdd
  <2> HIDE DEF u, v, w, x, y
  <2>2. IsSum(MixedAdd(<<u, v, w>>, <<x, y>>), <<u, v, w>>, <<x, y>>)
    BY <1>3, <1>4, MixedAddIs
  <2> QED BY <1>1, <1>3, <1>4, <2>1, <2>2
<1> QED BY <1>2, <1>6, <1>7

(* For every prime, every curve, every projective accumulator that earlier *)
(* calls leave and every entry but the neutral one, each of the three      *)
(* leaves returns the coordinates of the reference formulas.               *)
THEOREM ReferenceCoordinates == Spec => []MatchesReference
<1>1. ASSUME IInv PROVE MatchesReference
  <2> SUFFICES ASSUME Finished, entry # None
               PROVE  Result = complete_projective_add_a0(acc, affine_to_proj(entry))
    BY DEF MatchesReference
  <2> DEFINE u == acc[1]
             v == acc[2]
             w == acc[3]
             x == entry[1]
             y == entry[2]
             ref == complete_projective_add_a0(<<u, v, w>>, <<x, y, 1>>)
  <2>1. u \in Field /\ v \in Field /\ w \in Field /\ acc = <<u, v, w>> BY <1>1 DEF IInv, TypeOK
  <2>2. x \in Field /\ y \in Field /\ entry = <<x, y>>
    <3>1. entry \in AffinePoint BY <1>1 DEF IInv, TypeOK
    <3> QED BY <3>1, PointIs
  <2>3. affine_to_proj(entry) = <<x, y, 1>> BY DEF affine_to_proj
  <2>4. Result \in Field \X Field \X Field /\ IsSum(Result, acc, entry) BY <1>1, ResultIsSum
  <2> HIDE DEF u, v, w, x, y
  <2>5. IsSum(ref, acc, entry) BY <2>1, <2>2, ReferenceIs
  <2>6. ref \in Field \X Field \X Field
    <3>1. ref = <<ref[1], ref[2], ref[3]>> BY DEF complete_projective_add_a0
    <3> QED BY <2>5, <3>1 DEF IsSum
  <2> HIDE DEF ref
  <2>7. Result = ref BY <2>4, <2>5, <2>6, SumUnique
  <2> QED BY <2>1, <2>3, <2>7 DEF ref
<1> QED BY <1>1, InvariantIInv, PTL

(* The accumulator always stands for a point of the curve, and at infinity *)
(* its Y is not zero: (0, 0, 0) would absorb every further addition.       *)
StandsForPoint ==
  /\ proj_to_affine(acc) \in AffinePoint
  /\ Represents(acc, proj_to_affine(acc))

GInv == IInv /\ StandsForPoint

LEMMA AddNone == \A pa, qa : qa = None => add_affine(pa, qa) = pa
<1>1. \A pa, qa : pa = None => add_affine(pa, qa) = qa BY AddToNone
<1>2. \A pa, qa : pa # None /\ qa = None => add_affine(pa, qa) = pa
  <2> TAKE pa, qa
  <2> HAVE pa # None /\ qa = None
  <2>1. qa # neg_affine(pa) BY DEF neg_affine, None
  <2> QED BY <2>1 DEF add_affine
<1> QED BY <1>1, <1>2

(* What a call hands back stands for the group sum.                        *)
LEMMA CallAdds ==
  ASSUME GInv, Finished \/ BoundaryNoop
  PROVE  LET sum == add_affine(proj_to_affine(acc), entry)
             q == IF BoundaryNoop THEN acc ELSE Result
         IN  /\ q \in Field \X Field \X Field /\ sum \in AffinePoint
             /\ Represents(q, sum) /\ proj_to_affine(q) = sum
<1> DEFINE pa == proj_to_affine(acc)
           sum == add_affine(pa, entry)
           q == IF BoundaryNoop THEN acc ELSE Result
<1>1. acc \in Field \X Field \X Field /\ entry \in AffinePoint /\ pa \in AffinePoint
      /\ Represents(acc, pa)
  BY DEF GInv, IInv, TypeOK, StandsForPoint
<1>2. q \in Field \X Field \X Field /\ sum \in AffinePoint /\ Represents(q, sum)
  <2>1. CASE entry = None
    <3>1. q = acc
      <4>1. leaf \in {"base", "lookup_fed", "streamed_tail"}
        BY LeafAssumption DEF GInv, IInv, TypeOK, Finished, BoundaryNoop, Idle
      <4>2. CASE BoundaryNoop BY <4>2
      <4>3. CASE ~BoundaryNoop
        <5>1. leaf \in {"base", "lookup_fed"} BY <2>1, <4>1, <4>3 DEF BoundaryNoop
        <5>2. Result = acc BY <2>1, <4>3, <5>1, LeafComputes DEF GInv, LeafComputesMixedAdd
        <5> QED BY <4>3, <5>2
      <4> QED BY <4>2, <4>3
    <3>2. sum = pa BY <2>1, AddNone
    <3> QED BY <1>1, <3>1, <3>2
  <2>2. CASE entry # None
    <3>1. Finished /\ q = Result BY <2>2 DEF BoundaryNoop
    <3>2. Result \in Field \X Field \X Field /\ IsSum(Result, acc, entry)
      BY <2>2, <3>1, ResultIsSum DEF GInv
    <3> HIDE DEF pa
    <3>3. sum \in AffinePoint /\ Represents(Result, sum) BY <1>1, <2>2, <3>2, SumInGroup
    <3> QED BY <3>1, <3>2, <3>3
  <2> QED BY <2>1, <2>2
<1> HIDE DEF q, sum
<1>3. proj_to_affine(q) = sum BY <1>2, RepresentsIs
<1> QED BY <1>2, <1>3 DEF q, sum

(* Whether or not the caller renormalises, the point stays the same.       *)
LEMMA HandedBack ==
  ASSUME NEW q \in Field \X Field \X Field, NEW pt \in AffinePoint, Represents(q, pt),
         HandBack(q)
  PROVE  /\ proj_to_affine(acc') = pt /\ Represents(acc', pt) /\ leaf' = "none"
<1>1. proj_to_affine(q) = pt BY RepresentsIs
<1>2. /\ affine_to_proj(pt) \in Field \X Field \X Field
      /\ Represents(affine_to_proj(pt), pt)
  BY AffineRepresents
<1>3. proj_to_affine(affine_to_proj(pt)) = pt BY <1>2, RepresentsIs
<1>4. acc' = q \/ acc' = affine_to_proj(pt) BY <1>1 DEF HandBack
<1> QED BY <1>1, <1>2, <1>3, <1>4 DEF HandBack

(* A return adds the entry and leaves a point of the curve.                *)
LEMMA ReturnAdds ==
  ASSUME GInv, Return \/ ReturnAtBoundary
  PROVE  /\ ~Idle /\ leaf' = "none"
         /\ proj_to_affine(acc') = add_affine(proj_to_affine(acc), entry)
         /\ StandsForPoint'
<1> DEFINE sum == add_affine(proj_to_affine(acc), entry)
           q == IF BoundaryNoop THEN acc ELSE Result
<1>1. (Finished \/ BoundaryNoop) /\ HandBack(q) /\ ~Idle
  BY DEF Return, ReturnAtBoundary, Finished, Result, BoundaryNoop, Idle
<1>2. q \in Field \X Field \X Field /\ sum \in AffinePoint /\ Represents(q, sum)
  BY <1>1, CallAdds
<1> HIDE DEF q, sum
<1>3. proj_to_affine(acc') = sum /\ Represents(acc', sum) /\ leaf' = "none"
  BY <1>1, <1>2, HandedBack
<1>4. StandsForPoint' BY <1>2, <1>3 DEF StandsForPoint
<1> QED BY <1>1, <1>3, <1>4 DEF sum

LEMMA InitGInv == ASSUME Init PROVE GInv
<1>1. PICK seed \in AffinePoint : acc = affine_to_proj(seed) BY DEF Init
<1>2. acc \in Field \X Field \X Field /\ Represents(acc, seed) BY <1>1, AffineRepresents
<1>3. proj_to_affine(acc) = seed BY <1>2, RepresentsIs
<1>4. StandsForPoint BY <1>2, <1>3 DEF StandsForPoint
<1> QED BY <1>4, InitIInv DEF GInv

LEMMA NextGInv == ASSUME GInv, [Next]_vars PROVE GInv'
<1>1. IInv' BY NextIInv DEF GInv
<1>2. CASE Return \/ ReturnAtBoundary BY <1>1, <1>2, ReturnAdds DEF GInv
<1>3. CASE UNCHANGED acc BY <1>1, <1>3 DEF GInv, StandsForPoint
<1>4. ASSUME NEW l \in Leaves, NEW t \in AffinePoint, CallLeaf(l, t) PROVE UNCHANGED acc
  BY <1>4 DEF CallLeaf
<1>5. ASSUME Step PROVE UNCHANGED acc BY <1>5, StepWrites
<1> QED BY <1>2, <1>3, <1>4, <1>5 DEF Next, vars

(* The accumulator stands for a point in every reachable state.            *)
LEMMA InvariantGInv == Spec => []GInv
BY InitGInv, NextGInv, PTL DEF Spec
-----------------------------------------------------------------------------
(* The operators of the abstract specification are those of the leaf's.    *)
LEMMA SameGroup ==
  /\ Accumulator!AffinePoint = AffinePoint
  /\ \A pa, qa : Accumulator!add_affine(pa, qa) = add_affine(pa, qa)
<1>1. Accumulator!AffinePoint = AffinePoint
  BY DEF Accumulator!AffinePoint, AffinePoint, Accumulator!Field, Field, Accumulator!OnCurve, OnCurve,
     Accumulator!None, None
<1>2. ASSUME NEW pa, NEW qa PROVE Accumulator!add_affine(pa, qa) = add_affine(pa, qa)
  BY DEF Accumulator!add_affine, add_affine, Accumulator!FMul, FMul, Accumulator!FInv, FInv,
     Accumulator!FSub, FSub, Accumulator!neg_affine, neg_affine, Accumulator!None, None,
     Accumulator!Field, Field
<1> QED BY <1>1, <1>2

LEMMA InitRefines == ASSUME Init PROVE Accumulator!Init
<1>1. proj_to_affine(acc) \in AffinePoint BY InitGInv DEF GInv, StandsForPoint
<1>2. Idle BY DEF Init, Idle
<1> QED BY <1>1, <1>2, SameGroup DEF Accumulator!Init

(* A call is a request, its return the answer, and the instructions in     *)
(* between change nothing the caller sees.                                 *)
LEMMA NextRefines ==
  ASSUME GInv, [Next]_vars
  PROVE  \/ Accumulator!Next
         \/ UNCHANGED <<proj_to_affine(acc), IF Idle THEN NoRequest ELSE entry>>
<1>1. ASSUME NEW l \in Leaves, NEW t \in AffinePoint, CallLeaf(l, t)
      PROVE  Accumulator!Next
  <2>1. Idle /\ leaf' # "none" /\ entry' = t /\ acc' = acc
    BY <1>1, LeafAssumption DEF CallLeaf
  <2>2. proj_to_affine(acc)' = proj_to_affine(acc) BY <2>1
  <2>3. (IF Idle THEN NoRequest ELSE entry) = NoRequest BY <2>1
  <2>4. (IF Idle THEN NoRequest ELSE entry)' = t BY <2>1 DEF Idle
  <2>5. Accumulator!Request(t) BY <2>2, <2>3, <2>4 DEF Accumulator!Request
  <2> QED BY <2>5, SameGroup DEF Accumulator!Next
<1>2. CASE Return \/ ReturnAtBoundary
  <2>1. /\ ~Idle /\ leaf' = "none"
        /\ proj_to_affine(acc') = add_affine(proj_to_affine(acc), entry)
    BY <1>2, ReturnAdds
  <2>2. entry # NoRequest BY RequestAssumption DEF GInv, IInv, TypeOK
  <2>3. (IF Idle THEN NoRequest ELSE entry) = entry BY <2>1
  <2>4. (IF Idle THEN NoRequest ELSE entry)' = NoRequest BY <2>1 DEF Idle
  <2>5. proj_to_affine(acc)' = Accumulator!add_affine(proj_to_affine(acc), entry)
    BY <2>1, SameGroup
  <2>6. Accumulator!Complete BY <2>2, <2>3, <2>4, <2>5 DEF Accumulator!Complete
  <2> QED BY <2>6 DEF Accumulator!Next
<1>3. CASE Step
  <2>1. UNCHANGED <<acc, leaf, entry>> BY <1>3, StepWrites
  <2> QED BY <2>1 DEF Idle
<1>4. CASE UNCHANGED vars
  <2>1. UNCHANGED <<acc, leaf, entry>> BY <1>4 DEF vars
  <2> QED BY <2>1 DEF Idle
<1> QED BY <1>1, <1>2, <1>3, <1>4 DEF Next

(* For every prime, every curve without a point of order two, every leaf   *)
(* and either caller, the calls of the leaf add in the curve group: the    *)
(* accumulator is never off the curve and doubling, inverses and infinity  *)
(* need no case of their own.                                              *)
THEOREM GroupLaw == Spec => AddsInGroup
<1>1. Init => Accumulator!Init BY InitRefines
<1>2. GInv /\ [Next]_vars =>
        \/ Accumulator!Next
        \/ UNCHANGED <<proj_to_affine(acc), IF Idle THEN NoRequest ELSE entry>>
  BY NextRefines
<1> QED BY <1>1, <1>2, InvariantGInv, PTL DEF Spec, AddsInGroup, Accumulator!Spec
-----------------------------------------------------------------------------
(***************************************************************************)
(* The guest's group law and its comparison.                               *)
(***************************************************************************)
(* A comparison passes for the point the coordinates stand for, and for it *)
(* only.                                                                   *)
LEMMA MatchesIs ==
  ASSUME NEW r \in Field \X Field \X Field, NEW pt \in AffinePoint, Represents(r, pt),
         NEW expected \in (Field \X Field) \cup {None}
  PROVE  projective_matches_affine(r, expected) <=> expected = pt
<1> DEFINE u == r[1]
           v == r[2]
           w == r[3]
<1>1. u \in Field /\ v \in Field /\ w \in Field /\ u \in Int /\ v \in Int /\ w \in Int
  BY ModulusIs
<1>2. CASE pt = None
  <2>1. w = 0 BY <1>2 DEF Represents
  <2> QED BY <1>2, <2>1 DEF projective_matches_affine
<1>3. CASE pt # None
  <2> DEFINE x == pt[1]
             y == pt[2]
             wx == w * x
             wy == w * y
  <2>1. x \in Field /\ y \in Field /\ pt = <<x, y>> /\ x \in Int /\ y \in Int BY <1>3, PointIs
  <2>2. w # 0 /\ Same(u, wx) /\ Same(v, wy) BY <1>3 DEF Represents
  <2>3. CASE expected = None BY <1>3, <2>2, <2>3 DEF projective_matches_affine
  <2>4. CASE expected # None
    <3> DEFINE ex == expected[1]
               ey == expected[2]
    <3>1. expected \in Field \X Field BY <2>4
    <3>2. ex \in Field /\ ey \in Field /\ expected = <<ex, ey>> BY <3>1
    <3>3. ex \in Int /\ ey \in Int BY <3>2, ModulusIs
    <3>4. projective_matches_affine(r, expected) <=> u = FMul(ex, w) /\ v = FMul(ey, w)
      BY <2>2, <2>4 DEF projective_matches_affine
    <3> HIDE DEF u, v, w, x, y, ex, ey
    <3>5. ~Same(w, 0) BY <1>1, <2>2, NotSameIs
    <3>6. ASSUME NEW e \in Field, NEW z \in Field, NEW c \in Field, Same(c, w * z)
          PROVE  c = FMul(e, w) <=> e = z
      <4> DEFINE ew == e * w
                 zw == z * w
      <4>1. e \in Int /\ z \in Int /\ c \in Int BY ModulusIs
      <4>2. Same(e, e) /\ Same(w, w) BY SameSelf
      <4>3. FMul(e, w) \in Field /\ Same(FMul(e, w), ew) BY <1>1, <4>1, <4>2, FieldOps
      <4>4. zw = w * z /\ ew \in Int /\ zw \in Int BY <1>1, <4>1
      <4>5. Same(c, zw) BY <3>6, <4>4
      <4>6. ASSUME c = FMul(e, w) PROVE e = z
        <5>1. Same(ew, zw) BY <4>3, <4>5, <4>6 DEF Same
        <5>2. Same(e, z) BY <1>1, <3>5, <4>1, <5>1, Cancelled
        <5> QED BY <5>2, SameInField
      <4>7. ASSUME e = z PROVE c = FMul(e, w)
        <5>1. ew = zw BY <4>7
        <5>2. Same(c, FMul(e, w)) BY <4>3, <4>5, <5>1 DEF Same
        <5> QED BY <4>3, <5>2, SameInField
      <4> QED BY <4>6, <4>7
    <3>7. u = FMul(ex, w) <=> ex = x BY <1>1, <2>1, <2>2, <3>2, <3>6
    <3>8. v = FMul(ey, w) <=> ey = y BY <1>1, <2>1, <2>2, <3>2, <3>6
    <3>9. expected = pt <=> ex = x /\ ey = y BY <2>1, <3>2
    <3> QED BY <3>4, <3>7, <3>8, <3>9
  <2> QED BY <2>3, <2>4
<1> QED BY <1>2, <1>3

(* Keeping the denominator in Z.                                           *)
LEMMA OverDenominatorIs ==
  ASSUME NEW pa, NEW qa, pa[1] \in Field, pa[2] \in Field, NEW x \in Int,
         NEW num \in Field, NEW den \in Field, den # 0, NEW sum \in Field, Same(sum, pa[1] + x),
         NEW m \in Int, Same(m * den, num),
         NEW s \in Field, NEW t \in Field, OnIt(s, t),
         Same(s, m * m - pa[1] - x), Same(t, m * (pa[1] - s) - pa[2])
  PROVE  LET r == OverDenominator(pa, qa, num, den, sum)
         IN  r \in Field \X Field \X Field /\ Represents(r, <<s, t>>)
<1> DEFINE a == pa[1]
           c == pa[2]
           d2 == FMul(den, den)
           d3 == FMul(d2, den)
           nn == FMul(num, num)
           ds == FMul(d2, sum)
           x3 == mod_sub(nn, ds)
           ad == FMul(a, d2)
           av == mod_sub(ad, x3)
           nv == FMul(num, av)
           cd == FMul(c, d3)
           y3 == mod_sub(nv, cd)
           xx == FMul(den, x3)
           r == OverDenominator(pa, qa, num, den, sum)
<1>1. r = <<xx, y3, d3>> BY DEF OverDenominator
<1>2. /\ a \in Field /\ c \in Field /\ a \in Int /\ c \in Int /\ num \in Int /\ den \in Int
      /\ sum \in Int /\ s \in Int /\ t \in Int /\ m \in Int /\ x \in Int
  BY ModulusIs
<1> HIDE DEF a, c
<1> DEFINE p2 == den * den
           p3 == p2 * den
           md == m * den
           n2 == num * num
           sm == a + x
<1>3. /\ p2 \in Int /\ p3 \in Int /\ md \in Int /\ n2 \in Int /\ sm \in Int
  BY <1>2
<1>4. /\ Same(den, den) /\ Same(num, num) /\ Same(a, a) /\ Same(c, c) /\ Same(num, md)
      /\ Same(sum, sm)
  BY SameSelf DEF Same, a
<1>5. d2 \in Field /\ d2 \in Int /\ Same(d2, p2) BY <1>2, <1>4, FieldOps
<1>6. nn \in Field /\ nn \in Int /\ Same(nn, md * md) BY <1>2, <1>3, <1>4, FieldOps
<1> HIDE DEF d2, nn, p2, sm, md
<1>7. d3 \in Field /\ d3 \in Int /\ Same(d3, p3) BY <1>2, <1>3, <1>4, <1>5, FieldOps
<1>8. ds \in Field /\ ds \in Int /\ Same(ds, p2 * sm) BY <1>2, <1>3, <1>4, <1>5, FieldOps
<1>9. ad \in Field /\ ad \in Int /\ Same(ad, a * p2) BY <1>2, <1>3, <1>4, <1>5, FieldOps
<1> HIDE DEF d3, ds, ad, p3
<1>10. md * md \in Int /\ p2 * sm \in Int /\ a * p2 \in Int /\ p2 * s \in Int /\ md * (p2 * (a - s)) \in Int
  BY <1>2, <1>3
<1>11. x3 \in Field /\ x3 \in Int /\ Same(x3, md * md - p2 * sm)
  <2>1. x3 = FSub(nn, ds) BY <1>6, <1>8, ModSubIs
  <2> QED BY <1>6, <1>8, <1>10, <2>1, FieldOps
<1>12. Same(x3, p2 * s)
  <2> DEFINE q == m * m - a - x
  <2>1. q \in Int /\ Same(s, q) BY <1>2 DEF a
  <2>2. md * md - p2 * sm = p2 * q BY <1>2 DEF md, p2, sm
  <2> HIDE DEF q
  <2>3. Same(p2 * s, p2 * q) BY <1>2, <1>3, <2>1, ProductsAlike
  <2> QED BY <1>11, <2>2, <2>3 DEF Same
<1> HIDE DEF x3
<1>13. av \in Field /\ av \in Int /\ Same(av, a * p2 - p2 * s)
  <2>1. av = FSub(ad, x3) BY <1>9, <1>11, ModSubIs
  <2> QED BY <1>9, <1>10, <1>11, <1>12, <2>1, FieldOps
<1>14. a * p2 - p2 * s = p2 * (a - s) /\ p2 * (a - s) \in Int BY <1>2, <1>3
<1> HIDE DEF av
<1>15. nv \in Field /\ nv \in Int /\ Same(nv, md * (p2 * (a - s)))
  BY <1>2, <1>3, <1>4, <1>13, <1>14, FieldOps
<1>16. cd \in Field /\ cd \in Int /\ Same(cd, c * p3) /\ c * p3 \in Int
  BY <1>2, <1>3, <1>4, <1>7, FieldOps
<1> HIDE DEF nv, cd
<1>17. y3 \in Field /\ Same(y3, md * (p2 * (a - s)) - c * p3)
  <2>1. y3 = FSub(nv, cd) BY <1>15, <1>16, ModSubIs
  <2> QED BY <1>10, <1>15, <1>16, <2>1, FieldOps
<1>18. Same(y3, p3 * t)
  <2> DEFINE q == m * (a - s) - c
  <2>1. q \in Int /\ Same(t, q) BY <1>2 DEF a, c
  <2>2. md * (p2 * (a - s)) - c * p3 = p3 * q BY <1>2 DEF md, p2, p3
  <2> HIDE DEF q
  <2>3. Same(p3 * t, p3 * q) BY <1>2, <1>3, <2>1, ProductsAlike
  <2> QED BY <1>17, <2>2, <2>3 DEF Same
<1>19. xx \in Field /\ Same(xx, den * (p2 * s)) BY <1>2, <1>4, <1>10, <1>11, <1>12, FieldOps
<1>20. den * (p2 * s) = p3 * s BY <1>2 DEF p2, p3
<1>21. Same(p3 * s, d3 * s) /\ Same(p3 * t, d3 * t)
  <2>1. Same(p3, d3) BY <1>7 DEF Same
  <2> QED BY <1>2, <1>3, <1>7, <2>1, ProductsAlike
<1>22. Same(xx, d3 * s) /\ Same(y3, d3 * t) BY <1>18, <1>19, <1>20, <1>21 DEF Same
<1>23. d3 # 0
  <2>1. ~Same(den, 0) BY NotSameIs
  <2>2. ~Same(p2, 0) BY <1>2, <2>1, NonZeroProduct DEF p2
  <2>3. ~Same(p3, 0) BY <1>2, <1>3, <2>1, <2>2, NonZeroProduct DEF p3
  <2> QED BY <1>7, <2>3 DEF Same
<1> HIDE DEF xx, y3, r
<1>24. <<s, t>> # None BY DEF None
<1>25. r \in Field \X Field \X Field BY <1>1, <1>7, <1>17, <1>19
<1>26. Represents(r, <<s, t>>) BY <1>1, <1>22, <1>23, <1>24 DEF Represents
<1> QED BY <1>25, <1>26 DEF r

(* Which arm of the guest's group law is taken.                            *)
LEMMA GuestArms ==
  ASSUME NEW pa, NEW qa, pa # None, qa # None
  PROVE  /\ pa[1] # qa[1] =>
              add_affine_projective(pa, qa)
              = OverDenominator(pa, qa, mod_sub(qa[2], pa[2]), mod_sub(qa[1], pa[1]), FAdd(pa[1], qa[1]))
         /\ pa[1] = qa[1] /\ (FAdd(pa[2], qa[2]) = 0 \/ FMul(2, pa[2]) = 0) =>
              add_affine_projective(pa, qa) = affine_to_proj(None)
         /\ pa[1] = qa[1] /\ FAdd(pa[2], qa[2]) # 0 /\ FMul(2, pa[2]) # 0 =>
              add_affine_projective(pa, qa)
              = OverDenominator(pa, qa, FMul(3 * pa[1], pa[1]), FMul(2, pa[2]), FMul(2, pa[1]))
BY DEF add_affine_projective

LEMMA GuestNoneArms ==
  \A pa, qa : /\ pa = None => add_affine_projective(pa, qa) = affine_to_proj(qa)
              /\ pa # None /\ qa = None => add_affine_projective(pa, qa) = affine_to_proj(pa)
BY DEF add_affine_projective

(* The guest's three non-neutral arms give coordinates of the affine sum.  *)
LEMMA GuestChord ==
  ASSUME NEW pa \in AffinePoint, NEW qa \in AffinePoint, pa # None, qa # None, pa[1] # qa[1]
  PROVE  LET r == add_affine_projective(pa, qa)
         IN  r \in Field \X Field \X Field /\ Represents(r, add_affine(pa, qa))
<1> DEFINE a == pa[1]
           c == pa[2]
           x == qa[1]
           y == qa[2]
           d == FSub(x, a)
           num == FSub(y, c)
           sum == FAdd(a, x)
<1>1. a \in Field /\ c \in Field /\ pa = <<a, c>> /\ OnIt(a, c) /\ a \in Int /\ c \in Int
  BY PointIs
<1>2. x \in Field /\ y \in Field /\ qa = <<x, y>> /\ OnIt(x, y) /\ x \in Int /\ y \in Int
  BY PointIs
<1>3. add_affine_projective(pa, qa) = OverDenominator(pa, qa, num, d, sum)
  <2>1. mod_sub(y, c) = num /\ mod_sub(x, a) = d BY <1>1, <1>2, ModSubIs
  <2> QED BY <2>1, GuestArms
<1>4. Same(a, a) /\ Same(x, x) /\ Same(c, c) /\ Same(y, y) BY SameSelf
<1>5. num \in Field /\ Same(num, y - c) BY <1>1, <1>2, <1>4, FieldOps
<1>6. sum \in Field /\ Same(sum, a + x) BY <1>1, <1>2, <1>4, FieldOps
<1> HIDE DEF a, c, x, y
<1>7. /\ d \in Field /\ d # 0
      /\ \E m \in Int, s \in Field, t \in Field :
           /\ add_affine(<<a, c>>, <<x, y>>) = <<s, t>> /\ OnIt(s, t) /\ Same(m * d, y - c)
           /\ Same(s, m * m - a - x) /\ Same(t, m * (a - s) - c)
  BY <1>1, <1>2, ChordPoint DEF a, x
<1>8. PICK m \in Int, s \in Field, t \in Field :
        /\ add_affine(<<a, c>>, <<x, y>>) = <<s, t>> /\ OnIt(s, t) /\ Same(m * d, y - c)
        /\ Same(s, m * m - a - x) /\ Same(t, m * (a - s) - c)
  BY <1>7
<1> HIDE DEF num, sum, d
<1>9. Same(m * d, num) BY <1>5, <1>8 DEF Same
<1>10. pa[1] \in Field /\ pa[2] \in Field /\ Same(sum, pa[1] + x)
       /\ Same(s, m * m - pa[1] - x) /\ Same(t, m * (pa[1] - s) - pa[2])
  BY <1>1, <1>6, <1>8 DEF a, c
<1>11. LET r == OverDenominator(pa, qa, num, d, sum)
       IN  r \in Field \X Field \X Field /\ Represents(r, <<s, t>>)
  BY <1>2, <1>5, <1>6, <1>7, <1>8, <1>9, <1>10, OverDenominatorIs
<1> QED BY <1>1, <1>2, <1>3, <1>8, <1>11

(* The same abscissa twice: doubling, or the inverse.                      *)
LEMMA GuestTangent ==
  ASSUME NEW pa \in AffinePoint, NEW qa \in AffinePoint, pa # None, qa # None, pa[1] = qa[1]
  PROVE  LET r == add_affine_projective(pa, qa)
         IN  r \in Field \X Field \X Field /\ Represents(r, add_affine(pa, qa))
<1> DEFINE a == pa[1]
           c == pa[2]
           y == qa[2]
           d == FMul(2, c)
           num == FMul(3 * a, a)
           sum == FMul(2, a)
           csum == FAdd(c, y)
<1>1. a \in Field /\ c \in Field /\ pa = <<a, c>> /\ OnIt(a, c) /\ a \in Int /\ c \in Int
  BY PointIs
<1>2. y \in Field /\ qa = <<a, y>> /\ OnIt(a, y) /\ y \in Int BY PointIs
<1>3. Same(a, a) /\ Same(c, c) /\ Same(y, y) /\ Same(3 * a, 3 * a) /\ 3 * a \in Int
  BY <1>1, SameSelf
<1>4. d \in Field /\ Same(d, 2 * c) /\ sum \in Field /\ Same(sum, 2 * a)
  <2> DEFINE two == 2
  <2>1. two \in Int /\ Same(two, two) BY SameSelf
  <2> HIDE DEF two
  <2>2. FMul(two, c) \in Field /\ Same(FMul(two, c), two * c) BY <1>1, <1>3, <2>1, FieldOps
  <2>3. FMul(two, a) \in Field /\ Same(FMul(two, a), two * a) BY <1>1, <1>3, <2>1, FieldOps
  <2> QED BY <2>2, <2>3 DEF two
<1>5. num \in Field /\ Same(num, 3 * a * a) BY <1>1, <1>3, FieldOps
<1>7. csum \in Field /\ csum \in Int /\ Same(csum, c + y) BY <1>1, <1>2, <1>3, FieldOps
<1>8. /\ csum = 0 \/ d = 0 => add_affine_projective(pa, qa) = affine_to_proj(None)
      /\ csum # 0 /\ d # 0 => add_affine_projective(pa, qa) = OverDenominator(pa, qa, num, d, sum)
  BY GuestArms
<1> HIDE DEF a, c, y
<1>9. d # 0
  <2>1. ~Same(2 * c, 0) BY <1>1, TwiceNotZero
  <2>2. ~Same(d, 0) BY <1>4, <2>1 DEF Same
  <2> QED BY <1>4, <2>2, NotSameIs
<1> HIDE DEF d, num, sum, csum
<1>10. csum = 0 <=> <<a, y>> = neg_affine(<<a, c>>)
  <2>1. (-c) % P \in Field /\ Same((-c) % P, -c) BY <1>1, SameReduced
  <2>2. <<a, y>> = neg_affine(<<a, c>>) <=> y = (-c) % P BY DEF neg_affine, None
  <2>3. csum = 0 <=> Same(csum, 0) BY <1>7, NotSameIs
  <2>4. csum = 0 <=> Same(c + y, 0) BY <1>7, <2>3 DEF Same
  <2>5. -c \in Int /\ y - (-c) = c + y BY <1>1, <1>2
  <2>6. Same(y, -c) <=> Same(c + y, 0) BY <1>2, <2>5, ZeroSum
  <2>7. Same(y, -c) <=> y = (-c) % P
    <3>1. ASSUME Same(y, -c) PROVE y = (-c) % P
      <4>1. Same(y, (-c) % P) BY <2>1, <3>1 DEF Same
      <4> QED BY <1>2, <2>1, <4>1, SameInField
    <3>2. ASSUME y = (-c) % P PROVE Same(y, -c) BY <2>1, <3>2
    <3> QED BY <3>1, <3>2
  <2> QED BY <2>2, <2>4, <2>6, <2>7
<1>11. CASE csum = 0
  <2>1. <<a, y>> = neg_affine(<<a, c>>) BY <1>10, <1>11
  <2>2. <<a, c>> # None /\ <<a, y>> # None BY DEF None
  <2>3. add_affine(<<a, c>>, <<a, y>>) = None BY <2>1, <2>2, AddArms
  <2>4. None \in AffinePoint BY DEF AffinePoint
  <2>5. affine_to_proj(None) \in Field \X Field \X Field /\ Represents(affine_to_proj(None), None)
    BY <2>4, AffineRepresents
  <2> QED BY <1>1, <1>2, <1>8, <1>11, <2>3, <2>5
<1>12. CASE csum # 0
  <2>1. <<a, y>> # neg_affine(<<a, c>>) BY <1>10, <1>12
  <2>2. y = c BY <1>1, <1>2, <2>1, OneAbscissa
  <2>3. PICK m \in Int, s \in Field, t \in Field :
          /\ add_affine(<<a, c>>, <<a, c>>) = <<s, t>> /\ OnIt(s, t) /\ Same(m * (2 * c), 3 * a * a)
          /\ Same(s, m * m - a - a) /\ Same(t, m * (a - s) - c)
    BY <1>1, <2>1, <2>2, TangentPoint
  <2>4. Same(m * d, num)
    <3>1. 2 * c \in Int /\ d \in Int BY <1>1, <1>4, ModulusIs
    <3>2. Same(m * d, m * (2 * c)) BY <1>4, <3>1, ProductsAlike
    <3> QED BY <1>5, <2>3, <3>2 DEF Same
  <2>5. 2 * a = a + a BY <1>1
  <2>6. /\ pa[1] \in Field /\ pa[2] \in Field /\ Same(sum, pa[1] + a)
        /\ Same(s, m * m - pa[1] - a) /\ Same(t, m * (pa[1] - s) - pa[2])
    BY <1>1, <1>4, <2>3, <2>5 DEF a, c
  <2>7. LET r == OverDenominator(pa, qa, num, d, sum)
        IN  r \in Field \X Field \X Field /\ Represents(r, <<s, t>>)
    BY <1>1, <1>4, <1>5, <1>9, <2>3, <2>4, <2>6, OverDenominatorIs
  <2> QED BY <1>1, <1>2, <1>8, <1>9, <1>12, <2>2, <2>3, <2>7
<1> QED BY <1>11, <1>12

(* The guest's group law and the Python one agree on every two points of   *)
(* the curve.                                                              *)
LEMMA GuestAdds ==
  ASSUME NEW pa \in AffinePoint, NEW qa \in AffinePoint
  PROVE  LET r == add_affine_projective(pa, qa)
         IN  r \in Field \X Field \X Field /\ Represents(r, add_affine(pa, qa))
<1>1. CASE pa = None
  <2>1. add_affine(pa, qa) = qa BY <1>1, AddToNone
  <2>2. add_affine_projective(pa, qa) = affine_to_proj(qa) BY <1>1, GuestNoneArms
  <2> QED BY <2>1, <2>2, AffineRepresents
<1>2. CASE pa # None /\ qa = None
  <2>1. add_affine(pa, qa) = pa BY <1>2, AddNone
  <2>2. add_affine_projective(pa, qa) = affine_to_proj(pa) BY <1>2, GuestNoneArms
  <2> QED BY <2>1, <2>2, AffineRepresents
<1>3. CASE pa # None /\ qa # None
  BY <1>3, GuestChord, GuestTangent
<1> QED BY <1>1, <1>2, <1>3
-----------------------------------------------------------------------------
(***************************************************************************)
(* The guest's interpreter in step with the Python one.                    *)
(***************************************************************************)
IsFile(f, l, a, t) ==
  f = [n \in 0 .. NetlistLength(l) |->
         IF n = 0 THEN Registers(a, t) ELSE Executed(f[n - 1], Code(l)[n], t)]

(* The guest's register files, one per instruction, exist.                 *)
LEMMA FileExists ==
  ASSUME NEW l, NEW a, NEW t, NetlistLength(l) \in Nat
  PROVE  \E f : IsFile(f, l, a, t)
<1> DEFINE first == Registers(a, t)
           next(n, regs) == Executed(regs, Code(l)[n], t)
           Upto(f, k) == f = [n \in 0 .. k |-> IF n = 0 THEN first ELSE next(n, f[n - 1])]
           Lengths == {k \in Nat : \E f : Upto(f, k)}
<1> HIDE DEF first, next
<1>1. 0 \in Lengths
  <2>1. Upto([n \in 0 .. 0 |-> first], 0) OBVIOUS
  <2> QED BY <2>1
<1>2. ASSUME NEW k \in Nat, k \in Lengths PROVE k + 1 \in Lengths
  <2>1. PICK f : Upto(f, k) BY <1>2
  <2> DEFINE g == [n \in 0 .. k + 1 |-> IF n = k + 1 THEN next(n, f[k]) ELSE f[n]]
  <2>2. \A n \in 0 .. k : g[n] = f[n] OBVIOUS
  <2>3. ASSUME NEW n \in 0 .. k + 1 PROVE g[n] = IF n = 0 THEN first ELSE next(n, g[n - 1])
    <3>1. CASE n = 0 BY <2>1, <2>2, <3>1
    <3>2. CASE n = k + 1 BY <2>2, <3>2
    <3>3. CASE n \in 1 .. k
      <4>1. f[n] = next(n, f[n - 1]) BY <2>1, <3>3
      <4>2. g[n] = f[n] /\ g[n - 1] = f[n - 1] BY <2>2, <3>3
      <4> QED BY <3>3, <4>1, <4>2
    <3> QED BY <3>1, <3>2, <3>3
  <2>4. g = [n \in 0 .. k + 1 |-> g[n]] OBVIOUS
  <2> HIDE DEF g
  <2>5. Upto(g, k + 1) BY <2>3, <2>4
  <2> QED BY <2>5
<1>3. NetlistLength(l) \in Lengths
  <2> HIDE DEF Lengths
  <2> QED BY <1>1, <1>2, SetInduction
<1>4. PICK f : Upto(f, NetlistLength(l)) BY <1>3
<1> QED BY <1>4 DEF IsFile, first, next

(* execute_leaf reads the outputs off the last of them.                    *)
LEMMA ExecutionIs ==
  ASSUME NEW l, NEW a, NEW t, NetlistLength(l) \in Nat
  PROVE  \E f : /\ IsFile(f, l, a, t)
                /\ execute_leaf(l, a, t) =
                     IF skip_on_lookup_infinity(l) /\ t = None THEN affine_to_proj(a)
                     ELSE LET last == f[NetlistLength(l)]
                          IN  <<last["qx"], last["qy"], last["qz"]>>
<1> DEFINE f == CHOOSE f : IsFile(f, l, a, t)
<1>1. IsFile(f, l, a, t) BY FileExists
<1>2. execute_leaf(l, a, t) =
        IF skip_on_lookup_infinity(l) /\ t = None THEN affine_to_proj(a)
        ELSE LET last == f[NetlistLength(l)]
             IN  <<last["qx"], last["qy"], last["qz"]>>
  BY DEF execute_leaf, IsFile
<1> QED BY <1>1, <1>2

(* The guest's registers hold the entry, and whatever the Python register  *)
(* file holds.                                                             *)
Agrees(regs) ==
  /\ DOMAIN regs = Reg \cup {"k"}
  /\ regs["lookup_x"] = TableX /\ regs["lookup_y"] = TableY /\ regs["lookup_meta"] = TableMeta
  /\ \A r \in Reg : env[r] # Undef => regs[r] = env[r]

Mirrored ==
  leaf \in Attested /\ ~BoundaryNoop /\ acc = affine_to_proj(proj_to_affine(acc)) =>
    \A f : IsFile(f, leaf, proj_to_affine(acc), entry) => Agrees(f[pc])

(* The register file a call starts with.                                   *)
LEMMA CallAgrees ==
  ASSUME NEW l, NEW t \in AffinePoint, CallLeaf(l, t), acc = affine_to_proj(proj_to_affine(acc))
  PROVE  Agrees(Registers(proj_to_affine(acc), t))'
<1> DEFINE regs == Registers(proj_to_affine(acc), t)
<1>1. acc' = acc /\ entry' = t BY DEF CallLeaf
<1>2. regs' = regs BY <1>1
<1>3. DOMAIN regs = Reg \cup {"k"} BY DEF Registers
<1>4. regs["Q.X"] = acc[1] /\ regs["Q.Y"] = acc[2] /\ regs["Q.Z"] = acc[3]
  BY DEF Registers, Reg
<1>5. /\ regs["lookup_x"] = IF t = None THEN 0 ELSE t[1]
      /\ regs["lookup_y"] = IF t = None THEN 0 ELSE t[2]
      /\ regs["lookup_meta"] = IF t = None THEN 1 ELSE 0
  BY DEF Registers, Reg
<1> HIDE DEF regs
<1>6. \A r \in Reg : env'[r] # Undef => regs[r] = env'[r]
  BY <1>4 DEF CallLeaf, EmptyRegisters
<1>7. TableX' = regs["lookup_x"] /\ TableY' = regs["lookup_y"] /\ TableMeta' = regs["lookup_meta"]
  BY <1>1, <1>5 DEF TableX, TableY, TableMeta
<1> QED BY <1>2, <1>3, <1>6, <1>7 DEF Agrees, regs

(* Both interpreters write the same value to the same register.            *)
LEMMA GuestWrites ==
  ASSUME TypeOK, NEW regs, Agrees(regs), WellFormed(Fetched), NEW v, Writes(v), v # Undef,
         Fetched.dst = "lookup_x" => v = TableX,
         Fetched.dst = "lookup_y" => v = TableY,
         Fetched.dst = "lookup_meta" => v = TableMeta,
         NEW next, next = [regs EXCEPT ![Fetched.dst] = v]
  PROVE  Agrees(next)'
<1> DEFINE d == Fetched.dst
<1>1. d \in Reg /\ DOMAIN regs = Reg \cup {"k"} BY DEF WellFormed, Agrees
<1>2. DOMAIN env = Reg BY DEF TypeOK
<1>3. env' = [env EXCEPT ![d] = v] BY DEF Writes
<1>4. TableX' = TableX /\ TableY' = TableY /\ TableMeta' = TableMeta
  BY DEF Writes, TableX, TableY, TableMeta
<1>5. next = [regs EXCEPT ![d] = v] OBVIOUS
<1>5a. d = "lookup_x" => v = TableX OBVIOUS
<1>5b. d = "lookup_y" => v = TableY OBVIOUS
<1>5c. d = "lookup_meta" => v = TableMeta OBVIOUS
<1> HIDE DEF d
<1>6. DOMAIN next = Reg \cup {"k"} BY <1>1, <1>5
<1>7. ASSUME NEW r \in Reg, env'[r] # Undef PROVE next[r] = env'[r]
  <2>1. CASE r = d BY <1>1, <1>2, <1>3, <1>5, <2>1
  <2>2. CASE r # d
    <3>1. env'[r] = env[r] /\ next[r] = regs[r] BY <1>1, <1>2, <1>3, <1>5, <2>2
    <3> QED BY <1>7, <3>1 DEF Agrees
  <2> QED BY <2>1, <2>2
<1>8. next["lookup_x"] = TableX /\ next["lookup_y"] = TableY /\ next["lookup_meta"] = TableMeta
  <2>1. "lookup_x" \in Reg /\ "lookup_y" \in Reg /\ "lookup_meta" \in Reg BY DEF Reg
  <2> QED BY <1>1, <1>5, <1>5a, <1>5b, <1>5c, <2>1 DEF Agrees
<1> QED BY <1>4, <1>6, <1>7, <1>8 DEF Agrees

(* What the guest's interpreter does of one instruction, opcode by opcode. *)
LEMMA ExecutedIs ==
  ASSUME NEW regs, NEW ins, NEW t
  PROVE  LET s(i) == regs[ins.src[i]]
             Becomes(v) == Executed(regs, ins, t) = [regs EXCEPT ![ins.dst] = v]
         IN  /\ ins.op = "copy" => Becomes(s(1))
             /\ ins.op = "bool_from_flag" => Becomes(s(1) % 2)
             /\ ins.op = "clear_bool_from_flag" => Becomes((regs[ins.dst] + (s(1) % 2)) % 2)
             /\ ins.op = "field_mul" => Becomes(FMul(s(1), s(2)))
             /\ ins.op = "field_add" => Becomes(FAdd(s(1), s(2)))
             /\ ins.op = "field_sub" => Becomes(mod_sub(s(1), s(2)))
             /\ ins.op = "mul_const" => Becomes(FMul(21, s(1)))
             /\ ins.op = "select_field_if_flag" => Becomes(IF s(3) = 0 THEN s(2) ELSE s(1))
BY DEF Executed

(* What compilation changes of an instruction.                             *)
LEMMA CompiledIs ==
  ASSUME NEW ins
  PROVE  LET Copy(src) == CompiledInstruction(ins) = Ins("copy", ins.dst, src)
         IN  /\ ins.op = "load_input" => Copy(ins.src)
             /\ ins.op = "lookup_affine_x" => Copy(<<"lookup_x">>)
             /\ ins.op = "lookup_affine_y" => Copy(<<"lookup_y">>)
             /\ ins.op = "lookup_meta" => Copy(<<"lookup_meta">>)
             /\ ins.op \notin {"load_input", "lookup_affine_x", "lookup_affine_y", "lookup_meta"} =>
                  CompiledInstruction(ins) = ins
BY DEF CompiledInstruction

LEMMA CopyIs ==
  ASSUME NEW regs, NEW ins, NEW src, NEW t, CompiledInstruction(ins) = Ins("copy", ins.dst, src)
  PROVE  Executed(regs, CompiledInstruction(ins), t) = [regs EXCEPT ![ins.dst] = regs[src[1]]]
<1> DEFINE c == CompiledInstruction(ins)
<1>1. c.op = "copy" /\ c.dst = ins.dst /\ c.src = src BY DEF Ins
<1> HIDE DEF c
<1>2. Executed(regs, c, t) = [regs EXCEPT ![c.dst] = regs[c.src[1]]] BY <1>1, ExecutedIs
<1> QED BY <1>1, <1>2 DEF c

(* The streamed tail writes the same three values on both sides.           *)
LEMMA TailAgrees ==
  ASSUME TypeOK, NEW regs, Agrees(regs), WellFormed(Fetched), AllStreamedTail,
         Fetched = Ins("complete_a0_all_streamed_tail", "qx", <<"qx", "qy", "qz">>),
         entry # None, NEW next, next = Executed(regs, Fetched, entry)
  PROVE  Agrees(next)'
<1> DEFINE u == env["qx"]
           v == env["qy"]
           w == env["qz"]
           out == StreamedOutputs(<<u, v, w>>, TableX, TableY)
           val == StreamedTailValue(u, v, w)
<1>0. TableX \in Field /\ TableY \in Field BY TableInField DEF TypeOK
<1>1. "qx" \in Reg /\ "qy" \in Reg /\ "qz" \in Reg BY DEF Reg
<1>2. /\ Src(1) = u /\ Src(2) = v /\ Src(3) = w
      /\ u # Undef /\ v # Undef /\ w # Undef
  BY DEF AllStreamedTail, Fetches, Src, Ins
<1>3. u \in Field /\ v \in Field /\ w \in Field BY <1>1, <1>2 DEF TypeOK
<1>4. env' = [env EXCEPT !["qx"] = val[1], !["qy"] = val[2], !["qz"] = val[3]]
  BY <1>2 DEF AllStreamedTail
<1>5. regs["qx"] = u /\ regs["qy"] = v /\ regs["qz"] = w BY <1>1, <1>2 DEF Agrees
<1>6. entry[1] = TableX /\ entry[2] = TableY BY DEF TableX, TableY
<1>7. next = [regs EXCEPT !["qx"] = out[1], !["qy"] = out[2], !["qz"] = out[3]]
  BY <1>5, <1>6 DEF Executed, Ins
<1>8. IsSum(out, <<u, v, w>>, <<TableX, TableY>>) BY <1>0, <1>3, StreamedOutputsIs
<1>9. IsSum(val, <<u, v, w>>, <<TableX, TableY>>) BY <1>0, <1>3, StreamedTailIs
<1>10. out[1] = val[1] /\ out[2] = val[2] /\ out[3] = val[3] BY <1>8, <1>9, SumCoordinates
<1>11. TableX' = TableX /\ TableY' = TableY /\ TableMeta' = TableMeta
  BY DEF AllStreamedTail, TableX, TableY, TableMeta
<1> HIDE DEF u, v, w, out, val
<1>12. DOMAIN env = Reg /\ DOMAIN regs = Reg \cup {"k"} BY DEF TypeOK, Agrees
<1>13. DOMAIN next = Reg \cup {"k"} BY <1>7, <1>12
<1>14. ASSUME NEW r \in Reg, env'[r] # Undef PROVE next[r] = env'[r]
  <2>1. CASE r \in {"qx", "qy", "qz"} BY <1>4, <1>7, <1>10, <1>12, <2>1
  <2>2. CASE r \notin {"qx", "qy", "qz"}
    <3>1. env'[r] = env[r] /\ next[r] = regs[r] BY <1>4, <1>7, <1>12, <2>2
    <3> QED BY <1>14, <3>1 DEF Agrees
  <2> QED BY <2>1, <2>2
<1>15. next["lookup_x"] = TableX /\ next["lookup_y"] = TableY /\ next["lookup_meta"] = TableMeta
  <2>1. "lookup_x" \in Reg /\ "lookup_y" \in Reg /\ "lookup_meta" \in Reg BY DEF Reg
  <2> QED BY <1>7, <1>12, <2>1 DEF Agrees
<1> QED BY <1>11, <1>13, <1>14, <1>15 DEF Agrees

(* One step of the Python interpreter, one instruction of the guest.       *)
LEMMA StepAgrees ==
  ASSUME TypeOK, Step, leaf \in Attested, NEW regs, Agrees(regs),
         NEW next, next = Executed(regs, CompiledInstruction(Fetched), entry)
  PROVE  Agrees(next)'
<1> DEFINE ins == Fetched
           d == ins.dst
<1>1. ~Idle /\ ~BoundaryNoop /\ pc < NetlistLength(leaf) BY StepWrites
<1>2. NetlistLength(leaf) \in {6, 37} BY DEF NetlistLength
<1>3. WellFormed(Fetched) BY <1>1, <1>2, FetchedWellFormed DEF TypeOK, Idle
<1>4. /\ TableX \in Field /\ TableY \in Field /\ TableMeta \in Field
      /\ Field \subseteq Int /\ Undef \notin Field
  BY TableInField, FieldIsInt, LeafAssumption DEF TypeOK
<1>5. ASSUME NEW op, Fetches(op), NEW i \in 1 .. Arity(op)
      PROVE  Src(i) \in Field /\ regs[ins.src[i]] = Src(i)
  BY <1>3, <1>5 DEF Fetches, WellFormed, Src, TypeOK, Agrees
<1>6. ASSUME NEW v, Writes(v), v # Undef, d = "lookup_x" => v = TableX, d = "lookup_y" => v = TableY,
             d = "lookup_meta" => v = TableMeta, next = [regs EXCEPT ![d] = v]
      PROVE  Agrees(next)'
  BY <1>3, <1>6, GuestWrites
<1>7. ASSUME NEW op, Fetches(op), op \notin {"lookup_affine_x", "lookup_affine_y", "lookup_meta"},
             NEW v \in Field, Writes(v), next = [regs EXCEPT ![d] = v]
      PROVE  Agrees(next)'
  <2>1. d # "lookup_x" /\ d # "lookup_y" /\ d # "lookup_meta" BY <1>3, <1>7 DEF Fetches, WellFormed
  <2> QED BY <1>4, <1>6, <1>7, <2>1
<1>c. ASSUME NEW src, NEW r, CompiledInstruction(ins) = Ins("copy", ins.dst, src), src[1] = r
      PROVE  next = [regs EXCEPT ![d] = regs[r]]
  <2>1. next = [regs EXCEPT ![d] = regs[src[1]]] BY <1>c, CopyIs
  <2> QED BY <1>c, <2>1
<1>8. CASE LoadInput
  <2>1. ins.op = "load_input" /\ Fetches("load_input") /\ Writes(Src(1))
    BY <1>8 DEF LoadInput, Fetches
  <2>2. next = [regs EXCEPT ![d] = regs[ins.src[1]]]
    <3>1. CompiledInstruction(ins) = Ins("copy", ins.dst, ins.src) BY <2>1, CompiledIs
    <3> QED BY <1>c, <3>1
  <2>3. Src(1) \in Field /\ regs[ins.src[1]] = Src(1) BY <1>5, <2>1 DEF Arity
  <2> QED BY <1>7, <2>1, <2>2, <2>3
<1>9. CASE LookupX
  <2>1. ins.op = "lookup_affine_x" /\ Writes(TableX) BY <1>9 DEF LookupX, Fetches
  <2>2. next = [regs EXCEPT ![d] = regs["lookup_x"]]
    <3>1. CompiledInstruction(ins) = Ins("copy", ins.dst, <<"lookup_x">>) BY <2>1, CompiledIs
    <3>2. <<"lookup_x">>[1] = "lookup_x" OBVIOUS
    <3> QED BY <1>c, <3>1, <3>2
  <2>3. d # "lookup_y" /\ d # "lookup_meta" BY <1>3, <2>1 DEF WellFormed
  <2> QED BY <1>4, <1>6, <2>1, <2>2, <2>3 DEF Agrees
<1>10. CASE LookupY
  <2>1. ins.op = "lookup_affine_y" /\ Writes(TableY) BY <1>10 DEF LookupY, Fetches
  <2>2. next = [regs EXCEPT ![d] = regs["lookup_y"]]
    <3>1. CompiledInstruction(ins) = Ins("copy", ins.dst, <<"lookup_y">>) BY <2>1, CompiledIs
    <3>2. <<"lookup_y">>[1] = "lookup_y" OBVIOUS
    <3> QED BY <1>c, <3>1, <3>2
  <2>3. d # "lookup_x" /\ d # "lookup_meta" BY <1>3, <2>1 DEF WellFormed
  <2> QED BY <1>4, <1>6, <2>1, <2>2, <2>3 DEF Agrees
<1>11. CASE LookupMeta
  <2>1. ins.op = "lookup_meta" /\ Writes(TableMeta) BY <1>11 DEF LookupMeta, Fetches
  <2>2. next = [regs EXCEPT ![d] = regs["lookup_meta"]]
    <3>1. CompiledInstruction(ins) = Ins("copy", ins.dst, <<"lookup_meta">>) BY <2>1, CompiledIs
    <3>2. <<"lookup_meta">>[1] = "lookup_meta" OBVIOUS
    <3> QED BY <1>c, <3>1, <3>2
  <2>3. d # "lookup_x" /\ d # "lookup_y" BY <1>3, <2>1 DEF WellFormed
  <2> QED BY <1>4, <1>6, <2>1, <2>2, <2>3 DEF Agrees
<1>12. ASSUME NEW op, Fetches(op), op \notin {"load_input", "lookup_affine_x", "lookup_affine_y", "lookup_meta"}
       PROVE  ins.op = op /\ next = Executed(regs, ins, entry)
  <2>1. ins.op = op BY <1>12 DEF Fetches
  <2> QED BY <1>12, <2>1, CompiledIs
<1>13. CASE BoolFromFlag
  <2>1. Fetches("bool_from_flag") /\ Writes(FlagBit) BY <1>13 DEF BoolFromFlag
  <2>2. ins.op = "bool_from_flag" /\ next = Executed(regs, ins, entry) BY <1>12, <2>1
  <2>3. Src(1) \in Int /\ regs[ins.src[1]] = Src(1) BY <1>4, <1>5, <2>1 DEF Arity
  <2>4. FlagBit \in Field
    <3>1. FlagBit \in {0, 1} BY <2>3 DEF FlagBit
    <3> QED BY <3>1, FieldIsInt
  <2>5. next = [regs EXCEPT ![d] = FlagBit] BY <2>2, <2>3, ExecutedIs DEF FlagBit
  <2> QED BY <1>7, <2>1, <2>4, <2>5
<1>14. CASE ClearBool
  <2>1. /\ Fetches("clear_bool_from_flag") /\ env["f_lookup_inf"] # Undef
        /\ Writes((env["f_lookup_inf"] + FlagBit) % 2)
    BY <1>14 DEF ClearBool
  <2>2. ins.op = "clear_bool_from_flag" /\ next = Executed(regs, ins, entry) BY <1>12, <2>1
  <2>3. Src(1) \in Int /\ regs[ins.src[1]] = Src(1) BY <1>4, <1>5, <2>1 DEF Arity
  <2>4. d = "f_lookup_inf" /\ "f_lookup_inf" \in Reg BY <1>3, <2>2 DEF WellFormed, Reg
  <2>5. env["f_lookup_inf"] \in Int /\ regs[d] = env["f_lookup_inf"]
    BY <1>4, <2>1, <2>4 DEF TypeOK, Agrees
  <2>6. (env["f_lookup_inf"] + FlagBit) % 2 \in Field
    <3>1. (env["f_lookup_inf"] + FlagBit) % 2 \in {0, 1} BY <2>3, <2>5 DEF FlagBit
    <3> QED BY <3>1, FieldIsInt
  <2>7. next = [regs EXCEPT ![d] = (env["f_lookup_inf"] + FlagBit) % 2]
    BY <2>2, <2>3, <2>5, ExecutedIs DEF FlagBit
  <2> QED BY <1>7, <2>1, <2>6, <2>7
<1>15. CASE FieldMul
  <2>1. Fetches("field_mul") /\ Writes(FMul(Src(1), Src(2))) BY <1>15 DEF FieldMul
  <2>2. ins.op = "field_mul" /\ next = Executed(regs, ins, entry) BY <1>12, <2>1
  <2>3. /\ Src(1) \in Int /\ regs[ins.src[1]] = Src(1)
        /\ Src(2) \in Int /\ regs[ins.src[2]] = Src(2)
    BY <1>4, <1>5, <2>1 DEF Arity
  <2>4. next = [regs EXCEPT ![d] = FMul(Src(1), Src(2))] BY <2>2, <2>3, ExecutedIs
  <2>5. FMul(Src(1), Src(2)) \in Field BY <2>3, FieldClosed
  <2> QED BY <1>7, <2>1, <2>4, <2>5
<1>16. CASE FieldAdd
  <2>1. Fetches("field_add") /\ Writes(FAdd(Src(1), Src(2))) BY <1>16 DEF FieldAdd
  <2>2. ins.op = "field_add" /\ next = Executed(regs, ins, entry) BY <1>12, <2>1
  <2>3. /\ Src(1) \in Int /\ regs[ins.src[1]] = Src(1)
        /\ Src(2) \in Int /\ regs[ins.src[2]] = Src(2)
    BY <1>4, <1>5, <2>1 DEF Arity
  <2>4. next = [regs EXCEPT ![d] = FAdd(Src(1), Src(2))] BY <2>2, <2>3, ExecutedIs
  <2>5. FAdd(Src(1), Src(2)) \in Field BY <2>3, FieldClosed
  <2> QED BY <1>7, <2>1, <2>4, <2>5
<1>17. CASE FieldSub
  <2>1. Fetches("field_sub") /\ Writes(FSub(Src(1), Src(2))) BY <1>17 DEF FieldSub
  <2>2. ins.op = "field_sub" /\ next = Executed(regs, ins, entry) BY <1>12, <2>1
  <2>3. /\ Src(1) \in Field /\ regs[ins.src[1]] = Src(1)
        /\ Src(2) \in Field /\ regs[ins.src[2]] = Src(2)
    BY <1>4, <1>5, <2>1 DEF Arity
  <2>4. next = [regs EXCEPT ![d] = FSub(Src(1), Src(2))]
    <3>1. next = [regs EXCEPT ![d] = mod_sub(Src(1), Src(2))] BY <2>2, <2>3, ExecutedIs
    <3> QED BY <2>3, <3>1, ModSubIs
  <2>5. FSub(Src(1), Src(2)) \in Field BY <1>4, <2>3, FieldClosed
  <2> QED BY <1>7, <2>1, <2>4, <2>5
<1>18. CASE MulConst
  <2>1. Fetches("mul_const") /\ Writes(FMul(21, Src(1))) BY <1>18 DEF MulConst
  <2>2. ins.op = "mul_const" /\ next = Executed(regs, ins, entry) BY <1>12, <2>1
  <2>3. Src(1) \in Int /\ regs[ins.src[1]] = Src(1) BY <1>4, <1>5, <2>1 DEF Arity
  <2>4. next = [regs EXCEPT ![d] = FMul(21, Src(1))] BY <2>2, <2>3, ExecutedIs
  <2>5. FMul(21, Src(1)) \in Field BY <2>3, FieldClosed
  <2> QED BY <1>7, <2>1, <2>4, <2>5
<1>19. CASE SelectField
  <2> DEFINE v == IF Src(3) # 0 THEN Src(1) ELSE Src(2)
  <2>1. Fetches("select_field_if_flag") /\ Writes(v) BY <1>19 DEF SelectField
  <2>2. ins.op = "select_field_if_flag" /\ next = Executed(regs, ins, entry) BY <1>12, <2>1
  <2>3. /\ Src(1) \in Field /\ regs[ins.src[1]] = Src(1)
        /\ Src(2) \in Field /\ regs[ins.src[2]] = Src(2)
        /\ regs[ins.src[3]] = Src(3)
    BY <1>4, <1>5, <2>1 DEF Arity
  <2>4. next = [regs EXCEPT ![d] = v] BY <2>2, <2>3, ExecutedIs
  <2>5. v \in Field BY <2>3
  <2> HIDE DEF v
  <2> QED BY <1>7, <2>1, <2>4, <2>5
<1>20. CASE AllStreamedTail
  <2>1. IsTail(ins) BY <1>20 DEF AllStreamedTail, Fetches, IsTail
  <2>2. pc + 1 \in 1 .. NetlistLength(leaf) BY <1>1, <1>2 DEF TypeOK
  <2>3. leaf = "streamed_tail"
    <3>1. ASSUME leaf = "lookup_fed" PROVE FALSE
      BY <2>1, <2>2, <3>1, LookupFedWellFormed DEF Fetched, Netlist, NetlistLength
    <3> QED BY <3>1 DEF Attested
  <2>4. entry # None BY <1>1, <2>3 DEF BoundaryNoop
  <2>5. pc + 1 \in 1 .. 6 /\ Fetched = StreamedTailNetlist[pc + 1]
    BY <2>2, <2>3 DEF Fetched, Netlist, NetlistLength
  <2>6. \A k \in 1 .. 6 : IsTail(StreamedTailNetlist[k]) =>
          StreamedTailNetlist[k] = Ins("complete_a0_all_streamed_tail", "qx", <<"qx", "qy", "qz">>)
    <3> USE DEF StreamedTailNetlist, IsTail, Ins
    <3> TAKE k \in 1 .. 6
    <3>1. CASE k = 1 BY <3>1
    <3>2. CASE k = 2 BY <3>2
    <3>3. CASE k = 3 BY <3>3
    <3>4. CASE k = 4 BY <3>4
    <3>5. CASE k = 5 BY <3>5
    <3>6. CASE k = 6 BY <3>6
    <3> QED BY <3>1, <3>2, <3>3, <3>4, <3>5, <3>6
  <2>7. Fetched = Ins("complete_a0_all_streamed_tail", "qx", <<"qx", "qy", "qz">>)
    BY <2>1, <2>5, <2>6
  <2>8. next = Executed(regs, Fetched, entry) BY <1>12, <1>20 DEF AllStreamedTail
  <2> QED BY <1>3, <1>20, <2>4, <2>7, <2>8, TailAgrees
<1> QED BY <1>8, <1>9, <1>10, <1>11, <1>13, <1>14, <1>15, <1>16, <1>17, <1>18, <1>19, <1>20 DEF Step

(* A call starts them in step.                                             *)
LEMMA CallMirrors ==
  ASSUME NEW l, NEW t \in AffinePoint, CallLeaf(l, t), NetlistLength(l) \in Nat
  PROVE  Mirrored'
<1>1. leaf' = l /\ entry' = t /\ pc' = 0 /\ acc' = acc BY DEF CallLeaf
<1> SUFFICES ASSUME acc = affine_to_proj(proj_to_affine(acc)),
                    NEW f, IsFile(f, l, proj_to_affine(acc), t)
             PROVE  Agrees(f[0])'
  BY <1>1 DEF Mirrored
<1> DEFINE regs == Registers(proj_to_affine(acc), t)
<1>2. f[0] = regs BY DEF IsFile
<1>3. regs' = regs BY <1>1
<1>4. Agrees(regs)' BY CallAgrees
<1> HIDE DEF regs
<1> QED BY <1>2, <1>3, <1>4 DEF Agrees

(* An instruction keeps the two register files in step.                    *)
LEMMA StepMirrors ==
  ASSUME TypeOK, Mirrored, Step
  PROVE  Mirrored'
<1>1. /\ ~Idle /\ ~BoundaryNoop /\ pc < NetlistLength(leaf) /\ pc' = pc + 1
      /\ UNCHANGED <<caller, acc, leaf, entry>>
  BY StepWrites
<1> SUFFICES ASSUME leaf \in Attested, acc = affine_to_proj(proj_to_affine(acc)),
                    NEW f, IsFile(f, leaf, proj_to_affine(acc), entry)
             PROVE  Agrees(f[pc])'
  BY <1>1 DEF Mirrored
<1>2. Agrees(f[pc]) BY <1>1 DEF Mirrored
<1>3. NetlistLength(leaf) \in Nat /\ pc \in Nat BY DEF NetlistLength, TypeOK
<1>4. f[pc + 1] = Executed(f[pc], Code(leaf)[pc + 1], entry) BY <1>1, <1>3 DEF IsFile
<1>5. Code(leaf)[pc + 1] = CompiledInstruction(Fetched) BY <1>1, <1>3 DEF Code, Fetched
<1> DEFINE next == Executed(f[pc], CompiledInstruction(Fetched), entry)
<1>6. f[pc + 1] = next BY <1>4, <1>5
<1>7. ASSUME NEW regs, regs = next PROVE Agrees(regs)' BY <1>2, <1>7, StepAgrees
<1>8. \A n \in Nat : n = pc + 1 => Agrees(f[n])' BY <1>6, <1>7
<1> QED BY <1>1, <1>3, <1>8

(***************************************************************************)
(* Every operand of a compiled instruction is an interface register or the *)
(* target of the instruction Born names, which comes earlier.              *)
(***************************************************************************)
Born(l, r) ==
  IF l = "lookup_fed"
  THEN CASE r = "f_lookup_inf" -> 4 [] r = "t1" -> 5 [] r = "qx" -> 6 [] r = "qy" -> 7
         [] r = "qz" -> 8 [] r = "lx" -> 9 [] r = "ly" -> 12 [] r = "t0" -> 15 [] OTHER -> 0
  ELSE CASE r = "qx" -> 1 [] r = "qy" -> 2 [] r = "qz" -> 3 [] OTHER -> 0

BornInTime(l, k, ins) ==
  /\ \A r \in Operands(ins) : r \in Interface \/ Born(l, r) \in 1 .. k - 1
  /\ \A r : Born(l, r) = k => r \in Targets(ins)

(* The two attested netlists, instruction by instruction.                  *)
LEMMA LookupFedCompiles ==
  ASSUME NEW k \in 1 .. 37
  PROVE  BornInTime("lookup_fed", k, CompiledInstruction(LookupFedNetlist[k]))
<1>1. ASSUME NEW old \in 0 .. 36, LookupFedLeafOrder[k] = old
      PROVE  LookupFedNetlist[k] = LookupFedInstruction(old, BaseNetlist[old + 1])
  BY <1>1 DEF LookupFedNetlist
<1>k1. CASE k = 1
  <2>1. LookupFedLeafOrder[k] = 5 BY <1>k1 DEF LookupFedLeafOrder
  <2>2. CompiledInstruction(LookupFedNetlist[k]) = Ins("copy", "lookup_meta", <<"lookup_meta">>)
    BY <1>1, <2>1 DEF CompiledInstruction, LookupFedInstruction, BaseNetlist, Ins
  <2> QED BY <1>k1, <2>2 DEF Ins, BornInTime, Born, Interface, Operands, Targets
<1>k2. CASE k = 2
  <2>1. LookupFedLeafOrder[k] = 3 BY <1>k2 DEF LookupFedLeafOrder
  <2>2. CompiledInstruction(LookupFedNetlist[k]) = Ins("copy", "lookup_x", <<"lookup_x">>)
    BY <1>1, <2>1 DEF CompiledInstruction, LookupFedInstruction, BaseNetlist, Ins
  <2> QED BY <1>k2, <2>2 DEF Ins, BornInTime, Born, Interface, Operands, Targets
<1>k3. CASE k = 3
  <2>1. LookupFedLeafOrder[k] = 4 BY <1>k3 DEF LookupFedLeafOrder
  <2>2. CompiledInstruction(LookupFedNetlist[k]) = Ins("copy", "lookup_y", <<"lookup_y">>)
    BY <1>1, <2>1 DEF CompiledInstruction, LookupFedInstruction, BaseNetlist, Ins
  <2> QED BY <1>k3, <2>2 DEF Ins, BornInTime, Born, Interface, Operands, Targets
<1>k4. CASE k = 4
  <2>1. LookupFedLeafOrder[k] = 6 BY <1>k4 DEF LookupFedLeafOrder
  <2>2. CompiledInstruction(LookupFedNetlist[k]) = Ins("bool_from_flag", "f_lookup_inf", <<"lookup_meta">>)
    BY <1>1, <2>1 DEF CompiledInstruction, LookupFedInstruction, BaseNetlist, Ins
  <2> QED BY <1>k4, <2>2 DEF Ins, BornInTime, Born, Interface, Operands, Targets
<1>k5. CASE k = 5
  <2>1. LookupFedLeafOrder[k] = 8 BY <1>k5 DEF LookupFedLeafOrder
  <2>2. CompiledInstruction(LookupFedNetlist[k]) = Ins("field_add", "t1", <<"lookup_x", "lookup_y">>)
    BY <1>1, <2>1 DEF CompiledInstruction, LookupFedInstruction, BaseNetlist, Ins
  <2> QED BY <1>k5, <2>2 DEF Ins, BornInTime, Born, Interface, Operands, Targets
<1>k6. CASE k = 6
  <2>1. LookupFedLeafOrder[k] = 0 BY <1>k6 DEF LookupFedLeafOrder
  <2>2. CompiledInstruction(LookupFedNetlist[k]) = Ins("copy", "qx", <<"Q.X">>)
    BY <1>1, <2>1 DEF CompiledInstruction, LookupFedInstruction, BaseNetlist, Ins
  <2> QED BY <1>k6, <2>2 DEF Ins, BornInTime, Born, Interface, Operands, Targets
<1>k7. CASE k = 7
  <2>1. LookupFedLeafOrder[k] = 1 BY <1>k7 DEF LookupFedLeafOrder
  <2>2. CompiledInstruction(LookupFedNetlist[k]) = Ins("copy", "qy", <<"Q.Y">>)
    BY <1>1, <2>1 DEF CompiledInstruction, LookupFedInstruction, BaseNetlist, Ins
  <2> QED BY <1>k7, <2>2 DEF Ins, BornInTime, Born, Interface, Operands, Targets
<1>k8. CASE k = 8
  <2>1. LookupFedLeafOrder[k] = 2 BY <1>k8 DEF LookupFedLeafOrder
  <2>2. CompiledInstruction(LookupFedNetlist[k]) = Ins("copy", "qz", <<"Q.Z">>)
    BY <1>1, <2>1 DEF CompiledInstruction, LookupFedInstruction, BaseNetlist, Ins
  <2> QED BY <1>k8, <2>2 DEF Ins, BornInTime, Born, Interface, Operands, Targets
<1>k9. CASE k = 9
  <2>1. LookupFedLeafOrder[k] = 9 BY <1>k9 DEF LookupFedLeafOrder
  <2>2. CompiledInstruction(LookupFedNetlist[k]) = Ins("field_mul", "lx", <<"lookup_x", "qz">>)
    BY <1>1, <2>1 DEF CompiledInstruction, LookupFedInstruction, BaseNetlist, Ins
  <2> QED BY <1>k9, <2>2 DEF Ins, BornInTime, Born, Interface, Operands, Targets
<1>k10. CASE k = 10
  <2>1. LookupFedLeafOrder[k] = 10 BY <1>k10 DEF LookupFedLeafOrder
  <2>2. CompiledInstruction(LookupFedNetlist[k]) = Ins("field_add", "lx", <<"lx", "qx">>)
    BY <1>1, <2>1 DEF CompiledInstruction, LookupFedInstruction, BaseNetlist, Ins
  <2> QED BY <1>k10, <2>2 DEF Ins, BornInTime, Born, Interface, Operands, Targets
<1>k11. CASE k = 11
  <2>1. LookupFedLeafOrder[k] = 13 BY <1>k11 DEF LookupFedLeafOrder
  <2>2. CompiledInstruction(LookupFedNetlist[k]) = Ins("mul_const", "lx", <<"lx">>)
    BY <1>1, <2>1 DEF CompiledInstruction, LookupFedInstruction, BaseNetlist, Ins
  <2> QED BY <1>k11, <2>2 DEF Ins, BornInTime, Born, Interface, Operands, Targets
<1>k12. CASE k = 12
  <2>1. LookupFedLeafOrder[k] = 15 BY <1>k12 DEF LookupFedLeafOrder
  <2>2. CompiledInstruction(LookupFedNetlist[k]) = Ins("field_mul", "ly", <<"lookup_y", "qz">>)
    BY <1>1, <2>1 DEF CompiledInstruction, LookupFedInstruction, BaseNetlist, Ins
  <2> QED BY <1>k12, <2>2 DEF Ins, BornInTime, Born, Interface, Operands, Targets
<1>k13. CASE k = 13
  <2>1. LookupFedLeafOrder[k] = 16 BY <1>k13 DEF LookupFedLeafOrder
  <2>2. CompiledInstruction(LookupFedNetlist[k]) = Ins("field_add", "ly", <<"ly", "qy">>)
    BY <1>1, <2>1 DEF CompiledInstruction, LookupFedInstruction, BaseNetlist, Ins
  <2> QED BY <1>k13, <2>2 DEF Ins, BornInTime, Born, Interface, Operands, Targets
<1>k14. CASE k = 14
  <2>1. LookupFedLeafOrder[k] = 17 BY <1>k14 DEF LookupFedLeafOrder
  <2>2. CompiledInstruction(LookupFedNetlist[k]) = Ins("mul_const", "qz", <<"qz">>)
    BY <1>1, <2>1 DEF CompiledInstruction, LookupFedInstruction, BaseNetlist, Ins
  <2> QED BY <1>k14, <2>2 DEF Ins, BornInTime, Born, Interface, Operands, Targets
<1>k15. CASE k = 15
  <2>1. LookupFedLeafOrder[k] = 7 BY <1>k15 DEF LookupFedLeafOrder
  <2>2. CompiledInstruction(LookupFedNetlist[k]) = Ins("field_mul", "t0", <<"qx", "lookup_x">>)
    BY <1>1, <2>1 DEF CompiledInstruction, LookupFedInstruction, BaseNetlist, Ins
  <2> QED BY <1>k15, <2>2 DEF Ins, BornInTime, Born, Interface, Operands, Targets
<1>k16. CASE k = 16
  <2>1. LookupFedLeafOrder[k] = 11 BY <1>k16 DEF LookupFedLeafOrder
  <2>2. CompiledInstruction(LookupFedNetlist[k]) = Ins("field_add", "qx", <<"qx", "qy">>)
    BY <1>1, <2>1 DEF CompiledInstruction, LookupFedInstruction, BaseNetlist, Ins
  <2> QED BY <1>k16, <2>2 DEF Ins, BornInTime, Born, Interface, Operands, Targets
<1>k17. CASE k = 17
  <2>1. LookupFedLeafOrder[k] = 12 BY <1>k17 DEF LookupFedLeafOrder
  <2>2. CompiledInstruction(LookupFedNetlist[k]) = Ins("field_mul", "t1", <<"t1", "qx">>)
    BY <1>1, <2>1 DEF CompiledInstruction, LookupFedInstruction, BaseNetlist, Ins
  <2> QED BY <1>k17, <2>2 DEF Ins, BornInTime, Born, Interface, Operands, Targets
<1>k18. CASE k = 18
  <2>1. LookupFedLeafOrder[k] = 14 BY <1>k18 DEF LookupFedLeafOrder
  <2>2. CompiledInstruction(LookupFedNetlist[k]) = Ins("field_mul", "qx", <<"qy", "lookup_y">>)
    BY <1>1, <2>1 DEF CompiledInstruction, LookupFedInstruction, BaseNetlist, Ins
  <2> QED BY <1>k18, <2>2 DEF Ins, BornInTime, Born, Interface, Operands, Targets
<1>k19. CASE k = 19
  <2>1. LookupFedLeafOrder[k] = 18 BY <1>k19 DEF LookupFedLeafOrder
  <2>2. CompiledInstruction(LookupFedNetlist[k]) = Ins("field_add", "qy", <<"t0", "qx">>)
    BY <1>1, <2>1 DEF CompiledInstruction, LookupFedInstruction, BaseNetlist, Ins
  <2> QED BY <1>k19, <2>2 DEF Ins, BornInTime, Born, Interface, Operands, Targets
<1>k20. CASE k = 20
  <2>1. LookupFedLeafOrder[k] = 19 BY <1>k20 DEF LookupFedLeafOrder
  <2>2. CompiledInstruction(LookupFedNetlist[k]) = Ins("field_sub", "t1", <<"t1", "qy">>)
    BY <1>1, <2>1 DEF CompiledInstruction, LookupFedInstruction, BaseNetlist, Ins
  <2> QED BY <1>k20, <2>2 DEF Ins, BornInTime, Born, Interface, Operands, Targets
<1>k21. CASE k = 21
  <2>1. LookupFedLeafOrder[k] = 20 BY <1>k21 DEF LookupFedLeafOrder
  <2>2. CompiledInstruction(LookupFedNetlist[k]) = Ins("field_add", "qy", <<"t0", "t0">>)
    BY <1>1, <2>1 DEF CompiledInstruction, LookupFedInstruction, BaseNetlist, Ins
  <2> QED BY <1>k21, <2>2 DEF Ins, BornInTime, Born, Interface, Operands, Targets
<1>k22. CASE k = 22
  <2>1. LookupFedLeafOrder[k] = 21 BY <1>k22 DEF LookupFedLeafOrder
  <2>2. CompiledInstruction(LookupFedNetlist[k]) = Ins("field_add", "qy", <<"qy", "t0">>)
    BY <1>1, <2>1 DEF CompiledInstruction, LookupFedInstruction, BaseNetlist, Ins
  <2> QED BY <1>k22, <2>2 DEF Ins, BornInTime, Born, Interface, Operands, Targets
<1>k23. CASE k = 23
  <2>1. LookupFedLeafOrder[k] = 22 BY <1>k23 DEF LookupFedLeafOrder
  <2>2. CompiledInstruction(LookupFedNetlist[k]) = Ins("field_add", "t0", <<"qx", "qz">>)
    BY <1>1, <2>1 DEF CompiledInstruction, LookupFedInstruction, BaseNetlist, Ins
  <2> QED BY <1>k23, <2>2 DEF Ins, BornInTime, Born, Interface, Operands, Targets
<1>k24. CASE k = 24
  <2>1. LookupFedLeafOrder[k] = 23 BY <1>k24 DEF LookupFedLeafOrder
  <2>2. CompiledInstruction(LookupFedNetlist[k]) = Ins("field_sub", "qx", <<"qx", "qz">>)
    BY <1>1, <2>1 DEF CompiledInstruction, LookupFedInstruction, BaseNetlist, Ins
  <2> QED BY <1>k24, <2>2 DEF Ins, BornInTime, Born, Interface, Operands, Targets
<1>k25. CASE k = 25
  <2>1. LookupFedLeafOrder[k] = 24 BY <1>k25 DEF LookupFedLeafOrder
  <2>2. CompiledInstruction(LookupFedNetlist[k]) = Ins("field_mul", "qz", <<"ly", "lx">>)
    BY <1>1, <2>1 DEF CompiledInstruction, LookupFedInstruction, BaseNetlist, Ins
  <2> QED BY <1>k25, <2>2 DEF Ins, BornInTime, Born, Interface, Operands, Targets
<1>k26. CASE k = 26
  <2>1. LookupFedLeafOrder[k] = 25 BY <1>k26 DEF LookupFedLeafOrder
  <2>2. CompiledInstruction(LookupFedNetlist[k]) = Ins("field_mul", "lx", <<"lx", "qy">>)
    BY <1>1, <2>1 DEF CompiledInstruction, LookupFedInstruction, BaseNetlist, Ins
  <2> QED BY <1>k26, <2>2 DEF Ins, BornInTime, Born, Interface, Operands, Targets
<1>k27. CASE k = 27
  <2>1. LookupFedLeafOrder[k] = 26 BY <1>k27 DEF LookupFedLeafOrder
  <2>2. CompiledInstruction(LookupFedNetlist[k]) = Ins("field_mul", "qy", <<"qy", "t1">>)
    BY <1>1, <2>1 DEF CompiledInstruction, LookupFedInstruction, BaseNetlist, Ins
  <2> QED BY <1>k27, <2>2 DEF Ins, BornInTime, Born, Interface, Operands, Targets
<1>k28. CASE k = 28
  <2>1. LookupFedLeafOrder[k] = 27 BY <1>k28 DEF LookupFedLeafOrder
  <2>2. CompiledInstruction(LookupFedNetlist[k]) = Ins("field_mul", "t1", <<"t1", "qx">>)
    BY <1>1, <2>1 DEF CompiledInstruction, LookupFedInstruction, BaseNetlist, Ins
  <2> QED BY <1>k28, <2>2 DEF Ins, BornInTime, Born, Interface, Operands, Targets
<1>k29. CASE k = 29
  <2>1. LookupFedLeafOrder[k] = 28 BY <1>k29 DEF LookupFedLeafOrder
  <2>2. CompiledInstruction(LookupFedNetlist[k]) = Ins("field_sub", "t1", <<"t1", "qz">>)
    BY <1>1, <2>1 DEF CompiledInstruction, LookupFedInstruction, BaseNetlist, Ins
  <2> QED BY <1>k29, <2>2 DEF Ins, BornInTime, Born, Interface, Operands, Targets
<1>k30. CASE k = 30
  <2>1. LookupFedLeafOrder[k] = 29 BY <1>k30 DEF LookupFedLeafOrder
  <2>2. CompiledInstruction(LookupFedNetlist[k]) = Ins("field_mul", "qx", <<"qx", "t0">>)
    BY <1>1, <2>1 DEF CompiledInstruction, LookupFedInstruction, BaseNetlist, Ins
  <2> QED BY <1>k30, <2>2 DEF Ins, BornInTime, Born, Interface, Operands, Targets
<1>k31. CASE k = 31
  <2>1. LookupFedLeafOrder[k] = 30 BY <1>k31 DEF LookupFedLeafOrder
  <2>2. CompiledInstruction(LookupFedNetlist[k]) = Ins("field_add", "lx", <<"qx", "lx">>)
    BY <1>1, <2>1 DEF CompiledInstruction, LookupFedInstruction, BaseNetlist, Ins
  <2> QED BY <1>k31, <2>2 DEF Ins, BornInTime, Born, Interface, Operands, Targets
<1>k32. CASE k = 32
  <2>1. LookupFedLeafOrder[k] = 31 BY <1>k32 DEF LookupFedLeafOrder
  <2>2. CompiledInstruction(LookupFedNetlist[k]) = Ins("field_mul", "t0", <<"t0", "ly">>)
    BY <1>1, <2>1 DEF CompiledInstruction, LookupFedInstruction, BaseNetlist, Ins
  <2> QED BY <1>k32, <2>2 DEF Ins, BornInTime, Born, Interface, Operands, Targets
<1>k33. CASE k = 33
  <2>1. LookupFedLeafOrder[k] = 32 BY <1>k33 DEF LookupFedLeafOrder
  <2>2. CompiledInstruction(LookupFedNetlist[k]) = Ins("field_add", "t0", <<"t0", "qy">>)
    BY <1>1, <2>1 DEF CompiledInstruction, LookupFedInstruction, BaseNetlist, Ins
  <2> QED BY <1>k33, <2>2 DEF Ins, BornInTime, Born, Interface, Operands, Targets
<1>k34. CASE k = 34
  <2>1. LookupFedLeafOrder[k] = 33 BY <1>k34 DEF LookupFedLeafOrder
  <2>2. CompiledInstruction(LookupFedNetlist[k]) =
          Ins("select_field_if_flag", "qx", <<"Q.X", "t1", "f_lookup_inf">>)
    BY <1>1, <2>1 DEF CompiledInstruction, LookupFedInstruction, BaseNetlist, Ins
  <2> QED BY <1>k34, <2>2 DEF Ins, BornInTime, Born, Interface, Operands, Targets
<1>k35. CASE k = 35
  <2>1. LookupFedLeafOrder[k] = 34 BY <1>k35 DEF LookupFedLeafOrder
  <2>2. CompiledInstruction(LookupFedNetlist[k]) =
          Ins("select_field_if_flag", "qy", <<"Q.Y", "lx", "f_lookup_inf">>)
    BY <1>1, <2>1 DEF CompiledInstruction, LookupFedInstruction, BaseNetlist, Ins
  <2> QED BY <1>k35, <2>2 DEF Ins, BornInTime, Born, Interface, Operands, Targets
<1>k36. CASE k = 36
  <2>1. LookupFedLeafOrder[k] = 35 BY <1>k36 DEF LookupFedLeafOrder
  <2>2. CompiledInstruction(LookupFedNetlist[k]) =
          Ins("select_field_if_flag", "qz", <<"Q.Z", "t0", "f_lookup_inf">>)
    BY <1>1, <2>1 DEF CompiledInstruction, LookupFedInstruction, BaseNetlist, Ins
  <2> QED BY <1>k36, <2>2 DEF Ins, BornInTime, Born, Interface, Operands, Targets
<1>k37. CASE k = 37
  <2>1. LookupFedLeafOrder[k] = 36 BY <1>k37 DEF LookupFedLeafOrder
  <2>2. CompiledInstruction(LookupFedNetlist[k]) = Ins("clear_bool_from_flag", "f_lookup_inf", <<"lookup_meta">>)
    BY <1>1, <2>1 DEF CompiledInstruction, LookupFedInstruction, BaseNetlist, Ins
  <2> QED BY <1>k37, <2>2 DEF Ins, BornInTime, Born, Interface, Operands, Targets
<1> QED
  BY <1>k1, <1>k2, <1>k3, <1>k4, <1>k5, <1>k6, <1>k7, <1>k8, <1>k9, <1>k10, <1>k11, <1>k12,
     <1>k13, <1>k14, <1>k15, <1>k16, <1>k17, <1>k18, <1>k19, <1>k20, <1>k21, <1>k22, <1>k23,
     <1>k24, <1>k25, <1>k26, <1>k27, <1>k28, <1>k29, <1>k30, <1>k31, <1>k32, <1>k33, <1>k34,
     <1>k35, <1>k36, <1>k37

LEMMA StreamedCompiles ==
  ASSUME NEW k \in 1 .. 6
  PROVE  BornInTime("streamed_tail", k, CompiledInstruction(StreamedTailNetlist[k]))
<1> USE DEF StreamedTailNetlist, CompiledInstruction, Ins, BornInTime, Born, Interface, Operands, Targets
<1>1. CASE k = 1 BY <1>1
<1>2. CASE k = 2 BY <1>2
<1>3. CASE k = 3 BY <1>3
<1>4. CASE k = 4 BY <1>4
<1>5. CASE k = 5 BY <1>5
<1>6. CASE k = 6 BY <1>6
<1> QED BY <1>1, <1>2, <1>3, <1>4, <1>5, <1>6

(* The compiler refuses neither of the leaves it is given.                 *)
LEMMA AttestedCompiles ==
  ASSUME NEW l \in Attested
  PROVE  Compiles(l)
<1> DEFINE code == Code(l)
           len == NetlistLength(l)
           Defined(i) == Interface \cup UNION {Targets(code[j]) : j \in 1 .. i - 1}
<1>1. len \in {6, 37} /\ DOMAIN code = 1 .. len BY DEF NetlistLength, Code
<1>2. \A k \in 1 .. len : code[k] = CompiledInstruction(Netlist(l)[k]) BY DEF Code
<1>3. ASSUME NEW k \in 1 .. len PROVE BornInTime(l, k, code[k])
  <2>1. CASE l = "lookup_fed"
    <3>1. k \in 1 .. 37 /\ Netlist(l) = LookupFedNetlist BY <2>1 DEF NetlistLength, Netlist
    <3> QED BY <1>2, <2>1, <3>1, LookupFedCompiles
  <2>2. CASE l = "streamed_tail"
    <3>1. k \in 1 .. 6 /\ Netlist(l) = StreamedTailNetlist BY <2>2 DEF NetlistLength, Netlist
    <3> QED BY <1>2, <2>2, <3>1, StreamedCompiles
  <2> QED BY <2>1, <2>2 DEF Attested
<1> HIDE DEF code, len
<1>4. ASSUME NEW i \in 1 .. len + 1, NEW r, Born(l, r) \in 1 .. i - 1
      PROVE  r \in Defined(i)
  <2>1. Born(l, r) \in 1 .. len BY <1>1, <1>4
  <2>2. r \in Targets(code[Born(l, r)]) BY <1>3, <2>1 DEF BornInTime
  <2> QED BY <1>4, <2>2
<1>5. ASSUME NEW i \in DOMAIN code PROVE Operands(code[i]) \subseteq Defined(i)
  <2>1. i \in 1 .. len /\ i \in 1 .. len + 1 BY <1>1
  <2>2. BornInTime(l, i, code[i]) BY <1>3, <2>1
  <2>3. ASSUME NEW r \in Operands(code[i]) PROVE r \in Defined(i)
    <3>1. r \in Interface \/ Born(l, r) \in 1 .. i - 1 BY <2>2 DEF BornInTime
    <3>2. CASE r \in Interface BY <3>2
    <3>3. CASE Born(l, r) \in 1 .. i - 1 BY <1>4, <2>1, <3>3
    <3> QED BY <3>1, <3>2, <3>3
  <2> QED BY <2>3
<1>6. Outputs \subseteq Defined(len + 1)
  <2>1. ASSUME NEW r \in Outputs PROVE r \in Defined(len + 1)
    <3>1. ASSUME l = "lookup_fed" PROVE Born(l, r) \in 1 .. len
      <4>1. len = 37 /\ Born(l, r) \in {6, 7, 8} BY <2>1, <3>1 DEF Outputs, Born, len, NetlistLength
      <4> QED BY <4>1
    <3>2. ASSUME l = "streamed_tail" PROVE Born(l, r) \in 1 .. len
      <4>1. len = 6 /\ Born(l, r) \in {1, 2, 3} BY <2>1, <3>2 DEF Outputs, Born, len, NetlistLength
      <4> QED BY <4>1
    <3>3. len + 1 \in 1 .. len + 1 /\ Born(l, r) \in 1 .. (len + 1) - 1
      BY <1>1, <3>1, <3>2 DEF Attested
    <3> QED BY <1>4, <3>3
  <2> QED BY <2>1
<1> QED BY <1>5, <1>6 DEF Compiles, code, len

(* The inductive invariant of the guest: the group invariant, and the      *)
(* guest's register file in step with the Python one.                      *)
GuestInv == GInv /\ Mirrored

LEMMA InitGuestInv == ASSUME Init PROVE GuestInv
<1>1. leaf \notin Attested BY DEF Init, Attested
<1> QED BY <1>1, InitGInv DEF GuestInv, Mirrored

LEMMA NextGuestInv == ASSUME GuestInv, [Next]_vars PROVE GuestInv'
<1>1. GInv' BY NextGInv DEF GuestInv
<1> SUFFICES Mirrored' BY <1>1 DEF GuestInv
<1>2. ASSUME NEW l \in Leaves, NEW t \in AffinePoint, CallLeaf(l, t) PROVE Mirrored'
  <2>1. NetlistLength(l) \in Nat BY DEF NetlistLength
  <2> QED BY <1>2, <2>1, CallMirrors
<1>3. CASE Step BY <1>3, StepMirrors DEF GuestInv, GInv, IInv
<1>4. CASE Return \/ ReturnAtBoundary
  <2>1. leaf' = "none" BY <1>4 DEF Return, ReturnAtBoundary, HandBack
  <2> QED BY <2>1 DEF Mirrored, Attested
<1>5. CASE UNCHANGED vars
  <2>1. UNCHANGED <<acc, leaf, entry, pc, env>> BY <1>5 DEF vars
  <2> QED BY <2>1 DEF GuestInv, Mirrored, BoundaryNoop, Agrees, TableX, TableY, TableMeta
<1> QED BY <1>2, <1>3, <1>4, <1>5 DEF Next

LEMMA InvariantGuestInv == Spec => []GuestInv
BY InitGuestInv, NextGuestInv, PTL DEF Spec

(* The guest computes the triple the Python execution leaves.              *)
LEMMA GuestReturns ==
  ASSUME GuestInv, AffineCall
  PROVE  execute_leaf(leaf, proj_to_affine(acc), entry) = Returned
<1> DEFINE a == proj_to_affine(acc)
           len == NetlistLength(leaf)
<1>1. leaf \in Attested /\ (Finished \/ BoundaryNoop) /\ acc = affine_to_proj(a)
  BY DEF AffineCall
<1>2. len \in Nat BY DEF NetlistLength
<1>3. skip_on_lookup_infinity(leaf) /\ entry = None <=> BoundaryNoop
  BY DEF skip_on_lookup_infinity, BoundaryNoop
<1> HIDE DEF a
<1>4. PICK f : /\ IsFile(f, leaf, a, entry)
               /\ execute_leaf(leaf, a, entry) =
                    IF skip_on_lookup_infinity(leaf) /\ entry = None THEN affine_to_proj(a)
                    ELSE LET last == f[len] IN <<last["qx"], last["qy"], last["qz"]>>
  BY <1>2, ExecutionIs
<1>5. CASE BoundaryNoop BY <1>1, <1>3, <1>4, <1>5 DEF Returned, a
<1>6. CASE ~BoundaryNoop
  <2>1. Finished /\ pc = len BY <1>1, <1>6 DEF Finished
  <2>2. Agrees(f[pc]) BY <1>1, <1>4, <1>6 DEF GuestInv, Mirrored, a
  <2>3. Result \in Field \X Field \X Field BY <1>6, <2>1, CallAdds DEF GuestInv
  <2>4. env["qx"] # Undef /\ env["qy"] # Undef /\ env["qz"] # Undef
    BY <2>3, LeafAssumption DEF Result
  <2>5. f[len]["qx"] = env["qx"] /\ f[len]["qy"] = env["qy"] /\ f[len]["qz"] = env["qz"]
    BY <2>1, <2>2, <2>4 DEF Agrees, Reg
  <2> QED BY <1>3, <1>4, <1>6, <2>5 DEF Returned, Result, a
<1> QED BY <1>5, <1>6

(* For every prime, every curve without a point of order two, every        *)
(* accumulator in affine form and every entry, the guest compiles either   *)
(* attested leaf, computes the very triple the Python execution leaves, and*)
(* the two assertions of the case let the point of that triple pass and no *)
(* other.                                                                  *)
THEOREM GuestAttestsTheLeaf == Spec => []GuestAcceptsOnlyTheResult
<1>1. ASSUME GuestInv PROVE GuestAcceptsOnlyTheResult
  <2> SUFFICES ASSUME AffineCall
               PROVE  LET a == proj_to_affine(acc)
                      IN  /\ Compiles(leaf)
                          /\ execute_leaf(leaf, a, entry) = Returned
                          /\ \A expected \in (Field \X Field) \cup {None} :
                               CasePasses(leaf, a, entry, expected) <=> expected = proj_to_affine(Returned)
    BY DEF GuestAcceptsOnlyTheResult
  <2> DEFINE a == proj_to_affine(acc)
             sum == add_affine(a, entry)
             guest == add_affine_projective(a, entry)
  <2>1. Compiles(leaf) BY AttestedCompiles DEF AffineCall
  <2>2. execute_leaf(leaf, a, entry) = Returned BY <1>1, GuestReturns
  <2>3. /\ Returned \in Field \X Field \X Field /\ sum \in AffinePoint
        /\ Represents(Returned, sum) /\ proj_to_affine(Returned) = sum
    BY <1>1, CallAdds DEF GuestInv, AffineCall, Returned
  <2>4. a \in AffinePoint /\ entry \in AffinePoint
    BY <1>1 DEF GuestInv, GInv, StandsForPoint, IInv, TypeOK
  <2>5. guest \in Field \X Field \X Field /\ Represents(guest, sum) BY <2>4, GuestAdds
  <2> HIDE DEF a, sum, guest
  <2>6. ASSUME NEW expected \in (Field \X Field) \cup {None}
        PROVE  CasePasses(leaf, a, entry, expected) <=> expected = proj_to_affine(Returned)
    <3>1. projective_matches_affine(guest, expected) <=> expected = sum
      BY <2>3, <2>5, MatchesIs
    <3>2. projective_matches_affine(Returned, expected) <=> expected = sum
      BY <2>3, MatchesIs
    <3> QED BY <2>2, <2>3, <3>1, <3>2 DEF CasePasses, guest
  <2> QED BY <2>1, <2>2, <2>6 DEF a
<1> QED BY <1>1, InvariantGuestInv, PTL
=============================================================================
