------------------------------- MODULE Curve -------------------------------
(***************************************************************************)
(* Affine and projective arithmetic on a short Weierstrass curve           *)
(*      y^2 = x^3 + B    over the integers modulo P                        *)
(* as src/common.py computes it.  An affine point is <<x, y>> or None, a   *)
(* projective one is <<x, y, z>>.  secp256k1 is P = 2^256 - 2^32 - 977,    *)
(* B = 7; the operators are the same for the toy curves of verifier.py.    *)
(***************************************************************************)
EXTENDS Integers, Sequences

CONSTANTS P, B

ASSUME CurveAssumption == P \in Nat /\ P > 3 /\ B \in 1 .. P - 1

Field == 0 .. P - 1

None == << >>

FAdd(a, b) == (a + b) % P
(* Fault: the difference is not brought back into the field. *)
FSubUnreduced(a, b) == a - b
FSub(a, b) == (a - b) % P
FMul(a, b) == (a * b) % P
FInv(a) == CHOOSE v \in Field : FMul(a, v) = 1

(* P is a prime: what the code's pow(v, -1, p) relies on. *)
ASSUME InverseAssumption == \A a \in Field \ {0} : \E v \in Field : FMul(a, v) = 1

OnCurve(x, y) == (y * y - x * x * x - B) % P = 0
(* No point has order two: the leaves run on curves of prime order only,   *)
(* which the extended verifier checks, and the formulas rely on it.        *)
ASSUME OrderAssumption == \A x \in Field : ~OnCurve(x, 0)

AffinePoint == {pt \in Field \X Field : OnCurve(pt[1], pt[2])} \cup {None}

affine_to_proj(pt) == IF pt = None THEN <<0, 1, 0>> ELSE <<pt[1], pt[2], 1>>

proj_to_affine(q) ==
  IF q[3] = 0 THEN None
  ELSE <<FMul(q[1], FInv(q[3])), FMul(q[2], FInv(q[3]))>>

neg_affine(pt) == IF pt = None THEN None ELSE <<pt[1], (-pt[2]) % P>>

(* The affine group law, with the slope of the chord or of the tangent.    *)
add_affine(pa, qa) ==
  LET lam == IF pa[1] = qa[1]
             THEN FMul(3 * pa[1] * pa[1], FInv((2 * pa[2]) % P))
             ELSE FMul(qa[2] - pa[2], FInv(FSub(qa[1], pa[1])))
      x3  == (lam * lam - pa[1] - qa[1]) % P
  IN  CASE pa = None -> qa
        [] pa # None /\ qa = None -> pa
        [] pa # None /\ qa = neg_affine(pa) -> None
        [] OTHER -> <<x3, (lam * (pa[1] - x3) - pa[2]) % P>>

(* The complete formulas for a = 0, the reference the audits compare the   *)
(* leaf with.                                                              *)
complete_projective_add_a0(p, q) ==
  LET b3  == (3 * B) % P
      xx  == FMul(p[1], q[1])
      yy  == FMul(p[2], q[2])
      zz3 == FMul(b3, FMul(p[3], q[3]))
      xy  == FSub(FMul(p[1] + p[2], q[1] + q[2]), xx + yy)
      yz  == FSub(FMul(p[2] + p[3], q[2] + q[3]), yy + FMul(p[3], q[3]))
      xz  == FMul(b3, FSub(FMul(p[1] + p[3], q[1] + q[3]), xx + FMul(p[3], q[3])))
      xx3 == FAdd(FAdd(xx, xx), xx)
      s   == FAdd(yy, zz3)
      d   == FSub(yy, zz3)
  IN  << FSub(FMul(xy, d), FMul(yz, xz)),
         FAdd(FMul(d, s), FMul(xz, xx3)),
         FAdd(FMul(s, yz), FMul(xx3, xy)) >>
=============================================================================
