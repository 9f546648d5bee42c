--------------------------- MODULE MCPointAddLeaf ---------------------------
(***************************************************************************)
(* The leaf machine on the curve y^2 = x^3 + 7 over the integers modulo P, *)
(* with P small enough to run every call from every projective accumulator *)
(* that earlier calls can leave, with the guest that attests them and the  *)
(* affine accumulator it implements.                                       *)
(***************************************************************************)
EXTENDS AttestationGuest, LeafRefinement
=============================================================================
