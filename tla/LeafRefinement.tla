--------------------------- MODULE LeafRefinement ---------------------------
(***************************************************************************)
(* The leaf implements the affine accumulator: reading the projective      *)
(* accumulator back to affine form, a call adds the entry it looked up in  *)
(* the curve group and does nothing else.                                  *)
(***************************************************************************)
EXTENDS PointAddLeaf

CONSTANT NoRequest     \* between two calls nothing is asked of the leaf

ASSUME RequestAssumption == NoRequest \notin AffinePoint

Accumulator == INSTANCE AffineAccumulator WITH
  point <- proj_to_affine(acc), request <- IF Idle THEN NoRequest ELSE entry

(* Every call of a leaf is one request answered by the group sum.          *)
AddsInGroup == Accumulator!Spec
=============================================================================
