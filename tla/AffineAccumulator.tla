------------------------- MODULE AffineAccumulator -------------------------
(***************************************************************************)
(* What a point-addition leaf promises its caller: a request names a table *)
(* entry, and completing it replaces the accumulator by its sum with that  *)
(* entry in the curve group.  Nothing else about the leaf is visible.      *)
(***************************************************************************)
EXTENDS Curve

CONSTANT NoRequest

VARIABLES point, request

Init == point \in AffinePoint /\ request = NoRequest

Request(t) ==
  /\ request = NoRequest
  /\ request' = t
  /\ UNCHANGED point

Complete ==
  /\ request # NoRequest
  /\ point' = add_affine(point, request)
  /\ request' = NoRequest

Next == Complete \/ \E t \in AffinePoint : Request(t)

Spec == Init /\ [][Next]_<<point, request>>
=============================================================================
