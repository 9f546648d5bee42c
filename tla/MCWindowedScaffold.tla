------------------------- MODULE MCWindowedScaffold -------------------------
(***************************************************************************)
(* Three four-bit windows a scalar, one of them left to the tail, and the  *)
(* scalars whose words are the edges of the folded domain.                 *)
(***************************************************************************)
EXTENDS WindowedScaffold

EdgeWords == {0, 1, 8, 15}
MCScalars == {s \in {x + 16 * y + 256 * z : x, y, z \in EdgeWords} : s < Order}
               \cup {Order - 1, Order \div 2}
=============================================================================
