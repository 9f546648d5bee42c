----------------------------- MODULE CoreProof -----------------------------
(***************************************************************************)
(* What a caller of prove_core is promised: one answer, an error or the    *)
(* proofs of all shards of the execution in the order of their ranges.     *)
(***************************************************************************)
EXTENDS Naturals, FiniteSets

CONSTANT Shards  \* the shards of the execution, by their ranges

VARIABLES state, proofs

vars == <<state, proofs>>

Init == state = "pending" /\ proofs = << >>

(* The shards by their ranges. *)
InOrder ==
  CHOOSE seq \in [1 .. Cardinality(Shards) -> Shards] :
    \A i, j \in DOMAIN seq : i < j => seq[i] < seq[j]

Answer == state = "pending" /\ state' = "ok" /\ proofs' = InOrder
Fail == state = "pending" /\ state' = "error" /\ proofs' = << >>

Next == Answer \/ Fail

OneAnswer == Init /\ [][Next]_vars
Answered == <>(state # "pending")
Spec == OneAnswer /\ Answered
=============================================================================
