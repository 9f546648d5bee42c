-------------------------- MODULE AttestationClaim --------------------------
(***************************************************************************)
(* The resource claim of the attestation: the summary of a family that     *)
(* goes into the input, the claim derived from it (zkp_attestation.py),    *)
(* and the guest's reconstruction of both totals (lib.rs).  The names,     *)
(* schemas and digests of the documents are left out.                      *)
(***************************************************************************)
EXTENDS ResourceGraph

(* _family_proof_payload, from the row of the frontier.                    *)
FamilySummary ==
  [arithmetic_leaf |-> Published.arithmetic_leaf, per_leaf_lookup |-> Published.per_leaf_lookup,
   direct_seed |-> Published.direct_seed, full_oracle |-> Published.full_oracle,
   slots |-> family.slots.arithmetic, control |-> family.slots.control,
   borrowed |-> family.slots.borrowed * N, workspace |-> Workspace(LookupOf(family)),
   live |-> ShellOf(family).live, qubits |-> Recount.qubits]

(* The claim copies its expected totals from the summary and reckons the   *)
(* components and the reconstructed totals itself.                         *)
Claim(s) ==
  LET arithmetic == s.arithmetic_leaf * LeafCalls
      lookup     == s.per_leaf_lookup * LeafCalls
      qubits     == s.slots * 256
  IN  [field_bits |-> 256, leaf_calls |-> LeafCalls,
       full_oracle |-> s.full_oracle, qubits |-> s.qubits,
       gate_formula  |-> [arithmetic |-> arithmetic, lookup |-> lookup,
                          total |-> arithmetic + lookup + s.direct_seed],
       qubit_formula |-> [arithmetic |-> qubits,
                          total |-> qubits + s.control + s.borrowed + s.workspace + s.live]]

(* The assertions of run_prepared_attestation on claim and summary.        *)
ClaimAccepted(claim, s) ==
  LET gates  == claim.gate_formula
      qubits == claim.qubit_formula
  IN  /\ gates.arithmetic = s.arithmetic_leaf * claim.leaf_calls
      /\ gates.lookup = s.per_leaf_lookup * claim.leaf_calls
      /\ gates.total = gates.arithmetic + gates.lookup + s.direct_seed
      /\ gates.total = s.full_oracle /\ claim.full_oracle = s.full_oracle
      /\ qubits.arithmetic = claim.field_bits * s.slots
      /\ qubits.total = qubits.arithmetic + s.control + s.borrowed + s.workspace + s.live
      /\ qubits.total = s.qubits /\ claim.qubits = s.qubits
=============================================================================
