---------------------------- MODULE ArtifactFiles ----------------------------
(***************************************************************************)
(* The generated files of the repository, the order in which a step of a   *)
(* command writes them, and what each is computed from.  A file holds the  *)
(* versions of the sources its content was made from: two contents of one  *)
(* file are equal exactly when these are.                                  *)
(***************************************************************************)
EXTENDS Naturals, Sequences, FiniteSets, SequencesExt

VARIABLES source,     \* the version of every part of the sources
          qsharp,     \* can qsharp.estimator be imported?
          disk        \* the generated files

(* circuits: the leaf and scaffold netlists; leaves: lookup_fed_leaf.py;   *)
(* leaf_text: what it writes that no other file repeats; lowering: the     *)
(* lowering libraries and what is counted over them; contract: the folded  *)
(* lookup contract of lookup_research.py.                                  *)
Parts    == {"circuits", "leaves", "leaf_text", "lowering", "contract"}
Compiled == Parts \ {"leaf_text"}

Whole(stamps) == [is |-> "whole", from |-> stamps]
Absent        == [is |-> "absent", from |-> {}]
Torn          == [is |-> "torn", from |-> {}]      \* dump_json truncates, then writes
IsWhole(d, f) == d[f].is = "whole"
-----------------------------------------------------------------------------
(* Everything build_all_artifacts has made before it writes the first file, *)
(* in the order in which it writes them.                                   *)
Payloads ==
  <<"canonical_public_point", "full_raw32_oracle", "exact_leaf_slot_allocation", "lookup_fed_leaf",
    "lookup_fed_leaf_equivalence", "lookup_fed_leaf_slot_allocation", "streamed_lookup_tail_leaf",
    "streamed_lookup_tail_leaf_equivalence", "streamed_lookup_tail_leaf_slot_allocation",
    "arithmetic_lowerings", "streamed_lookup_table_multiplier_resource", "module_library",
    "primitive_multiplier_library", "phase_shell_lowerings", "phase_shell_families", "table_manifests",
    "lookup_lowerings", "generated_block_inventories", "ft_ir_compositions", "whole_oracle_recount",
    "family_frontier", "standard_qrom_lookup_assessment", "logical_resource_ledger",
    "qubit_breakthrough_analysis", "full_attack_inventory", "subcircuit_equivalence">>
Counts  == "azure_resource_estimator_logical_counts"
Targets == "azure_resource_estimator_targets"
Results == "azure_resource_estimator_results"
BuildOrder == Payloads \o <<Counts, Targets, Results, "build_summary">>

Required == ToSet(BuildOrder) \cup {"cain_exact_transfer"}      \* load_compiler_artifacts

ContractFile   == "lookup_signed_fold_contract"
FoldedScaffold == "ecdlp_scaffold_lookup_folded"

ProjectionOrder ==                                              \* write_resource_projection
  <<"ecdlp_expanded_isa_optimized", "structural_accounting", "backend_model_bundle", "resource_projection">>
AuditOrder ==                                                   \* build_extended_summary
  <<"lookup_signed_fold_summary", "lookup_contract_summary", "claim_boundary_matrix">>
ResearchOrder ==                                                \* run_research_pass
  <<"dominant_cost_breakdown", ContractFile, FoldedScaffold, "lookup_signed_fold_summary",
    "lookup_folded_projection", "literature_projection_scenarios", "optimization_frontier_estimates",
    "research_pass_summary">>

Summarised == {"build_summary", "verification_summary", "family_frontier", "cain_exact_transfer",
               Targets, Results}
Drawn == {"resource_projection", "repo_verification_summary", "optimization_frontier_estimates",
          "dominant_cost_breakdown", "lookup_folded_projection"}

Files == Required \cup ToSet(ProjectionOrder) \cup ToSet(AuditOrder) \cup ToSet(ResearchOrder) \cup
  {"verifier_rebuild_summary", "zkp_attestation_input", "verification_summary",
   "repo_verification_summary", "cain_2026_integration_summary", "figures"}
-----------------------------------------------------------------------------
(* The parts of the sources a payload of the build is computed from.       *)
PartsOf(f) ==
  CASE f \in {"canonical_public_point", "full_raw32_oracle", "table_manifests"} -> {"circuits"}
    [] f \in {"exact_leaf_slot_allocation", "lookup_fed_leaf_slot_allocation",
              "streamed_lookup_tail_leaf_slot_allocation"} -> {"circuits", "leaves"}
    [] f \in {"lookup_fed_leaf", "lookup_fed_leaf_equivalence", "streamed_lookup_tail_leaf",
              "streamed_lookup_tail_leaf_equivalence"} -> {"circuits", "leaves", "leaf_text"}
    [] f \in {"arithmetic_lowerings", "module_library", "primitive_multiplier_library"}
         -> {"circuits", "leaves", "lowering"}
    [] f \in {"phase_shell_lowerings", "phase_shell_families"} -> {"lowering"}
    [] f = "lookup_lowerings" -> {"lowering", "contract"}
    [] OTHER -> Compiled

Stamp(part) == <<part, source[part]>>
ReadFrom(d, files) == UNION {d[f].from : f \in files}

(* The contract is the file; its definition in the code only without it.   *)
LookupContract(d) ==
  IF d[ContractFile].is = "absent" THEN {Stamp("contract")} ELSE d[ContractFile].from
Computed(d, parts) ==
  {Stamp(p) : p \in parts \ {"contract"}} \cup (IF "contract" \in parts THEN LookupContract(d) ELSE {})

(* Without the estimator the recorded results are their own source.        *)
EstimatorResults(d) == IF qsharp THEN ReadFrom(d, {Counts, Targets}) ELSE d[Results].from
=============================================================================
