--------------------------- MODULE IntegrityReport ---------------------------
(***************************************************************************)
(* The check groups of integrity.py over the loaded artifacts d.  A check  *)
(* that regenerates an artifact compares it with the code and the files it *)
(* is regenerated from; one that finds a value of one artifact in another  *)
(* compares what both were made from.  Checks of constants, of the netlist *)
(* alone (cleanup_pair_checks) and of the replay are left out: they hold   *)
(* of every version.                                                       *)
(***************************************************************************)
EXTENDS ArtifactFiles

IsCode(d, f)               == d[f].from = Computed(d, PartsOf(f))
IsMadeFrom(d, f, files, parts) == d[f].from = ReadFrom(d, files) \cup Computed(d, parts)
Repeats(d, f, files)       == ReadFrom(d, files) \subseteq d[f].from

CanonicalPointChecks(d) ==
  IsCode(d, "canonical_public_point") /\ Repeats(d, "table_manifests", {"canonical_public_point"})
ScheduleChecks(d)      == IsCode(d, "full_raw32_oracle")
TableManifestChecks(d) == IsCode(d, "table_manifests")
ArithmeticKernelChecks(d) ==
  /\ IsCode(d, "arithmetic_lowerings") /\ IsCode(d, "module_library")
  /\ Repeats(d, "module_library", {"arithmetic_lowerings"})
LookupLoweringChecks(d) ==
  IsCode(d, "lookup_lowerings") /\ Repeats(d, "lookup_lowerings", {ContractFile})
PhaseShellChecks(d) == IsCode(d, "phase_shell_lowerings") /\ IsCode(d, "phase_shell_families")

BlockInventoryChecks(d) ==
  /\ IsMadeFrom(d, "generated_block_inventories",
                {"full_raw32_oracle", "module_library", "arithmetic_lowerings", "lookup_lowerings",
                 "phase_shell_lowerings"}, {"circuits", "leaves"})
  /\ Repeats(d, "family_frontier", {"generated_block_inventories"})

SlotAllocationChecks(d)           == IsCode(d, "exact_leaf_slot_allocation")
LookupFedSlotAllocationChecks(d)  == IsCode(d, "lookup_fed_leaf_slot_allocation")
StreamedSlotAllocationChecks(d)   == IsCode(d, "streamed_lookup_tail_leaf_slot_allocation")

StreamedResourceChecks(d) ==
  IsMadeFrom(d, "streamed_lookup_table_multiplier_resource", {"arithmetic_lowerings", "lookup_lowerings"}, {})
QromAssessmentChecks(d) ==
  IsMadeFrom(d, "standard_qrom_lookup_assessment",
             {"family_frontier", "lookup_lowerings", "streamed_lookup_table_multiplier_resource"}, {})
ResourceLedgerChecks(d) ==
  IsMadeFrom(d, "logical_resource_ledger",
             {"family_frontier", "generated_block_inventories", "streamed_lookup_table_multiplier_resource"}, {})
ProjectionTakenFromTheAnalysis(d) == Repeats(d, "qubit_breakthrough_analysis", {"family_frontier"})
QubitBreakthroughChecks(d) ==
  IsMadeFrom(d, "qubit_breakthrough_analysis", {"family_frontier", "resource_projection"}, {})
FullAttackChecks(d) ==
  /\ IsCode(d, "full_attack_inventory")
  /\ Repeats(d, "full_attack_inventory",
             {"full_raw32_oracle", "module_library", "generated_block_inventories", "family_frontier"})
FtIrChecks(d) ==
  IsMadeFrom(d, "ft_ir_compositions",
             {"full_raw32_oracle", "arithmetic_lowerings", "lookup_lowerings", "phase_shell_lowerings",
              "generated_block_inventories", "family_frontier"}, {})
RecountChecks(d) ==
  /\ IsMadeFrom(d, "whole_oracle_recount", {"ft_ir_compositions"}, {})
  /\ Repeats(d, "whole_oracle_recount", {"family_frontier"})
SubcircuitChecks(d) ==
  IsMadeFrom(d, "subcircuit_equivalence",
             {"arithmetic_lowerings", "lookup_lowerings", "generated_block_inventories",
              "family_frontier", "full_attack_inventory"}, {"circuits", "leaves"})
PrimitiveMultiplierChecks(d) ==
  /\ IsCode(d, "primitive_multiplier_library")
  /\ Repeats(d, "primitive_multiplier_library", {"full_raw32_oracle", "module_library", "arithmetic_lowerings"})

(* The frontier is checked row by row, not against its generator.          *)
FrontierChecks(d) ==
  IsMadeFrom(d, "family_frontier",
             {"full_raw32_oracle", "exact_leaf_slot_allocation", "module_library",
              "generated_block_inventories", "whole_oracle_recount"}, Compiled)
BuildSummaryChecks(d)  == IsMadeFrom(d, "build_summary", {"family_frontier"}, {})
CainTransferChecks(d)  == IsMadeFrom(d, "cain_exact_transfer", {"family_frontier"}, {})
AzureSeedChecks(d)     == IsMadeFrom(d, Counts, {"family_frontier"}, {})
EstimatorTargetChecks(d) == IsMadeFrom(d, Targets, {Counts}, {})
EstimatorResultChecks(d) == d[Results].from = EstimatorResults(d)

AllChecksPass(d) ==
  /\ CanonicalPointChecks(d) /\ ScheduleChecks(d) /\ TableManifestChecks(d) /\ ArithmeticKernelChecks(d)
  /\ LookupLoweringChecks(d) /\ PhaseShellChecks(d) /\ BlockInventoryChecks(d)
  /\ SlotAllocationChecks(d) /\ LookupFedSlotAllocationChecks(d) /\ StreamedSlotAllocationChecks(d)
  /\ StreamedResourceChecks(d) /\ QromAssessmentChecks(d) /\ ResourceLedgerChecks(d)
  /\ QubitBreakthroughChecks(d) /\ FullAttackChecks(d) /\ FtIrChecks(d) /\ RecountChecks(d)
  /\ SubcircuitChecks(d) /\ PrimitiveMultiplierChecks(d) /\ FrontierChecks(d) /\ BuildSummaryChecks(d)
  /\ CainTransferChecks(d) /\ AzureSeedChecks(d) /\ EstimatorTargetChecks(d) /\ EstimatorResultChecks(d)
=============================================================================
