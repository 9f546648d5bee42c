------------------------------ MODULE Lowering ------------------------------
(***************************************************************************)
(* What the compiler project charges for an opcode of the leaf, for a      *)
(* table lookup and for the phase shell (arithmetic_lowering.py,           *)
(* lookup_lowering.py, phase_shell_lowering.py).  A kernel is a sequence   *)
(* of stages, a stage a sequence of blocks.  Of a block's operation list   *)
(* only the number of gates of each kind is kept; cx and x are never       *)
(* emitted at this layer and are left out.                                 *)
(***************************************************************************)
EXTENDS Integers, Sequences, FiniteSets, SequencesExt

CONSTANTS FieldBits,       \* FIELD_BITS, the width of a field register
          MagnitudeBits,   \* magnitude bits of a folded table address
          PhaseBits        \* FULL_PHASE_REGISTER_BITS

ASSUME LoweringAssumption ==
  /\ FieldBits \in Nat /\ FieldBits > 1
  /\ MagnitudeBits = 15          \* the splits of the banked families add up to it
  /\ PhaseBits \in Nat /\ PhaseBits > 1

N == FieldBits
Domain == 2 ^ MagnitudeBits

(* A block stands for inst equal instances; the totals are counted over    *)
(* the operations and the counts per instance are their integer quotient.  *)
Block(name, inst, ccx, meas) ==
  [name |-> name, inst |-> inst, ccx |-> ccx, meas |-> meas,
   ccxEach |-> ccx \div inst, measEach |-> meas \div inst]

(* times ladders of one temporary AND per bit, each measured.              *)
Ladder(name, times, bits) == Block(name, times * bits, times * bits, times * bits)

Stage(name, category, blocks) ==
  [name |-> <<name>>, category |-> category, blocks |-> blocks]

(* Fault: the stages of a macro keep the names of the kernel they come from. *)
PrefixedNot(prefix, stages) == stages
Prefixed(prefix, stages) ==
  [i \in DOMAIN stages |-> [stages[i] EXCEPT !.name = <<prefix>> \o @]]

BlocksOf(stages) == FlattenSeq([i \in DOMAIN stages |-> stages[i].blocks])
Total(field, blocks) == FoldLeft(LAMBDA n, b : n + b[field], 0, blocks)
StageTotal(field, stages) == Total(field, BlocksOf(stages))
-----------------------------------------------------------------------------
(***************************************************************************)
(* The arithmetic kernels.                                                 *)
(***************************************************************************)
FieldAdd == <<Stage("carry_resolution", "adder",
                    <<Ladder("temporary_and_carry_ladder", 1, N - 1)>>)>>
FieldSub == <<Stage("borrow_resolution", "subtractor",
                    <<Ladder("temporary_and_borrow_ladder", 1, N - 1)>>)>>
FieldSelect == <<Stage("controlled_move", "select",
                       <<Block("bitwise_control_ladder", N - 1, N - 1, 0)>>)>>
FieldSubSum == <<Stage("borrow_resolution_pair", "subtractor",
                       <<Ladder("two_borrow_ladders", 2, N - 1)>>)>>
FieldTriple == <<Stage("carry_resolution_pair", "adder",
                       <<Ladder("two_carry_ladders", 2, N - 1)>>)>>

FieldMul ==
  <<Stage("partial_products", "schoolbook_grid", <<Block("partial_product_grid", N * N, N * N, 0)>>),
    Stage("controlled_add_path", "controlled_add", <<Ladder("controlled_add_accumulator", 1, N - 1)>>),
    Stage("controlled_sub_path", "controlled_subtract", <<Ladder("controlled_sub_accumulator", 1, N)>>)>>

(* Breadth-first search for the shortest monotone chain.  A chain is        *)
(* extended by its last element plus one of its own, the latest first, so  *)
(* that the search meets the lexicographically largest one of them first.  *)
Extensions(chain, target) ==
  {c \in {Append(chain, Last(chain) + chain[i]) : i \in DOMAIN chain} : Last(c) <= target}
Before(c, d) ==
  \E i \in DOMAIN c : c[i] > d[i] /\ \A j \in 1 .. i - 1 : c[j] = d[j]
MinimalAdditionChain(target) ==
  LET level[d \in Nat] ==
        IF d = 0 THEN {<<1>>} ELSE UNION {Extensions(c, target) : c \in level[d - 1]}
      found(d) == {c \in level[d] : Last(c) = target}
      depth == CHOOSE d \in 0 .. target : found(d) # {} /\ \A e \in 0 .. d - 1 : found(e) = {}
  IN  CHOOSE c \in found(depth) : \A d \in found(depth) \ {c} : Before(c, d)

Chain21 == MinimalAdditionChain(21)

MulConst ==
  <<Stage("addition_chain", "mul_const",
          [i \in 1 .. Len(Chain21) - 1 |->
             Block("to_" \o ToString(Chain21[i + 1]), 1, N - 1, N - 1)])>>

(* One coordinate of the table streamed through a standard QROAM of block  *)
(* size k: lookup and measured cleanup, k registers of N qubits.           *)
Blocks(k) == (Domain + k - 1) \div k
StreamCost(k) == [compute   |-> Blocks(k) + (k - 1) * N,
                  uncompute |-> Blocks(k) + (k - 1),
                  qubits    |-> k * N]

DataSelect(source, k) ==
  LET compute   == StreamCost(k).compute
      uncompute == StreamCost(k).uncompute
  IN  Stage(source, "streamed_lookup_data_select",
            <<Block("standard_qroam_compute", 1, compute, 0),
              Block("standard_qroam_measured_uncompute", 1, uncompute, uncompute)>>)

StreamedMul(source, k) == <<DataSelect(source, k)>> \o FieldMul
-----------------------------------------------------------------------------
(***************************************************************************)
(* The complete-add tails: macros that hold their products and combines    *)
(* inside, so that no intermediate value is a register of the leaf.        *)
(***************************************************************************)
(* The tails repeat the length of the chain as a number.                   *)
(* Fault: a chain of five steps. *)
Chain21StepsFive == 5
Chain21Steps == 6

StreamedTail(k) ==
  Prefixed("tail_i", StreamedMul("lookup_y", k))
  \o <<Stage("tail_derive_k_l", "tail_combine",
             <<Ladder("derive_k_borrow_ladders", 2, N - 1),
               Ladder("derive_l_carry_ladders", 2, N - 1)>>)>>
  \o Prefixed("tail_yz", StreamedMul("lookup_y", k))
  \o <<Stage("tail_fixed_21z", "mul_const", <<Ladder("fixed_21z_chain", Chain21Steps, N - 1)>>),
       Stage("tail_internal_combines", "tail_combine",
             <<Ladder("three_internal_combine_ladders", 3, N - 1)>>),
       Stage("tail_partial_products", "schoolbook_grid",
             <<Block("six_partial_product_grids", 6 * N * N, 6 * N * N, 0)>>),
       Stage("tail_controlled_add_path", "controlled_add",
             <<Ladder("six_controlled_add_accumulators", 6, N - 1)>>),
       Stage("tail_controlled_sub_path", "controlled_subtract",
             <<Ladder("six_controlled_sub_accumulators", 6, N)>>),
       Stage("tail_output_combine", "tail_combine",
             <<Ladder("three_output_combine_ladders", 3, N - 1)>>)>>

FullyStreamedTail(k) ==
  Prefixed("tail_a", StreamedMul("lookup_x", k))
  \o Prefixed("tail_zx", StreamedMul("lookup_x", k))
  \o <<Stage("tail_derive_c", "tail_combine",
             <<Ladder("derive_c_input_carry_ladder", 1, N - 1),
               Ladder("derive_c_fixed_21_chain", Chain21Steps, N - 1)>>)>>
  \o Prefixed("fully_streamed", StreamedTail(k))

AllStreamedTail(k) ==
  <<Stage("tail_derive_g", "tail_combine", <<Ladder("derive_g_carry_ladder", 1, N - 1)>>)>>
  \o Prefixed("tail_h", StreamedMul("lookup_x_plus_y", k))
  \o Prefixed("all_streamed", FullyStreamedTail(k))

(* arithmetic_lowering_library for QROAM block size k.                     *)
Kernels(k) ==
  [field_mul |-> FieldMul,
   field_mul_lookup_x |-> StreamedMul("lookup_x", k),
   field_mul_lookup_y |-> StreamedMul("lookup_y", k),
   field_mul_lookup_sum |-> StreamedMul("lookup_x_plus_y", k),
   field_add |-> FieldAdd, field_sub |-> FieldSub,
   field_sub_sum |-> FieldSubSum, field_triple |-> FieldTriple,
   complete_a0_streamed_tail |-> StreamedTail(k),
   complete_a0_fully_streamed_tail |-> FullyStreamedTail(k),
   complete_a0_all_streamed_tail |-> AllStreamedTail(k),
   mul_const |-> MulConst, select_field_if_flag |-> FieldSelect]
KernelOrder ==
  <<"field_mul", "field_mul_lookup_x", "field_mul_lookup_y", "field_mul_lookup_sum", "field_add",
    "field_sub", "field_sub_sum", "field_triple", "complete_a0_streamed_tail",
    "complete_a0_fully_streamed_tail", "complete_a0_all_streamed_tail", "mul_const",
    "select_field_if_flag">>
Opcodes == ToSet(KernelOrder)

(* Instructions of a leaf that have a kernel, and what a leaf costs.       *)
Histogram(leaf) ==
  [op \in Opcodes |-> Len(SelectSeq(leaf, LAMBDA ins : ins.op = op))]
LeafNonClifford(hist, k) ==
  MapThenSumSet(LAMBDA op : hist[op] * StageTotal("ccx", Kernels(k)[op]), Opcodes)
-----------------------------------------------------------------------------
(***************************************************************************)
(* The lookup families.  Each classifies the folded word, looks the point  *)
(* up, cleans up and negates y; they differ in the two stages between.     *)
(***************************************************************************)
OnePerEntry(name, n) == Block(name, n, n, 0)          \* one gate per entry
Measured(name, n) == Block(name, n, n, n)            \* and a measurement

LookupStage(name, category, blocks, local) ==
  [name |-> <<name>>, category |-> category, blocks |-> blocks, local |-> local]

ClassificationStage ==
  LookupStage("folded_word_classification", "classification",
    <<Block("magnitude_all_zero_tree", 1, MagnitudeBits - 1, MagnitudeBits - 1),
      Block("signed_absolute_value_prepare", 2, 2 * (MagnitudeBits - 1), 2 * (MagnitudeBits - 1))>>,
    MagnitudeBits - 2)
NegationStage ==
  LookupStage("conditional_y_negation", "post_lookup_fixup",
    <<Block("conditional_field_negation", 1, N - 1, 0)>>, 0)

LookupFamily(latch, compute, computeLocal, uncompute, uncomputeLocal) ==
  [persistent |-> MagnitudeBits + 3 + latch,
   stages |-> <<ClassificationStage,
                LookupStage("lookup_compute", "lookup_compute", compute, computeLocal),
                LookupStage("lookup_uncompute", "lookup_uncompute", uncompute, uncomputeLocal),
                NegationStage>>]

LinearScan ==
  LET scan == Domain * (MagnitudeBits - 1)
  IN  LookupFamily(0, <<Block("magnitude_equality_scan", Domain, scan, scan)>>,
                   MagnitudeBits - 2, << >>, 0)

(* Every coordinate stream is charged to the kernel that consumes it.      *)
StandardQroam(k) == LookupFamily(0, << >>, StreamCost(k).qubits, << >>, StreamCost(k).qubits)

Banked(split, latch) ==
  LET size(i) == 2 ^ split[i]
      local   == FoldLeft(LAMBDA n, b : n + 2 ^ b, 0, split)
  IN  LookupFamily(latch,
        [i \in DOMAIN split |-> OnePerEntry("decode_" \o ToString(i), size(i) - 1)], local,
        [i \in DOMAIN split |-> Measured("uncompute_" \o ToString(i), size(i) - 1)], local)

Unary ==
  LookupFamily(0, <<OnePerEntry("unary_address_decode", Domain - 1)>>, Domain,
               <<OnePerEntry("unary_address_uncompute", Domain - 1)>>, Domain)
UnaryMeasured ==
  LookupFamily(0, <<OnePerEntry("unary_address_decode", Domain - 1)>>, Domain,
               <<Measured("coarse_bucket_measured_uncompute", 2 ^ 8),
                 Measured("fine_tree_measured_uncompute", 2 ^ 7 - 1)>>, 2 ^ 8)

(* lookup_lowering_library, the streamed family at block size k.           *)
Lookups(k) ==
  [linear_scan |-> LinearScan, standard_qroam |-> StandardQroam(k),
   banked |-> Banked(<<7, 8>>, 0), hierarchical_banked |-> Banked(<<3, 4, 4, 4>>, 0),
   bitwise_banked |-> Banked([i \in 1 .. MagnitudeBits |-> 1], 1),
   unary |-> Unary, unary_measured |-> UnaryMeasured]

Workspace(family) ==
  family.persistent + Max({family.stages[i].local : i \in DOMAIN family.stages})
-----------------------------------------------------------------------------
(***************************************************************************)
(* The phase shells, blocks of [gate kind |-> count].                      *)
(***************************************************************************)
PhaseGate == {"hadamard", "measurement", "single_qubit_rotation", "controlled_rotation"}

PhaseBlock(name, inst, gate, count) ==
  [name |-> name, inst |-> inst, gate |-> gate, count |-> count, each |-> count \div inst]

Terminal == <<PhaseBlock("terminal_hadamards", PhaseBits, "hadamard", PhaseBits),
              PhaseBlock("terminal_measurements", PhaseBits, "measurement", PhaseBits)>>

(* One controlled rotation for every pair of phase bits, all bits live.    *)
FullPhaseRegister ==
  LET pairs == (PhaseBits * (PhaseBits - 1)) \div 2
  IN  [live |-> PhaseBits,
       blocks |-> <<PhaseBlock("controlled_dyadic_rotations", pairs, "controlled_rotation",
                      Cardinality({p \in (0 .. PhaseBits - 1) \X (0 .. PhaseBits - 1) : p[2] > p[1]}))>>
                 \o Terminal]
(* One rotation for every bit but the first, one qubit reused.             *)
Semiclassical ==
  [live |-> 1,
   blocks |-> <<PhaseBlock("aggregated_classical_phase_updates", PhaseBits - 1,
                  "single_qubit_rotation", PhaseBits - 1)>> \o Terminal]

Shells == [full_phase_register |-> FullPhaseRegister, semiclassical_qft |-> Semiclassical]

RotationGates == {"single_qubit_rotation", "controlled_rotation"}
PhaseCount(shell, gates) ==
  FoldLeft(LAMBDA n, b : n + IF b.gate \in gates THEN b.count ELSE 0, 0, shell.blocks)
Hadamards(shell) == PhaseCount(shell, {"hadamard"})
PhaseMeasurements(shell) == PhaseCount(shell, {"measurement"})
Rotations(shell) == PhaseCount(shell, RotationGates)
RotationDepth(shell) == PhaseCount(shell, RotationGates)
=============================================================================
