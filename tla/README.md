# Verification of secp256k1-quantum-circuits

TLA+ models of the parts of this repository whose correctness depends on an
order of steps or on two computations of one number: the leaf interpreter and
its register reuse, the allocator and the scheduler that put values on slots,
the windowed scaffold around the leaf, the counts of gates and qubits that are
lowered, walked and multiplied out, the core-only prover, the attestation
guest and host, and the commands that generate and check the files of the
repository.
TLC checks them on small instances (the counts at their published sizes);
TLAPS proves the central theorems for every instance.

    tlc -workers 2 -config MCPointAddLeaf.cfg MCPointAddLeaf
    tlapm PointAddLeafProofs.tla      (and the six other *Proofs modules)

Paths below are relative to `src/`, the repository; `compiler/` stands for
`compiler_verification_project/`.

## 1. The system

The repository describes a reversible circuit for [a]G + [b]H on secp256k1,
executes it classically to check it, counts its resources, and attests to the
counts in a zero-knowledge proof.

| Component | Code | State | Operations |
|---|---|---|---|
| Curve arithmetic | `src/common.py` | none | affine law, complete formulas, tables, deterministic scalars |
| Leaf interpreter | `src/verifier.py`, `compiler/src/lookup_fed_leaf.py` | register file, program counter | load, look up, multiply, add, subtract, select, extract and clear a flag |
| Slot allocator | `compiler/src/project.py` `_slot_allocation_for_leaf` | live versions, slots, free lists | write, hand over, release |
| Scaffold and lookups | `extended_verifier.py`, `lookup_research.py`, `project.py` raw-32 check, `derived_resources.py` | accumulator | seed, leaf call, tail, compare |
| Schedule optimizer | `src/leaf_schedule_optimizer.py` | partial order, memo, mapping | place, back up, name, rename |
| Core-only prover | `zkp_attestation/script/src/core_only.rs` | tasks, artifacts, messages | upload, execute, prove a shard, defer, collect |
| Attestation host | `main.rs`, `wrap_only.rs` | files | execute, prove, resume, verify |
| Attestation guest | `zkp_attestation/lib/src/lib.rs` | none across runs | replay the leaf over cases, check claims, commit |
| Attestation input | `compiler/src/zkp_attestation.py` | none | compile the leaf and its cases |
| Guarded runner | `run_zkp_attestation_guarded.py` | one child process | layer the environment, run under systemd |
| Refresh and verify scripts | `refresh_repo.py`, `verify_all.py`, `compare_cain_2026.py`, `build.py`, `verify.py`, `maintenance.py` | generated files, manifests | rebuild in a fixed order, check, hash |
| Test runner | `run_tests.py`, `tests/support.py` | groups, prepared artifacts | prewarm, partition, run in parallel |
| Lowering | `arithmetic_lowering.py`, `lookup_lowering.py`, `phase_shell_lowering.py` | none | stages of counted blocks of gates |
| FT-IR, recounts | `generated_block_inventory.py`, `ft_ir.py`, `whole_oracle_recount.py`, `resource_ledger.py` | the walk's stack | multiply out, build the call graph, walk it, sweep block sizes |
| Operation stream | `materialized_circuit.py` | none | emit the gates of a family one by one |
| Subcircuit witnesses | `subcircuit_equivalence.py` | none | replay blocks on bits |
| Integrity checks | `integrity.py`, `extended_verifier.py` | none | predicates over finished artifacts |
| Resource models | `derived_resources.py`, `research_extensions.py`, `physical_estimator.py`, ... | none | closed formulas |
| Figures; gnark bindings | `figure_generation.py`; `vendor/` | none | layout; third-party |

How they interact. The audits call the leaf interpreter, which the guest repeats; the
scaffold calls it once per window and never looks inside. The lookup-fed and
streamed leaves are derived from the base netlist; allocator, lowering and
FT-IR read those, and the build writes what they return, one file after
another, for the integrity checks to regenerate and compare. The host gives the compiled input to the core prover or to
SP1 and leaves files for a later run of itself. The refresh scripts run
everything and hash the result.

What is hard. *Register reuse*: seven registers hold 37 instructions' values,
and an order that loses one is right for most operands. *Neutral entries and
special points*: the formulas must cover doubling, inverses and infinity.
*Slots handed over while being written*, in the order of a Python set.
*Memoised search*. *Concurrent proving*: three services, a task per deferred
upload, a collector, and errors anywhere. *Killed runs*: files are written in
place, one after another, and the README itself expects `oom-kill`. *One
number computed three ways*: gates summed per kernel, per call graph and per
inventory, with macros that repeat a cost by hand. *Generated files over one
working tree*: each is made from others, some commands read what a later step
writes, and tests run beside each other over the same files.

What makes each right: the leaf adds in the group and clears its flag; no slot
is written while it is read; each word of both scalars counts once; a plan
keeps every value to its last reader; the counts of one family agree however
they are computed; a call answers once, with everything or an error; a resumed
run finds what it needs; a passing verification vouches for the files it read. `PROJECT.json` lists the hazards
by line with the property that covers each, or why none does.

## 2. The models

**Curve, AffineAccumulator, PointAddLeaf, LeafRefinement** (`common.py`, `verifier.py`,
`lookup_fed_leaf.py`). `Curve` holds the pure functions, parameterised by the
prime and by b. `PointAddLeaf` has one action per opcode over the register
file `env`, with `CallLeaf` and `Return` around them; `caller` tells the audit
that renormalises the accumulator between calls from the flat replay that does
not. The netlists are the artifact's instructions; the lookup-fed one is
derived by the code's order and substitutions. A read of a register never
written enables nothing, as the interpreter raises. `AffineAccumulator` is
what a leaf promises: a request is answered by the group sum. `LeafRefinement`
instantiates it, reading the accumulator back to affine form, and its
`AddsInGroup` states that the leaf implements it.

**AttestationGuest, AttestationClaim** (`zkp_attestation.py`, `lib.rs`). The
guest has no state of its own between cases, so it is a set of functions over
one call of `PointAddLeaf`: `Code` and `Compiles` are the two compilers (the
Rust one knows fewer opcodes and never skips), `execute_leaf` the guest's
interpreter over a zeroed register file, `add_affine_projective` its own group
law, which divides by nothing, and `CasePasses` the two assertions on a case.
Register numbers stay names. `AttestationClaim` derives summary and claim from
the row `ResourceGraph` publishes, and has the guest reconstruct both totals;
`MCResources` composes the two.

**SlotAllocator** (`project.py`). One action per way a version gets its slot
(`TakeOver`, `TakeFree`, `TakeNext`), per release, and per advance of the
loop. Which dying slot is handed over is left open, since the code takes them
from a Python set. A version is `<<instruction, destination>>`.

**WindowedScaffold**. One action per stage step of the three replays: the
scaffold audit, the raw-32 check and the flat program with the folded signed
lookup. Points are multiples of G, so the affine law is addition modulo the
order; `PointAddLeaf` is why a leaf call may be taken as that. Doubling
ladders, window tables and the folded table are computed as the code does.

**LeafScheduler**. The two depth-first searches, with their memo as state:
`Place`/`Backtrack` and `Name`/`Rename`. `Facts(leaf)` is what the code
extracts before searching. An operand keeps its position among the registers an
instruction reads, and names are tried by position: dying operands, then free
slots. `Reached` and `Assigned` are both searches without memo and without
choice, what `SearchIsExact` compares with. The exported `assign_slot_names` is part of it; the
replay of a fixed order and the rewriting of a netlist are not.

**CoreProof, CoreProver** (`core_only.rs`). `CoreProof` promises one answer:
an error, or all shards in order. `CoreProver` has the call (`Prepare`,
`Submit`, `WaitExecutor`, `Receive`, `Collect`, `Sort`, `Return`), the
CoreExecute service with SP1's controller, the ProveShard service step by
step, and the spawned task of each core shard that uploads deferred events and
completes a marker. Every fallible step may fail. The controller and the
worker client are no part of the repository: they are modelled from the
messages and artifacts exchanged, and marked external. A memory shard takes
the path of a precompile shard without slices. The worker client is assumed to
accept every status and `wait_task` to return on any final one.

**AttestationHost** (`main.rs`, `wrap_only.rs`). A series of runs over one
output directory and one directory of development artifacts. Each write is two
steps, truncate and fill, and `Kill` may come between any two, so a file may
be torn. A proof records its input, run, way and Groth16 key. `EnsureBuildDir`
writes the five files in the order of the vendored build. Plonk (plain Groth16
under other names), `--groth16-verify-dir`, resource profiles and SP1's own
development mode are left out; an error of SP1 itself is a `Kill`.

**Lowering, ResourceGraph, ResourceLedger** (`arithmetic_lowering.py`,
`lookup_lowering.py`, `phase_shell_lowering.py`, `generated_block_inventory.py`,
`ft_ir.py`, `whole_oracle_recount.py`, `resource_ledger.py`,
`materialized_circuit.py`, the frontier's rows in `project.py`). `Lowering`
gives every kernel, lookup family and phase shell as stages of blocks, a block
as its gates and the number of its instances; widths, word sizes and the leaf's
opcode histogram are constants. `ResourceGraph` multiplies the blocks out into
an inventory, builds the call graph of a family, and is the machine that walks
it: `Descend`, `Emit`, `Return` over an explicit stack. `ResourceLedger` sums
the streams of a streamed family and moves the totals along the sweep of block
sizes; `MCResources` rebuilds every row of that sweep by lowering again.

**ArtifactFiles, IntegrityReport, ArtifactPipeline** (`project.py`
`build_all_artifacts`, `integrity.py`, `derived_resources.py`,
`research_extensions.py`, `lookup_research.py`, the scripts, `maintenance.py`,
`tests/support.py`). A generated file is the set of source versions its content
was made from, absent, or torn: two contents are equal exactly when these are.
The sources have five parts, told apart by which files depend on them.
`ArtifactFiles` has the orders in which steps write and what a payload is
computed from; `IntegrityReport` the groups of checks, each as what it
compares; `ArtifactPipeline` the commands as sequences of steps, one action per
step that writes (`Perform`, or `Raise` when something it reads is missing),
the two decisions taken on what exists (`Load`, `CompareCain`), both manifests,
and the test run: parallel groups in which the research test truncates and
rewrites files one by one while other tests ask for summaries, or one test
after the other, each starting the command that makes what it asks for. Around
them a user edits a part of the sources or deletes a file, and a command is
killed between two writes or inside one. Left out: the netlists' own audits and
the literature and challenge-ladder files, which depend on nothing generated;
the files only `extended_verifier.py`'s own `main` writes; what a test asserts.
A test process asks for a summary once, as `_prepared_targets` remembers.

Each module carries, beside the definitions that `map` ties to lines, a few
that no action uses (in the older modules marked `Fault:`). They are plausible bugs, and each shows that a
property would notice it.

## 3. The runs

| Run | What it asks | Bounds, and why they are enough | Distinct states |
|---|---|---|---|
| `leaf` | Does any sequence of calls of the three leaves add in the group, with the flag uncomputed and the reference's coordinates? | p = 13, b = 7: seven points, so every pair, doubling, inverse and infinity occurs, and the flat replay reaches every projective form earlier calls leave | 19 584 |
| `slots` | Is a slot ever written while read? Are the published counts right? | both leaves the project counts, and every leaf of four instructions with two reads and up to two writes: long enough for hand-over, release, reuse and leak | 162 755 |
| `scaffold` | Does every word count once? Do the audits pass? | three 4-bit windows, one in the tail, order 4093; edge words 0, 1, 8, 15 in each place | 245 050 |
| `scheduler` | Does the search give up only when it must? Does a plan keep operands? | the checked leaf and both skeletons at 7 and 8 slots; the empty body and every three-instruction body over three registers at 2 and 3 | 21 452 |
| `core_prover` | Does a call answer once, with everything or an error, and does it always? | two core and two precompile shards: enough for shared slices, late markers, two uploads and a failure of either; all interleavings | 1 040 290 |
| `host` | After kills anywhere, does a retry succeed, and does the fixture vouch for the key? | four runs: compress, build, interrupt, retry; two inputs | 2 400 077 |
| `resources` | Do inventory, call graph and recount count the same, and is the ledger's sweep what lowering again would give? | 16 families at the shipped sizes: the published leaf with every lookup family and phase shell, and the base leaf with two slot counts; the 64 rows of the published family's sweep | 3 258 |
| `pipeline` | What does a passing verification vouch for, when does a refresh fail or settle, what do manifests record, what may parallel tests change? | two of the seven commands, one edit, one fault (see `MCArtifactPipeline`): enough for a killed or partial command and the one that meets its remains, and for an edit with the two refreshes that settle it | 760 302 |
| `operation_stream` | Does the published operation stream hold the gates the family is counted for? | violated, see 6 | stops at the violation |
| `exact_slots` | Are the slot counts exact, as published? | violated, see 6 | stops at the violation |
| `planned_outputs` | Does a plan keep the outputs? | violated, see 6 | stops at the violation |
| `finished_bundles` | Does a finished bundle verify? | violated, see 6 | stops at the violation |

The properties, beyond one `TypeOK` per module:

* `leaf`: `LeafComputesMixedAdd` (register reuse loses no value),
  `MatchesReference` (coordinate for coordinate), `FlagUncomputed`,
  `AddsInGroup` (the refinement: an accumulator off the curve, or at (0,0,0),
  which absorbs every later entry, would break it at the next call),
  `GuestAcceptsOnlyTheResult` (for every call from an affine accumulator the
  guest leaves the same triple, and of all expected points accepts one).
* `slots`: `SlotsHoldVersions`, `LiveSlotsApart` (the code's assertions),
  `BudgetCoversPeak`, `OutputsSurvive` and `FlagClearedInPlace` (reads the
  allocator does not count), `ShippedCounts`.
* `scaffold`: `RunningSum` after every call, `AuditPasses`,
  `FoldedAuditVerdict`.
* `scheduler`: `SearchIsExact` against a search without memo,
  `VerdictHoldsOutputs`, `OperandsHeld`, `OrdersCanBeNamed`.
* `core_prover`: `TasksFindTheirInputs`, `OneWholeAnswer` (refinement of
  `CoreProof`), `EveryCallAnswers` (liveness).
* `host`: `WrapIsCached`, `FixtureVouchesForKey`,
  `RetriesFailOnlyOnTornFiles`.

* `resources`: `CountsAgree` (walk, inventory, published shares, and the
  guest's reconstruction of the claim),
  `EveryPartOnce` (every node is reached, every leaf by one path),
  `MacroIsItsKernels` (the tail macro costs what the kernels it replaces do),
  `LedgerIsARebuild` (each row of the sweep is what lowering again counts).
* `pipeline`: `VerdictVouches` (a passing summary means that every artifact is
  what the code makes now, with the exceptions named in it),
  `RefreshFailsIffWedged`, `RefreshSettles` (after one refresh, but for what
  derives from the projection; after two, entirely), `ManifestsRecordTheDisk`,
  `ParallelTestsRebuildNothing`, `LostResultsStayLost`.

Deadlock is checked in every run but `host`, `finished_bundles` and `pipeline`,
where the program really stops when nobody starts another run; the other machines that
end do so in an explicit step that changes nothing.

## 4. Fairness

Only `CoreProver` has a liveness property. It assumes weak fairness of each
task: the call's two joined futures, the executor with its controller, the
ProveShard service, and each deferred upload. The code runs them as tasks of
one current-thread tokio runtime (`core_only.rs:42`), which polls every task
that has been woken, and the blocking closures (tracing, dependencies) end. No
fairness is assumed of failures, nor of any particular outcome. The tasks
advance only while `block_on(prove_core)` runs, hence the guard `Waiting`:
after the call has answered nothing moves, and an upload still pending stays
so. What the run shows is that no failure leaves the collector waiting: a
shard whose deferred upload failed is reported failed only because the service
joins the upload (`core_only.rs:627`).

## 5. What is proved

**PointAddLeafProofs.** For every prime P > 3, every b with 3b = 21 modulo P
(`CurveAssumption`, `InverseAssumption`, `LeafAssumption`), every accumulator
and entry:

* `TypeCorrect`: `Spec => []TypeOK`;
* `LeafCorrect`: the base and the lookup-fed netlist leave the mixed addition
  in qx, qy, qz, or the untouched accumulator for the neutral entry;
* `FlagCorrect`: the flag is the metadata bit until it is cleared, and is 0
  at the end;
* `ReferenceCoordinates`: for an entry other than the neutral one, each of the
  three leaves returns the very coordinates of the reference formulas;
* `GroupLaw`: `Spec => AddsInGroup`, the refinement of the affine accumulator;
* `GuestAttestsTheLeaf`: `Spec => []GuestAcceptsOnlyTheResult`.

The last two need that no point of the curve has order two
(`OrderAssumption`): with Y = 0 on the curve the formulas give (0, 0, 0). The
code runs the leaves on curves of prime order only and checks that order
(`extended_verifier.py:123`). `RequestAssumption` says only that "no request" is
no point.

*Registers.* `TypeOK` says nothing of values, so it does not carry these. The
invariant `IInv` is `TypeOK` with `Versions`: for each register and each
interval of the program counter between a write and its last read, the value
held, as an expression over the call's operands. It is symbolic execution
written as an invariant. After eighteen instructions the base and the
lookup-fed netlist hold the same six values in the same registers, so the second
half is proved once (`CommonTail`); the streamed tail has its own (`Streamed`).

*Algebra.* `Same` is congruence modulo P: the field operators are integer
operations up to it (`FieldOps`), and a nonzero factor cancels (`Cancelled`).
The netlists, the reference, the streamed tail and the guest's tail all compute
the three polynomials of `IsSum`, and such a triple is unique in the field
(`SumUnique`), which gives `ReferenceCoordinates`. `IsSum` scales with the
accumulator, so one may take it in affine form. There the chord, the tangent,
the inverse and the accumulator at infinity are one identity each
(`AffineSum`), and `SumInGroup` concludes that the triple is never (0, 0, 0) and
stands for the affine sum. For `GroupLaw` the invariant is strengthened to
`GInv`, with `StandsForPoint`: the accumulator stands for a point of the curve,
and at infinity its Y is not 0. Without it the step is false: (0, 0, 0) reads
back as infinity and absorbs every further entry. `InitRefines` and
`NextRefines` are the two halves of the refinement; every step but
`CallLeaf`, `Return` and `ReturnAtBoundary` is a stutter.

*Guest.* The guest executes a whole file at once, the Python leaf one
instruction per step. `Mirrored` relates them: after pc instructions the guest's
registers hold whatever the Python file holds (`Agrees`). One step preserves it
(`StepMirrors`, a lemma per opcode); what is read was written before
(`AttestedCompiles`, by the instruction at which each register is first
written). The guest's file is a recursive function; that it exists and takes
these values is `FileExists` and `ExecutionIs`, by induction on a set of
positions. `GuestAdds` shows that its group law, which divides by nothing, is the affine
one, and `MatchesIs` that its comparison passes for one point only.

TLC checked `StandsForPoint` and `Mirrored` in the state space of run `leaf`
before they were proved.

**SlotAllocatorProofs.** For every set of registers, every leaf (a finite
sequence of instructions) and every hand-over order (`ProgramAssumption`):

* `SlotsSafe`: `Spec => []SlotsHoldVersions`;
* `AssertionsHold`: the assertions that end the loop body never fail.

`SlotsHoldVersions` speaks of finished assignments; to preserve it one must
know what the free lists and the dying set mean. The invariant is

* `Ranges`, `Scope`: versions met so far are written up to here, within range;
* `Dead`: a version not live is read no more;
* `DyingEnd`: what may be handed over ends at this instruction;
* `Distinct`, `HandedOver`: live versions share a slot only when one of them
  is the heir, at this instruction, of the other;
* `FreeIsFree`: a free slot holds no live version;

and `SlotsHoldVersions` itself. Each action disturbs only some of these; the
proofs have one lemma per action.

The same module, on the budget:

* `BudgetCovers`: `Spec => []BudgetCoversPeak`, the slots of a class cover the
  peak of its live versions;
* `AllocatorTypes`: `Spec => []TypeOK`.

The peak of an instruction is reckoned before its writes, from the versions
that may be handed over, and the slots are opened one write at a time; between
the two the peak may exceed the slots. `Budget` says by how much: the peak is
covered, or is at most `Ahead`, the slots of the live versions and the writes
still to come that find no heir. A write that takes over a slot and one that
opens a slot leave that sum as it is, and after the last write `Ahead` is the
slots of the live versions, which `Ranges` puts among those opened. This is an
argument about cardinalities, hence the finite-set lemmas.

**LeafSchedulerProofs.** For every leaf whose selects come after its body and
every number of slots (`LeafAssumption`; the code writes that format, and raises
a `KeyError` when a body instruction reads what a select wrote):

* `SchedulerTypes`: `Spec => []TypeOK`;
* `ExactSearch`: `Spec => []SearchIsExact`;
* `OperandsKept`: `Spec => []OperandsHeld`.

A memoised search is exact when what it remembers is closed: every step that
fits leads from a remembered set to another one (`Closed`), every allowed name
from a remembered mapping to another one (`ClosedNames`), and neither memory
holds a complete order or naming. Both are inductive, since a set is remembered
only when no candidate is left (`NoCandidates`, `NoFitting`). When a search
gives up, all that its first step reaches is remembered; by induction over the
layers of `Reached` and `Assigned`, so is everything it reaches
(`LayersExhausted`, `NamesExhausted`), and the last layer is empty. The layers
are recursive functions, unfolded by `RecursionExists` or by `SetInduction`.
`OperandsHeld` speaks of finished plans; what a naming step needs is `Named`: a
mapping holds, under the name it was given, every value that the rest of the
order reads, and no two values share a name. TLC checked the invariant on the
`scheduler` run before it was proved. Its first form was false of a leaf without
a body, for which the code returns at once and the model searched; the model and
the run now have that leaf.

**AttestationHostProofs.** For every number of inputs and runs (assumptions
`BoundAssumption`; `MarkAssumption`, that the marks for a missing and a torn
file are not contents):

* `HostTypes`: `Spec => []TypeOK`;
* `WrapStays`: `Spec => []WrapIsCached`;
* `FixtureVouches`: `Spec => []FixtureVouchesForKey`.

Neither of the last two is inductive: each depends on what the run has still to
write. `Kinded` ties the stage of a run to its kind. `WrapWritten` says that
the plan of the stage `ensure` ends with the wrap bundle, or is empty with the
bundle whole, and that no later plan touches it. `Published` says that the plan
of the last stage is either clear of the three files the property is about, or
the rest of `Publish(p)` after n writes (`Publishing(p, n)`), with the files as
those n writes leave them, for a proof p that carries the number of this run.
Until the fixture is rewritten it is older than the run (`Earlier`), so it
cannot describe p: a kill after any write leaves the property true. The lemmas
before the steps say what the sequences built by `Put`, `Publish` and
`EnsureBuildDir` hold, index by index.

* `RetriesRepeat`: `Spec => RetriesFailOnlyOnTornFiles`. A retry fails of
  itself only when a file it reads is torn; that the file is the bundle it was
  given, or the proving key, needs the order in which the development artifacts
  are written. `Built` says that they are whole, or the proving key is missing
  or torn, or the rest of the plan is the rest of `EnsureBuildDir` after n
  writes (`Building(n)`) with the first n files whole.

**CoreProverProofs.** For every number of core and precompile shards, every
way the execution cuts them and every failure (`ShardAssumption`, that a shard
of each set is a shard and has one place in the execution):

* `TypeCorrect`: `Spec => []TypeOK`;
* `InputsFound`: `Spec => []TasksFindTheirInputs`;
* `AnswersWhole`: `Spec => OneWholeAnswer`, the refinement of `CoreProof`.

The invariant `IInv` is `TypeOK` with: the collector's list and the channel are
sequences of shards (`Lists`); a shard is in at most one of the two, and is
there only once (`TaskOnce`, `AnnouncedOnce`), so that as many announcements as
shards are all the shards; an answer needs both the execution and the proofs,
and each is final when it is taken (`Halves`); and an artifact exists from its upload until the task that
downloads it has read it (`InputsKept`, `EventsKept`). Inputs are safe because
of where the deletions stand: no fact about a single task says so, hence the
invariants over the whole set of tasks. `SortByRange` is stated in the model
as the ordered rearrangement the code's sort returns; the proofs show there is
one (`IncreasingListExists`), and only one (`IncreasingListUnique`). The
answer is then that list for the set of all shards, which is what `CoreProof`
promises.

**WindowedScaffoldProofs**, with **ArithmeticLemmas**. For every group order,
even window width, number of windows that hold a scalar, length of the tail,
scalars and public key (`ScaffoldAssumption`):

* `TypeCorrect`: `Spec => []TypeOK`;
* `WordsOnce`: `Spec => []RunningSum`;
* `AuditsPass`: `Spec => []AuditPasses`;
* `FoldedVerdict`: `Spec => []FoldedAuditVerdict`.

`RunningSum` is what the run checks after every call, and is inductive with
`Placed` (the stage and the position tell how much of the schedule is done) and
`Judged` (what the verdict was computed from). The work is in the lemmas under
it: doubling ladders and window tables hold the multiples they are read for
(`DoubledIs`, `MultiplesAre`); the three lookups give the word times its base,
for every word, signed or not (`LookupIs`, `MulAffineIs` for the
double-and-add loop); the words of a scalar times their weights are the scalar
(`WholeScalar`); and `BorrowedIs`, what the folded words fall short by. These
are inductions over data, which the library states for operators that the
installed provers cannot take. `ArithmeticLemmas` states induction once for
sets of numbers instead (`SetInduction`, `StrongInduction`, from the least
member of a set), and the existence and uniqueness of a recursive function
(`RecursionExists`, `SameRecursion`), with the laws of quotient and remainder
that Z3 does not know for a symbolic modulus. Two definitions of the model are
written so that this applies: 2^n as the recursive function `Pow2`, and the
double-and-add loop as a function on the triple it carries.

**ArtifactPipelineProofs.** For every set of commands, requested summaries,
deletable files, editable parts, crash points, and every number of runs, edits
and faults (`PipelineAssumption`, which bounds those sets by the commands,
files and parts there are):

* `ResultsStayLost`: `Spec => LostResultsStayLost`;
* `VerdictsVouch`: `Spec => []VerdictVouches`;
* `FailsIffWedged`: `Spec => []RefreshFailsIffWedged`: an uninterrupted refresh
  raises exactly when it began without a readable lookup contract or folded
  scaffold, or without recorded results where the estimator cannot be run. It
  says nothing of the other commands;
* `ManifestsHold`: `Spec => []ManifestsRecordTheDisk`;
* `TestsRebuildNothing`: `Spec => ParallelTestsRebuildNothing`;
* `RefreshesSettle`: `Spec => []RefreshSettles`.

A step writes up to 30 files one by one, so each fact about a step is first a
fact about a sequence of writes, by induction over its length: a file outside
the sequence keeps its content (`WriteAllKeeps`), a content is never torn, a
written file can be read. `Typed` gives every file a content and keeps the steps
left among the steps there are. `VerdictsVouch` needs, beyond it, `Plain`: a
verdict is part of three files only, so that no other file is current by
accident, and a walk through the comparisons of all the check groups
(`ChecksVouch`). The next three need to know where a command is. `Kept` says
that the steps left are the end of a plan of twenty (`Follows`), what exists
after the steps performed (`MadeSoFar`: each reads only what an earlier one
made, or what was there when the command began, which is when `wedged` was
decided), which files are recorded already and are not written again
(`InRecord`), and the same of a command that has ended (`Ends`).

`RefreshesSettle` is about what files are made from. `MadeOf` gives for each
file those its builder reads (`SameContent`: nothing else counts), and a set of
files that holds all its members are made from is `Closed`. A write outside a
closed, settled set leaves it settled (`SettledAlike`); a write of a file all of
whose sources are in it adds the file (`WriteSettles`); and writes in an order
in which no file precedes one it is made from add all of them at once
(`WritesSettle`, with `WritesInOrder` for each step). `Turn` says at which of
the 36 steps of two refreshes a file first is what the code makes: sources never
have a later turn than what is made from them (`TurnsGrow`), a file's turn is
that of a step that writes it (`TurnStep`), and the last turn is 34, that of the
figures. So `SettledSoFar`, every file whose turn has come is settled, is
inductive, with one exception that the invariant must name: a parallel test has
truncated a research file and not yet written it. Then it holds of the disk with
that file written (`Mended`), since no file is made from itself.

`Kept`, `TestsAt` and `SettledSoFar` were checked by TLC in the `pipeline` run's
state space before they were proved.

Only model-checked:

* `EveryCallAnswers`, because liveness under fairness is out of the prover's
  reach;
* `OutputsSurvive`, `FlagClearedInPlace` and `ShippedCounts`, which hold of the
  shipped leaves and not of every leaf the allocator accepts;
* `VerdictHoldsOutputs`, a verdict on the repository's own leaves, and
  `OrdersCanBeNamed`, which compares the counts of the two searches and rests on
  how many slots a leaf has for the target it is searched with: a name an output
  is forbidden to take can be the only free one, so it is not true of every leaf;
* those of `ResourceGraph` and `AttestationClaim`, which compare numbers that
  the shipped sizes give: the walk is a recursion whose equality with the
  inventory depends on the shape of each family.

## 6. What the models found

* **`exact_slots`** Releasing compares slot numbers across the two classes
  (`project.py:468`), so arithmetic slot 0 and control slot 0 keep each other
  from being given back, and the "exact" allocation opens a slot too many. The
  two leaves the project counts get seven and three arithmetic slots in
  CPython's order; another order of the same set would give the first eight
  (`ShippedCounts`).
* **`planned_outputs`** `_output_selects` numbers a version by the registers
  written so far, not by the value's id (`leaf_schedule_optimizer.py:122`). The
  plan for the checked leaf overwrites an output. The published verdict, eight
  slots and not seven, is still right (`VerdictHoldsOutputs`).
* **`finished_bundles`** A plain Groth16 run leaves the verifier key of an
  earlier retry beside its bundle, and verification takes that key
  (`main.rs:390`).

* **`operation_stream`** The stream of a family reads the base netlist
  (`materialized_circuit.py:63`), the family is counted for the streamed-tail
  leaf: the manifest's totals are not the family's.

Observed while modelling, and stated by properties that hold:

* Without `qsharp` the recorded estimator results are loaded as the new results
  (`physical_estimator.py:286`): they pass whatever they were made from, a
  rewrite truncates their only copy, and once lost they never come back
  (`LostResultsStayLost`; `VerdictVouches` excepts them).
* No check compares the lookup-fed and streamed leaves or their equivalence
  files with the code that writes them, only what is counted over them
  (`Unchecked` in `VerdictVouches`).
* A refresh is no fixed point after an edit of the lookup contract: the
  research pass derives from the projection written before the new contract. A
  second refresh settles it (`RefreshSettles`).
* A refresh killed while it writes the contract or the folded scaffold stops
  every later refresh at its first step; only the research test, which runs
  that pass alone, heals the tree (`RefreshFailsIffWedged`).
* A refresh finishes also when checks failed: `verify.py` writes the verdict
  and does not raise. `compare_cain_2026.py` shows a summary that exists,
  however old. When `verify.py` itself rebuilds, the attestation input stays
  what it was.
* While test groups run in parallel the research test rewrites the lookup
  contract that tests in other groups read (`ParallelTestsRebuildNothing`
  excepts its files).
* `primitive_multiplier_library` lists six products per tail where the kernel
  holds eleven multiplication grids (`project.py:848`); the seed lookup of a
  streamed family charges no data select. Both are consistent with the counts
  published.

* The folded signed lookup under the unchanged unsigned schedule gives
  [a]G + [b]H only when no word of a leaf call is 0x8000 or more, or the
  shortfall is a multiple of the order (`FoldedAuditVerdict`). The repository
  does not run that combination.
* A development build killed while it writes the proving key counts as
  complete, since the files exist (`wrap_only.rs:79`); every later retry fails
  until the directory is removed. `RetriesFailOnlyOnTornFiles` shows that this
  and an unfinished bundle are the only ways a retry fails of itself.
* Naming keeps the slot of a value nobody reads one step longer than the order
  search counts, so a fitting order can be left unnamed (`OrdersCanBeNamed`
  excepts it).

## 7. What is not modelled

The bit-level subcircuit witnesses: planned, below. Of the guest, digests and
serialisation, and the opcodes that no attested leaf contains. Operands of gates, figures and literature
tables: layout and constants with no order to get wrong. Checks that compare a
file with constants or with the netlist alone hold of every version of a file;
what the netlists compute is checked by `PointAddLeaf` and `WindowedScaffold`.
The closed formulas of the resource projections are left out, but for the
addition chain and the scaffold expansion. The guarded runner holds no state. Polynomial and
pairing mathematics, SP1 and gnark: external; the models take what they
promise. The cryptographic content of a proof is an identity.

## 8. Plan

Done, in this order: leaf machine and its proofs, slot allocator and its
proofs, scaffold, scheduler, core prover, attestation host, lowering with its
graph and ledger, artifact pipeline with its checks, guest and claim, proofs
of the slot budget, of the host, of the core prover, of the scaffold, of the
pipeline, of the scheduler, and of the leaf's group law and the guest.

1. `SubcircuitWitness`: the reversible blocks at small widths, bit by bit.
