--------------------------- MODULE ResourceGraph ---------------------------
(***************************************************************************)
(* The two counts of the whole oracle: the block inventory, which          *)
(* multiplies every block out (generated_block_inventory.py), and the      *)
(* recount of a call graph (ft_ir.py, whole_oracle_recount.py), whose      *)
(* depth-first walk collects a multiplicity for every leaf it meets.  The  *)
(* walk is the state machine; its stack holds, for every node being        *)
(* visited, the product of the counts on the path and the next edge.       *)
(* Then the ledger and the operation stream made from the published totals.*)
(***************************************************************************)
EXTENDS Lowering

CONSTANTS Families,     \* compiler families: names of a lookup family and a phase
                        \* shell, a leaf, slot counts, a block size
          LeafCalls,    \* leaf_call_count_total of the raw-32 schedule
          LowGate       \* PUBLIC_GOOGLE_BASELINE['low_gate']['non_clifford']

VARIABLES family,       \* the family recounted
          graph,        \* its call graph
          stack,        \* nodes being visited, the root first
          sigma,        \* leaf_sigma: leaves met with their multiplicity
          seen          \* seen_nodes

vars == <<family, graph, stack, sigma, seen>>

Hist(f) == Histogram(f.leaf)
LookupOf(f) == Lookups(f.k)[f.lookup]
ShellOf(f) == Shells[f.shell]
-----------------------------------------------------------------------------
(***************************************************************************)
(* The inventory.  Blocks are multiplied out from their counts per         *)
(* instance.                                                               *)
(***************************************************************************)
MultipliedOut(field, blocks) ==
  FoldLeft(LAMBDA n, b : n + b.inst * b[field], 0, blocks)
ArithmeticBlocks(f, field) ==
  LeafCalls * MapThenSumSet(LAMBDA op : Hist(f)[op] * MultipliedOut(field, BlocksOf(Kernels(f.k)[op])),
                            {op \in Opcodes : Hist(f)[op] > 0})
LookupBlocks(f, field) ==
  (1 + LeafCalls) * MultipliedOut(field, BlocksOf(LookupOf(f).stages))
QubitBlocks(f) ==
  <<f.slots.arithmetic * N, f.slots.control>>
  \o (IF f.slots.borrowed > 0 THEN <<f.slots.borrowed * N>> ELSE << >>)
  \o <<Workspace(LookupOf(f)), ShellOf(f).live>>
PhaseBlocks(f, gates) ==
  FoldLeft(LAMBDA n, b : n + IF b.gate \in gates THEN b.inst * b.each ELSE 0, 0, ShellOf(f).blocks)

Inventory(f) ==
  [ccx          |-> ArithmeticBlocks(f, "ccxEach") + LookupBlocks(f, "ccxEach"),
   meas         |-> ArithmeticBlocks(f, "measEach") + LookupBlocks(f, "measEach"),
   qubits       |-> FoldLeft(+, 0, QubitBlocks(f)),
   hadamards    |-> PhaseBlocks(f, {"hadamard"}),
   measurements |-> PhaseBlocks(f, {"measurement"}),
   rotations    |-> PhaseBlocks(f, RotationGates),
   depth        |-> PhaseBlocks(f, RotationGates)]

-----------------------------------------------------------------------------
(***************************************************************************)
(* The graph.  An edge is <<from, to, count>>, a leaf carries its profile. *)
(***************************************************************************)
Leaf(id, profile) == [id |-> id, profile |-> profile]
Edges(from, tos) == [i \in DOMAIN tos |-> <<from, tos[i], 1>>]

(* A bundle of stages under the node above: a node for every stage and for *)
(* every block of it.                                                      *)
StageNode(above, s) == Append(above, "stage") \o s.name
BlockNode(above, s, b) == StageNode(above, s) \o <<"leaf", b.name>>
StageEdges(above, stages) ==
  FlattenSeq([i \in DOMAIN stages |->
    LET s == stages[i]
    IN  <<<<above, StageNode(above, s), 1>>>>
        \o [j \in DOMAIN s.blocks |-> <<StageNode(above, s), BlockNode(above, s, s.blocks[j]), 1>>]])
StageLeaves(above, stages) ==
  UNION {{Leaf(BlockNode(above, stages[i], stages[i].blocks[j]),
               [kind |-> "primitive",
                ccx  |-> stages[i].blocks[j].inst * stages[i].blocks[j].ccxEach,
                meas |-> stages[i].blocks[j].inst * stages[i].blocks[j].measEach])
          : j \in DOMAIN stages[i].blocks} : i \in DOMAIN stages}

Used(f) == SelectSeq(KernelOrder, LAMBDA op : Hist(f)[op] > 0)

ArithmeticEdges(f) ==
  <<<<<<"full_oracle">>, <<"repeated_leaf_calls">>, LeafCalls>>,
    <<<<"repeated_leaf_calls">>, <<"leaf_arithmetic_cluster">>, 1>>>>
  \o FlattenSeq([i \in DOMAIN Used(f) |->
       <<<<<<"leaf_arithmetic_cluster">>, <<Used(f)[i]>>, Hist(f)[Used(f)[i]]>>>>
       \o StageEdges(<<Used(f)[i]>>, Kernels(f.k)[Used(f)[i]])])

(* Fault: the repeated lookups are called LeafCalls times from the bundle  *)
(* that is itself called so often. *)
LookupEdgesTwice(f) ==
  <<<<<<"full_oracle">>, <<"direct_seed_lookup">>, 1>>>>
  \o StageEdges(<<"direct_seed_lookup">>, LookupOf(f).stages)
  \o <<<<<<"repeated_leaf_calls">>, <<"repeated_lookup_cluster">>, LeafCalls>>>>
  \o StageEdges(<<"repeated_lookup_cluster">>, LookupOf(f).stages)
LookupEdges(f) ==
  <<<<<<"full_oracle">>, <<"direct_seed_lookup">>, 1>>>>
  \o StageEdges(<<"direct_seed_lookup">>, LookupOf(f).stages)
  \o <<<<<<"repeated_leaf_calls">>, <<"repeated_lookup_cluster">>, 1>>>>
  \o StageEdges(<<"repeated_lookup_cluster">>, LookupOf(f).stages)

Contributors(f) ==
  <<<<"arithmetic_slots">>, <<"control_slots">>>>
  \o (IF f.slots.borrowed > 0 THEN <<<<"borrowed_lanes">>>> ELSE << >>)
  \o <<<<"lookup_workspace">>, <<"phase_shell_live_register">>>>
PhaseCounts == <<<<"hadamards">>, <<"measurements">>, <<"rotations">>, <<"rotation_depth">>>>

QubitAndPhaseEdges(f) ==
  Edges(<<"full_oracle">>, <<<<"live_qubit_contributors">>, <<"phase_shell_counts">>>>)
  \o Edges(<<"live_qubit_contributors">>, Contributors(f))
  \o Edges(<<"phase_shell_counts">>, PhaseCounts)
QubitAndPhaseLeaves(f) ==
  LET shell == ShellOf(f)
      qubits(id, n) == Leaf(id, [kind |-> "qubits", count |-> n])
      count(id, n)  == Leaf(<<id>>, [kind |-> id, count |-> n])
  IN  {qubits(<<"arithmetic_slots">>, f.slots.arithmetic * N), qubits(<<"control_slots">>, f.slots.control),
       qubits(<<"lookup_workspace">>, Workspace(LookupOf(f))),
       qubits(<<"phase_shell_live_register">>, shell.live),
       count("hadamards", Hadamards(shell)), count("measurements", PhaseMeasurements(shell)),
       count("rotations", Rotations(shell)), count("rotation_depth", RotationDepth(shell))}
      \cup (IF f.slots.borrowed > 0 THEN {qubits(<<"borrowed_lanes">>, f.slots.borrowed * N)} ELSE {})

Graph(f) ==
  LET edges  == ArithmeticEdges(f) \o LookupEdges(f) \o QubitAndPhaseEdges(f)
      leaves == UNION {StageLeaves(<<op>>, Kernels(f.k)[op]) : op \in ToSet(Used(f))}
                \cup StageLeaves(<<"direct_seed_lookup">>, LookupOf(f).stages)
                \cup StageLeaves(<<"repeated_lookup_cluster">>, LookupOf(f).stages)
                \cup QubitAndPhaseLeaves(f)
      nodes  == {<<"full_oracle">>} \cup {edges[i][2] : i \in DOMAIN edges} \cup {l.id : l \in leaves}
  IN  [nodes    |-> nodes,
       leaves   |-> {l.id : l \in leaves},
       profile  |-> [n \in {l.id : l \in leaves} |-> (CHOOSE l \in leaves : l.id = n).profile],
       outgoing |-> [n \in nodes |-> SelectSeq(edges, LAMBDA e : e[1] = n)]]
-----------------------------------------------------------------------------
(***************************************************************************)
(* The walk (_traverse_graph).                                             *)
(***************************************************************************)
Frame(node, mult) == [node |-> node, mult |-> mult, edge |-> 1]

Init ==
  /\ family \in Families
  /\ graph = Graph(family)
  /\ stack = <<Frame(<<"full_oracle">>, 1)>>
  /\ sigma = << >>
  /\ seen = {<<"full_oracle">>}

Top == stack[Len(stack)]
Outgoing(node) == graph.outgoing[node]
IsLeaf(node) == node \in graph.leaves

(* visit of the next callee: the stack may not hold it already.            *)
Descend ==
  /\ stack # << >> /\ ~IsLeaf(Top.node)
  /\ Top.edge <= Len(Outgoing(Top.node))
  /\ LET edge == Outgoing(Top.node)[Top.edge]
     IN  /\ \A i \in DOMAIN stack : stack[i].node # edge[2]
         /\ stack' = Append([stack EXCEPT ![Len(stack)].edge = @ + 1],
                            Frame(edge[2], Top.mult * edge[3]))
         /\ seen' = seen \cup {edge[2]}
  /\ UNCHANGED <<family, graph, sigma>>

Emit ==
  /\ stack # << >> /\ IsLeaf(Top.node)
  /\ sigma' = Append(sigma, <<Top.node, Top.mult>>)
  /\ stack' = Front(stack)
  /\ UNCHANGED <<family, graph, seen>>

Return ==
  /\ stack # << >> /\ ~IsLeaf(Top.node)
  /\ Top.edge > Len(Outgoing(Top.node))
  /\ stack' = Front(stack)
  /\ UNCHANGED <<family, graph, sigma, seen>>

Walked == stack = << >>

Done == Walked /\ UNCHANGED vars

Next == Descend \/ Emit \/ Return \/ Done
Spec == Init /\ [][Next]_vars
-----------------------------------------------------------------------------
(***************************************************************************)
(* The recount over leaf_sigma, which the frontier publishes.              *)
(***************************************************************************)
Profile(entry) == graph.profile[entry[1]]
Sum(kind, field) ==
  FoldLeft(LAMBDA n, e : n + IF Profile(e).kind = kind THEN e[2] * Profile(e)[field] ELSE 0, 0, sigma)

Recount ==
  [ccx          |-> Sum("primitive", "ccx"),
   meas         |-> Sum("primitive", "meas"),
   qubits       |-> Sum("qubits", "count"),
   hadamards    |-> Sum("hadamards", "count"),
   measurements |-> Sum("measurements", "count"),
   rotations    |-> Sum("rotations", "count"),
   depth        |-> Sum("rotation_depth", "count")]
TotalMeasurements == Recount.meas + Recount.measurements

(* The row of the frontier: its totals are the recount's, its shares come  *)
(* from the lowerings and the inventory.                                   *)
Published ==
  [arithmetic_leaf  |-> LeafNonClifford(Hist(family), family.k),
   direct_seed      |-> MultipliedOut("ccxEach", BlocksOf(LookupOf(family).stages)),
   per_leaf_lookup  |-> (LeafCalls * MultipliedOut("ccxEach", BlocksOf(LookupOf(family).stages)))
                        \div LeafCalls,
   full_oracle      |-> Recount.ccx,
   measurements     |-> TotalMeasurements]
=============================================================================
