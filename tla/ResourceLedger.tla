--------------------------- MODULE ResourceLedger ---------------------------
(***************************************************************************)
(* What the project derives from the published totals of a family: the     *)
(* resource of the coordinate streams (project.py), the ledger that names  *)
(* an owner for every live qubit and sweeps the QROAM block size           *)
(* (resource_ledger.py), and the operation stream that writes the oracle   *)
(* out gate by gate (materialized_circuit.py).                             *)
(***************************************************************************)
EXTENDS ResourceGraph

CONSTANT StreamLeaf       \* the netlist the operation stream walks
-----------------------------------------------------------------------------
(* streamed_lookup_table_multiplier_resource; selects holds the coordinate *)
(* streams of every kernel.                                                *)
DataSelects(k) ==
  [op \in Opcodes |->
    SelectSeq(Kernels(k)[op], LAMBDA s : s.category = "streamed_lookup_data_select")]
StreamsPerLeaf(hist, selects) ==
  MapThenSumSet(LAMBDA op : hist[op] * Len(selects[op]), Opcodes)
DataSelectPerLeaf(hist, selects) ==
  MapThenSumSet(LAMBDA op : hist[op] * StageTotal("ccx", selects[op]), Opcodes)

(* Fault: the streams of one leaf are taken for those of the oracle. *)
WholeOracleStreamsOfOneLeaf(hist, selects) == StreamsPerLeaf(hist, selects)
WholeOracleStreams(hist, selects) == StreamsPerLeaf(hist, selects) * LeafCalls

StreamedResource(f) ==
  LET lookup  == LookupOf(f)
      hist    == Hist(f)
      selects == DataSelects(f.k)
      local   == Workspace(lookup) - lookup.persistent
  IN  [persistent |-> lookup.persistent,
       streams    |-> WholeOracleStreams(hist, selects),
       dataSelect |-> DataSelectPerLeaf(hist, selects) * LeafCalls,
       passes     |-> /\ lookup.persistent = 18
                      /\ local = f.k * N
                      /\ \A op \in Opcodes : hist[op] > 0 =>
                           \A i \in DOMAIN selects[op] :
                             Total("ccx", selects[op][i].blocks)
                               = StageTotal("ccx", selects["field_mul_lookup_x"])]
-----------------------------------------------------------------------------
(***************************************************************************)
(* build_logical_resource_ledger, for the published family f, its totals   *)
(* and its stream resource.                                                *)
(***************************************************************************)
Owners(f, resource) ==
  <<f.slots.arithmetic * N, f.slots.control,
    resource.persistent + N + (f.k - 1) * N,                \* control, target, junk
    ShellOf(f).live>>

Row(f, total, resource, k) ==
  LET cost == StreamCost(k)
  IN  [k      |-> k,
       ccx    |-> total.ccx - resource.dataSelect + resource.streams * (cost.compute + cost.uncompute),
       qubits |-> f.slots.arithmetic * N + f.slots.control + resource.persistent
                  + cost.qubits + ShellOf(f).live]
Rows(f, total, resource) == {Row(f, total, resource, k) : k \in 1 .. 64}

FewerQubits(r, s) == r.qubits < s.qubits \/ (r.qubits = s.qubits /\ r.ccx < s.ccx)

LedgerChecks(f, total, resource, rows) ==
  LET owners   == Owners(f, resource)
      selected == CHOOSE r \in rows : r.k = f.k
      under    == {r \in rows : r.ccx < LowGate}
  IN  /\ owners[3] = Workspace(LookupOf(f))
      /\ selected.ccx = total.ccx
      /\ selected.qubits = total.qubits
      /\ FoldLeft(+, 0, owners) = total.qubits
      /\ StreamCost(f.k).qubits = f.k * N
      /\ \E r \in under : r.k = f.k /\ \A s \in under : ~FewerQubits(s, r)
      /\ ~\E r \in rows : r.ccx < 24000000 /\ r.qubits < 1700
-----------------------------------------------------------------------------
(***************************************************************************)
(* The operation stream: the lookups of the seed and of every leaf call,   *)
(* the arithmetic of every call, the phase shell.  What is kept of it is   *)
(* the number of gates of each kind, the totals of its manifest.           *)
(***************************************************************************)
ArithmeticStream(f, field) ==
  LeafCalls * MapThenSumSet(
    LAMBDA op : Histogram(StreamLeaf)[op] * StageTotal(field, Kernels(f.k)[op]), Opcodes)
LookupStream(f, field) == (1 + LeafCalls) * StageTotal(field, LookupOf(f).stages)

Manifest(f) ==
  [ccx         |-> LookupStream(f, "ccx") + ArithmeticStream(f, "ccx"),
   measurement |-> LookupStream(f, "meas") + ArithmeticStream(f, "meas")
                   + PhaseMeasurements(ShellOf(f)),
   hadamard    |-> Hadamards(ShellOf(f)),
   rotations   |-> Rotations(ShellOf(f))]
=============================================================================
