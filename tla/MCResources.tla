---------------------------- MODULE MCResources ----------------------------
(***************************************************************************)
(* The recount of the compiler families at the shipped sizes.              *)
(***************************************************************************)
EXTENDS ResourceLedger, AttestationClaim

CONSTANT Undef

Netlists == INSTANCE PointAddLeaf WITH
  P <- 13, B <- 7, Undef <- Undef, Leaves <- {"base"}, Callers <- {"flat_replay"},
  caller <- "flat_replay", acc <- <<0, 1, 0>>, leaf <- "none", entry <- << >>,
  pc <- 0, env <- << >>

(* The family the project publishes, and its neighbours in the libraries   *)
(* the two counts accept.                                                  *)
TailSlots == [arithmetic |-> 3, control |-> 1, borrowed |-> 0]
Central == [lookup |-> "standard_qroam", shell |-> "semiclassical_qft",
            leaf |-> Netlists!StreamedTailNetlist, slots |-> TailSlots, k |-> 1]
MCFamilies ==
  {[Central EXCEPT !.lookup = l, !.shell = s] : l \in DOMAIN Lookups(1), s \in DOMAIN Shells}
  \cup {[Central EXCEPT !.leaf = Netlists!BaseNetlist, !.slots = sl] :
          sl \in {TailSlots, [arithmetic |-> 7, control |-> 1, borrowed |-> 2]}}

MCStreamLeaf == Netlists!BaseNetlist
-----------------------------------------------------------------------------
(* The walk counts what the inventory multiplies out, block by block;      *)
(* the published shares of seed, leaf and lookup add up to the total.      *)
CountsAgree ==
  Walked =>
    /\ Recount = Inventory(family)
    /\ Published.full_oracle =
         Published.direct_seed + LeafCalls * (Published.arithmetic_leaf + Published.per_leaf_lookup)
    /\ family.leaf = Netlists!StreamedTailNetlist => ClaimAccepted(Claim(FamilySummary), FamilySummary)

(* Every node is reached, every leaf by one path, and no callee is its own *)
(* caller.                                                                 *)
EveryPartOnce ==
  /\ Cardinality({stack[i].node : i \in DOMAIN stack}) = Len(stack)
  /\ Cardinality({sigma[i][1] : i \in DOMAIN sigma}) = Len(sigma)
  /\ Walked => seen = graph.nodes
(* The tail macro is charged exactly what the kernels it stands for would  *)
(* be: G, H, A and Zx, C, I and yZ, K, L, 21Z, E M N, six products and     *)
(* three output combines.                                                  *)
MacroIsItsKernels ==
  LET kernels == Kernels(family.k)
      cost(op) == <<StageTotal("ccx", kernels[op]), StageTotal("meas", kernels[op])>>
      parts == << <<"field_add", 8>>, <<"mul_const", 2>>, <<"field_sub_sum", 1>>, <<"field_triple", 1>>,
                  <<"field_mul", 6>>, <<"field_mul_lookup_sum", 1>>,
                  <<"field_mul_lookup_x", 2>>, <<"field_mul_lookup_y", 2>> >>
  IN  Len(stack) = 1 =>
        \A i \in {1, 2} :
          cost("complete_a0_all_streamed_tail")[i]
            = FoldLeft(LAMBDA n, p : n + p[2] * cost(p[1])[i], 0, parts)

(* The ledger of a streamed family passes its checks, and every row of its *)
(* sweep is what the kernels and the lookup, lowered again with that block *)
(* size, are counted as.                                                   *)
LedgerIsARebuild ==
  Walked /\ family.leaf = Netlists!StreamedTailNetlist
         /\ family.lookup = "standard_qroam" /\ family.shell = "semiclassical_qft" =>
    LET resource == StreamedResource(family)
        rows     == Rows(family, Recount, resource)
    IN  /\ resource.passes
        /\ LedgerChecks(family, Recount, resource, rows)
        /\ \A r \in rows :
             LET rebuilt == Inventory([family EXCEPT !.k = r.k])
             IN  r.ccx = rebuilt.ccx /\ r.qubits = rebuilt.qubits

(* The operation stream of the published family holds the gates it is      *)
(* published with.                                                         *)
StreamIsTheOracle ==
  Walked /\ family = Central =>
    /\ Manifest(family).ccx = Published.full_oracle
    /\ Manifest(family).measurement = Published.measurements
    /\ Manifest(family).hadamard = Recount.hadamards
    /\ Manifest(family).rotations = Recount.rotations
=============================================================================
