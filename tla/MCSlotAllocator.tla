-------------------------- MODULE MCSlotAllocator --------------------------
(***************************************************************************)
(* Every leaf of up to Length instructions over two arithmetic registers   *)
(* and a control register, and the leaves the compiler project allocates:  *)
(* the lookup-fed netlist and the streamed tail, read off PointAddLeaf.    *)
(***************************************************************************)
EXTENDS SlotAllocator, TLC

CONSTANTS Length, Undef

Leaf == INSTANCE PointAddLeaf WITH
  P <- 13, B <- 7, Undef <- Undef, Leaves <- {"base"}, Callers <- {"flat_replay"},
  caller <- "flat_replay", acc <- <<0, 1, 0>>, leaf <- "none", entry <- << >>,
  pc <- 0, env <- << >>

LeafRegisters == {"qx", "qy", "qz", "lx", "ly", "t0", "t1"}
ControlRegisters == {"f_lookup_inf"}
Tracked == LeafRegisters \cup ControlRegisters

(* The registers an instruction reads and writes, of those tracked.  The   *)
(* tail writes all its three operands back.                                *)
Shape(ins) ==
  [src |-> {ins.src[i] : i \in DOMAIN ins.src} \cap Tracked,
   dst |-> IF ins.op = "complete_a0_all_streamed_tail" THEN ins.src
           ELSE IF ins.dst \in Tracked THEN <<ins.dst>> ELSE << >>]

ShippedLeaves ==
  {[i \in 1 .. 37 |-> Shape(Leaf!LookupFedNetlist[i])],
   [i \in 1 .. 6 |-> Shape(Leaf!StreamedTailNetlist[i])]}

SmallInstructions ==
  [src : {{}, {"qx"}, {"f_lookup_inf"}, {"qx", "qy"}},
   dst : {<<"qx">>, <<"f_lookup_inf">>, <<"qy", "qx">>}]

SmallLeaves == {p \in [1 .. Length -> SmallInstructions] : p[1].src = {}}

MCPrograms == ShippedLeaves \cup SmallLeaves
-----------------------------------------------------------------------------
Shipped == prog \in ShippedLeaves
Final(r) == {v \in DOMAIN assigned :
               Reg(prog, v) = r /\ \A w \in DOMAIN assigned : Reg(prog, w) = r => ~Before(v, w)}

(* The allocator's liveness does not know that qx, qy, qz leave the leaf:  *)
(* their last versions count as dead.  In the leaves the project allocates *)
(* nothing is written over them before the leaf ends.                      *)
OutputsSurvive ==
  Allocated /\ Shipped =>
    \A r \in {"qx", "qy", "qz"} : \A v \in Final(r) :
      \A w \in DOMAIN assigned : SameSlot(v, w) => ~Before(v, w)

(* clear_bool_from_flag XORs into its destination, a read the allocator    *)
(* does not count.  In the leaves the project allocates the flag it clears *)
(* is still in the slot the instruction writes.                            *)
FlagClearedInPlace ==
  Allocated /\ Shipped =>
    \A v, w \in DOMAIN assigned :
      Reg(prog, v) = "f_lookup_inf" /\ Reg(prog, w) = "f_lookup_inf" => assigned[v] = assigned[w]

(* The published slot counts.  The streamed tail takes three arithmetic    *)
(* slots and one control slot, its peak.  The lookup-fed leaf never needs  *)
(* more than seven and one, and gets seven in the order CPython hands over *)
(* slots; in another order releasing slot 0 is prevented by the control    *)
(* slot of that number, and an eighth is opened.                           *)
ShippedCounts ==
  Allocated /\ Shipped =>
    IF Len(prog) = 6
    THEN next = peak /\ next = [arithmetic |-> 3, control |-> 1]
    ELSE peak = [arithmetic |-> 7, control |-> 1] /\ next["control"] = 1
         /\ next["arithmetic"] \in 7 .. 8

(* The slot counts are exact: as many slots as the peak needs.             *)
ExactCounts == Allocated => next = peak
=============================================================================
