---------------------------- MODULE PointAddLeaf ----------------------------
(***************************************************************************)
(* The point-addition leaf and the interpreter that executes it.           *)
(*                                                                         *)
(* A caller keeps a projective accumulator and calls one of three          *)
(* executable leaves with a table entry: the checked base netlist, its     *)
(* lookup-fed reordering, or the streamed lookup tail.  The interpreter    *)
(* (verifier.py) runs the netlist one instruction a step over a register   *)
(* file in which every name is written several times, so a wrong order or  *)
(* a register reused too early changes the sum.  "caller" says what happens*)
(* between two calls: the raw-32 check brings the accumulator back to      *)
(* affine form, the flat replay of derived_resources.py does not.          *)
(***************************************************************************)
EXTENDS Curve

CONSTANTS Undef,      \* content of a register that was never written
          Leaves,     \* the leaves a caller may call
          Callers     \* the callers explored

ASSUME LeafAssumption ==
  /\ Undef \notin Field
  /\ Leaves \subseteq {"base", "lookup_fed", "streamed_tail"}
  /\ Callers \subseteq {"raw32_check", "flat_replay"}
  /\ (3 * B - 21) % P = 0          \* 21 is 3b for the curve of the artifact

Reg == {"Q.X", "Q.Y", "Q.Z", "qx", "qy", "qz", "lx", "ly", "t0", "t1",
        "meta", "f_lookup_inf", "lookup_x", "lookup_y", "lookup_meta"}

(***************************************************************************)
(* The netlists.                                                           *)
(***************************************************************************)

Ins(op, dst, src) == [op |-> op, dst |-> dst, src |-> src]

BaseNetlist == <<
  Ins("load_input", "qx", <<"Q.X">>),                    \* 0
  Ins("load_input", "qy", <<"Q.Y">>),
  Ins("load_input", "qz", <<"Q.Z">>),
  Ins("lookup_affine_x", "lx", << >>),
  Ins("lookup_affine_y", "ly", << >>),
  Ins("lookup_meta", "meta", << >>),                     \* 5
  Ins("bool_from_flag", "f_lookup_inf", <<"meta">>),
  Ins("field_mul", "t0", <<"qx", "lx">>),
  Ins("field_add", "t1", <<"lx", "ly">>),
  Ins("field_mul", "lx", <<"lx", "qz">>),
  Ins("field_add", "lx", <<"lx", "qx">>),                \* 10
  Ins("field_add", "qx", <<"qx", "qy">>),
  Ins("field_mul", "t1", <<"t1", "qx">>),
  Ins("mul_const", "lx", <<"lx">>),
  Ins("field_mul", "qx", <<"qy", "ly">>),
  Ins("field_mul", "ly", <<"ly", "qz">>),                \* 15
  Ins("field_add", "ly", <<"ly", "qy">>),
  Ins("mul_const", "qz", <<"qz">>),
  Ins("field_add", "qy", <<"t0", "qx">>),
  Ins("field_sub", "t1", <<"t1", "qy">>),
  Ins("field_add", "qy", <<"t0", "t0">>),                \* 20
  Ins("field_add", "qy", <<"qy", "t0">>),
  Ins("field_add", "t0", <<"qx", "qz">>),
  Ins("field_sub", "qx", <<"qx", "qz">>),
  Ins("field_mul", "qz", <<"ly", "lx">>),
  Ins("field_mul", "lx", <<"lx", "qy">>),                \* 25
  Ins("field_mul", "qy", <<"qy", "t1">>),
  Ins("field_mul", "t1", <<"t1", "qx">>),
  Ins("field_sub", "t1", <<"t1", "qz">>),
  Ins("field_mul", "qx", <<"qx", "t0">>),
  Ins("field_add", "lx", <<"qx", "lx">>),                \* 30
  Ins("field_mul", "t0", <<"t0", "ly">>),
  Ins("field_add", "t0", <<"t0", "qy">>),
  Ins("select_field_if_flag", "qx", <<"Q.X", "t1", "f_lookup_inf">>),
  Ins("select_field_if_flag", "qy", <<"Q.Y", "lx", "f_lookup_inf">>),
  Ins("select_field_if_flag", "qz", <<"Q.Z", "t0", "f_lookup_inf">>),  \* 35
  Ins("clear_bool_from_flag", "f_lookup_inf", <<"meta">>) >>

(* Fault: instruction 7 after 11, which overwrites its operand qx. *)
LookupFedLeafOrderLate ==
  <<5, 3, 4, 6, 8, 0, 1, 2, 9, 10, 13, 15, 16, 17, 11, 7, 12, 14, 18, 19,
    20, 21, 22, 23, 24, 25, 26, 27, 28, 29, 30, 31, 32, 33, 34, 35, 36>>
LookupFedLeafOrder ==
  <<5, 3, 4, 6, 8, 0, 1, 2, 9, 10, 13, 15, 16, 17, 7, 11, 12, 14, 18, 19,
    20, 21, 22, 23, 24, 25, 26, 27, 28, 29, 30, 31, 32, 33, 34, 35, 36>>

(* The lookup-fed interface: the first lookup outputs stay on wires of     *)
(* their own instead of the arithmetic slots lx and ly.                    *)
LookupFedInstruction(old, ins) ==
  CASE old = 3  -> [ins EXCEPT !.dst = "lookup_x"]
    [] old = 4  -> [ins EXCEPT !.dst = "lookup_y"]
    [] old = 5  -> [ins EXCEPT !.dst = "lookup_meta"]
    [] old \in {6, 36} -> [ins EXCEPT !.src = <<"lookup_meta">>]
    [] old = 7  -> [ins EXCEPT !.src = <<"qx", "lookup_x">>]
    [] old = 8  -> [ins EXCEPT !.src = <<"lookup_x", "lookup_y">>]
    [] old = 9  -> [ins EXCEPT !.src = <<"lookup_x", "qz">>]
    [] old = 14 -> [ins EXCEPT !.src = <<"qy", "lookup_y">>]
    [] old = 15 -> [ins EXCEPT !.src = <<"lookup_y", "qz">>]
    [] OTHER    -> ins

LookupFedNetlist ==
  [i \in 1 .. 37 |-> LET old == LookupFedLeafOrder[i]
                     IN  LookupFedInstruction(old, BaseNetlist[old + 1])]

StreamedTailNetlist == <<
  Ins("load_input", "qx", <<"Q.X">>),
  Ins("load_input", "qy", <<"Q.Y">>),
  Ins("load_input", "qz", <<"Q.Z">>),
  Ins("lookup_meta", "lookup_meta", << >>),
  Ins("bool_from_flag", "f_lookup_inf", <<"lookup_meta">>),
  Ins("complete_a0_all_streamed_tail", "qx", <<"qx", "qy", "qz">>) >>

Netlist(l) == CASE l = "base" -> BaseNetlist
                [] l = "lookup_fed" -> LookupFedNetlist
                [] OTHER -> StreamedTailNetlist
NetlistLength(l) == IF l = "streamed_tail" THEN 6 ELSE 37
-----------------------------------------------------------------------------
VARIABLES caller,   \* who calls, fixed at the start
          acc,      \* the caller's projective accumulator
          leaf,     \* the leaf being executed, "none" between calls
          entry,    \* the table entry of the call
          pc,       \* instructions executed in this call
          env       \* the interpreter's register file

vars == <<caller, acc, leaf, entry, pc, env>>

Idle == leaf = "none"
EmptyRegisters == [r \in Reg |-> Undef]

TypeOK ==
  /\ caller \in Callers
  /\ acc \in Field \X Field \X Field
  /\ leaf \in Leaves \cup {"none"}
  /\ entry \in AffinePoint
  /\ pc \in 0 .. 37 /\ (~Idle => pc <= NetlistLength(leaf))
  /\ env \in [Reg -> Field \cup {Undef}]

Init ==
  /\ caller \in Callers
  /\ acc \in {affine_to_proj(seed) : seed \in AffinePoint}
  /\ leaf = "none" /\ entry = None /\ pc = 0 /\ env = EmptyRegisters

(* A call binds the accumulator to the interface wires of a new register   *)
(* file.                                                                   *)
CallLeaf(l, t) ==
  /\ Idle
  /\ leaf' = l /\ entry' = t /\ pc' = 0
  /\ env' = [EmptyRegisters EXCEPT !["Q.X"] = acc[1],
                                   !["Q.Y"] = acc[2],
                                   !["Q.Z"] = acc[3]]
  /\ UNCHANGED <<caller, acc>>

(* The streamed tail is not executed for the neutral entry: its contract   *)
(* returns the accumulator at the boundary.                                *)
BoundaryNoop == leaf = "streamed_tail" /\ entry = None

HandBack(q) ==
  /\ acc' = IF caller = "raw32_check" THEN affine_to_proj(proj_to_affine(q)) ELSE q
  /\ leaf' = "none" /\ entry' = None /\ pc' = 0 /\ env' = EmptyRegisters
  /\ UNCHANGED caller

ReturnAtBoundary == BoundaryNoop /\ HandBack(acc)

Return ==
  /\ ~Idle /\ ~BoundaryNoop
  /\ pc = NetlistLength(leaf)
  /\ HandBack(<<env["qx"], env["qy"], env["qz"]>>)
-----------------------------------------------------------------------------
(***************************************************************************)
(* One action per opcode.  Reading a register that was never written       *)
(* raises KeyError in the interpreter: here no action is enabled.          *)
(***************************************************************************)
Fetched == Netlist(leaf)[pc + 1]
Src(i) == env[Fetched.src[i]]
FlagBit == Src(1) % 2
TableX == IF entry = None THEN 0 ELSE entry[1]
TableY == IF entry = None THEN 0 ELSE entry[2]
TableMeta == IF entry = None THEN 1 ELSE 0

Fetches(op) ==
  /\ ~Idle /\ ~BoundaryNoop
  /\ pc < NetlistLength(leaf)
  /\ Fetched.op = op
  /\ \A i \in DOMAIN Fetched.src : Src(i) # Undef

Writes(v) ==
  /\ env' = [env EXCEPT ![Fetched.dst] = v]
  /\ pc' = pc + 1
  /\ UNCHANGED <<caller, acc, leaf, entry>>

LoadInput    == Fetches("load_input") /\ Writes(Src(1))
LookupX      == Fetches("lookup_affine_x") /\ Writes(TableX)
LookupY      == Fetches("lookup_affine_y") /\ Writes(TableY)
LookupMeta   == Fetches("lookup_meta") /\ Writes(TableMeta)
BoolFromFlag == Fetches("bool_from_flag") /\ Writes(FlagBit)
(* Fault: the flag is computed again instead of being XORed away. *)
ClearBoolRecomputed == Fetches("clear_bool_from_flag") /\ Writes(FlagBit)
ClearBool    == /\ Fetches("clear_bool_from_flag")
                /\ env["f_lookup_inf"] # Undef
                /\ Writes((env["f_lookup_inf"] + FlagBit) % 2)
FieldMul     == Fetches("field_mul") /\ Writes(FMul(Src(1), Src(2)))
FieldAdd     == Fetches("field_add") /\ Writes(FAdd(Src(1), Src(2)))
(* Fault: the operands of the difference are exchanged. *)
FieldSubSwapped == Fetches("field_sub") /\ Writes(FSub(Src(2), Src(1)))
FieldSub     == Fetches("field_sub") /\ Writes(FSub(Src(1), Src(2)))
(* Fault: the constant is b, not 3b. *)
MulConstB    == Fetches("mul_const") /\ Writes(FMul(7, Src(1)))
MulConst     == Fetches("mul_const") /\ Writes(FMul(21, Src(1)))
SelectField  == Fetches("select_field_if_flag")
                /\ Writes(IF Src(3) # 0 THEN Src(1) ELSE Src(2))

(* The multi-output tail: everything the base body computes, inside one    *)
(* instruction that overwrites its own three operands.                     *)
StreamedTailValue(x, y, z) ==
  LET h == FMul(x + y, FAdd(TableX, TableY))
      a == FMul(x, TableX)
      c == FMul(21, x + FMul(z, TableX))
      i == FMul(y, TableY)
      k == (h - a - i) % P
      l == FMul(3, a)
      e == FAdd(y, FMul(TableY, z))
      f == FMul(21, z)
      m == FAdd(i, f)
      n == FSub(i, f)
  IN  <<(k * n - e * c) % P, (n * m + c * l) % P, (m * e + l * k) % P>>

AllStreamedTail ==
  /\ Fetches("complete_a0_all_streamed_tail")
  /\ LET v == StreamedTailValue(Src(1), Src(2), Src(3))
     IN  env' = [env EXCEPT !["qx"] = v[1], !["qy"] = v[2], !["qz"] = v[3]]
  /\ pc' = pc + 1
  /\ UNCHANGED <<caller, acc, leaf, entry>>

Step == \/ LoadInput \/ LookupX \/ LookupY \/ LookupMeta
        \/ BoolFromFlag \/ ClearBool
        \/ FieldMul \/ FieldAdd \/ FieldSub \/ MulConst
        \/ SelectField \/ AllStreamedTail

Next == \/ \E l \in Leaves, t \in AffinePoint : CallLeaf(l, t)
        \/ Step \/ Return \/ ReturnAtBoundary

Spec == Init /\ [][Next]_vars
-----------------------------------------------------------------------------
(***************************************************************************)
(* What the leaf computes, as one expression per value: the straight-line  *)
(* program the netlist schedules onto seven registers.                     *)
(***************************************************************************)
MixedAdd(q, t) ==
  LET t0 == FMul(q[1], t[1])
      t1 == FMul(q[2], t[2])
      o2 == FMul(21, FAdd(FMul(t[1], q[3]), q[1]))
      t4 == FAdd(FMul(t[2], q[3]), q[2])
      t2 == FMul(21, q[3])
      t3 == FSub(FMul(FAdd(t[1], t[2]), FAdd(q[1], q[2])), FAdd(t0, t1))
      x3 == FAdd(FAdd(t0, t0), t0)
      zp == FAdd(t1, t2)
      zm == FSub(t1, t2)
  IN  << FSub(FMul(t3, zm), FMul(t4, o2)),
         FAdd(FMul(zm, zp), FMul(o2, x3)),
         FAdd(FMul(zp, t4), FMul(x3, t3)) >>

Result == <<env["qx"], env["qy"], env["qz"]>>
Finished == ~Idle /\ ~BoundaryNoop /\ pc = NetlistLength(leaf)
MetaReg == IF leaf = "base" THEN "meta" ELSE "lookup_meta"

(* The order in which the base and the lookup-fed netlist reuse registers  *)
(* loses no value: what they leave in qx, qy, qz is the mixed addition of  *)
(* the accumulator and the entry, and for the neutral entry exactly the    *)
(* accumulator's coordinates (not a multiple of them).                     *)
LeafComputesMixedAdd ==
  Finished /\ leaf \in {"base", "lookup_fed"} =>
    Result = IF entry = None THEN acc ELSE MixedAdd(acc, entry)

(* Whatever the leaf, its result for a non-neutral entry is coordinate for *)
(* coordinate that of common.complete_projective_add_a0, also for doubling,*)
(* for inverses and for an accumulator at infinity or with Z # 1.          *)
MatchesReference ==
  Finished /\ entry # None =>
    Result = complete_projective_add_a0(acc, affine_to_proj(entry))

(* run_coherent_cleanup's claim, at every point of the execution: from its *)
(* extraction to its clearing the no-op flag is the metadata bit, the bit  *)
(* itself survives, and a netlist that extracts the flag for its selects   *)
(* leaves it 0.                                                            *)
FlagUncomputed ==
  ~Idle /\ env["f_lookup_inf"] # Undef =>
    /\ env[MetaReg] = TableMeta
    /\ env["f_lookup_inf"] = IF Finished THEN 0 ELSE TableMeta
=============================================================================
