-------------------------- MODULE AttestationGuest --------------------------
(***************************************************************************)
(* What the attestation proves of the leaf: the compilation of a netlist   *)
(* for the guest (zkp_attestation.py), the guest's own interpreter, its    *)
(* own group law, and the check of a case (lib.rs), next to the machine    *)
(* that executes the same call in Python.                                  *)
(*                                                                         *)
(* Registers keep their names: the compilation only numbers them.          *)
(***************************************************************************)
EXTENDS PointAddLeaf

(* The registers a compiled leaf starts with.                              *)
Interface == {"Q.X", "Q.Y", "Q.Z", "k", "lookup_x", "lookup_y", "lookup_meta"}
Outputs == {"qx", "qy", "qz"}

(* A lookup is a copy of the wire the guest has put the entry on.          *)
CompiledInstruction(ins) ==
  CASE ins.op = "load_input"      -> Ins("copy", ins.dst, ins.src)
    [] ins.op = "lookup_affine_x" -> Ins("copy", ins.dst, <<"lookup_x">>)
    [] ins.op = "lookup_affine_y" -> Ins("copy", ins.dst, <<"lookup_y">>)
    [] ins.op = "lookup_meta"     -> Ins("copy", ins.dst, <<"lookup_meta">>)
    [] OTHER -> ins
Code(l) == [i \in 1 .. NetlistLength(l) |-> CompiledInstruction(Netlist(l)[i])]

Targets(ins) == IF ins.op = "complete_a0_all_streamed_tail" THEN Outputs ELSE {ins.dst}
Operands(ins) ==
  {ins.src[i] : i \in DOMAIN ins.src} \cup (IF ins.op = "clear_bool_from_flag" THEN {ins.dst} ELSE {})

(* The compiler refuses an operand that is not defined by then.            *)
Compiles(l) ==
  LET code == Code(l)
      Defined(i) == Interface \cup UNION {Targets(code[j]) : j \in 1 .. i - 1}
  IN  /\ \A i \in DOMAIN code : Operands(code[i]) \subseteq Defined(i)
      /\ Outputs \subseteq Defined(NetlistLength(l) + 1)

(* Fault: the policy of the leaf is not passed on to the guest. *)
skip_never(l) == FALSE
skip_on_lookup_infinity(l) == l = "streamed_tail"
-----------------------------------------------------------------------------
(* Subtraction of naturals.                                                *)
mod_sub(a, b) == IF a >= b THEN (a - b) % P ELSE (P - ((b - a) % P)) % P

(* The streamed tail from the accumulator, with the entry (x, y).          *)
StreamedOutputs(q, x, y) ==
  LET h == FMul(FAdd(q[1], q[2]), FAdd(x, y))
      a == FMul(q[1], x)
      c == FMul(21, FAdd(q[1], FMul(q[3], x)))
      i == FMul(q[2], y)
      k == mod_sub(mod_sub(h, a), i)
      e == FAdd(q[2], FMul(y, q[3]))
      f == FMul(21, q[3])
      l == FMul(3, a)
      m == FAdd(i, f)
      n == mod_sub(i, f)
  IN  <<mod_sub(FMul(k, n), FMul(e, c)), (n * m + c * l) % P, (m * e + l * k) % P>>

(* The register file: zero but for the interface, where the neutral entry  *)
(* shows as (0, 0) with its metadata bit set.                              *)
Registers(a, t) ==
  LET q == affine_to_proj(a)
  IN  [r \in Reg \cup {"k"} |->
        CASE r = "Q.X" -> q[1]
          [] r = "Q.Y" -> q[2]
          [] r = "Q.Z" -> q[3]
          [] r = "lookup_x" /\ t # None -> t[1]
          [] r = "lookup_y" /\ t # None -> t[2]
          [] r = "k" /\ t # None -> 1
          [] r = "lookup_meta" /\ t = None -> 1
          [] OTHER -> 0]

Executed(regs, ins, t) ==
  LET s(i) == regs[ins.src[i]]
      value == CASE ins.op = "copy" -> s(1)
                 [] ins.op = "bool_from_flag" -> s(1) % 2
                 [] ins.op = "clear_bool_from_flag" -> (regs[ins.dst] + (s(1) % 2)) % 2
                 [] ins.op = "field_mul" -> FMul(s(1), s(2))
                 [] ins.op = "field_add" -> FAdd(s(1), s(2))
                 [] ins.op = "field_sub" -> mod_sub(s(1), s(2))
                 [] ins.op = "mul_const" -> FMul(21, s(1))
                 [] ins.op = "select_field_if_flag" -> IF s(3) = 0 THEN s(2) ELSE s(1)
      point == IF t = None THEN <<0, 0>> ELSE t
      out == StreamedOutputs(<<s(1), s(2), s(3)>>, point[1], point[2])
  IN  IF ins.op = "complete_a0_all_streamed_tail"
      THEN [regs EXCEPT !["qx"] = out[1], !["qy"] = out[2], !["qz"] = out[3]]
      ELSE [regs EXCEPT ![ins.dst] = value]

execute_leaf(l, a, t) ==
  LET code == Code(l)
      file[n \in 0 .. NetlistLength(l)] ==
        IF n = 0 THEN Registers(a, t) ELSE Executed(file[n - 1], code[n], t)
      last == file[NetlistLength(l)]
  IN  IF skip_on_lookup_infinity(l) /\ t = None THEN affine_to_proj(a)
      ELSE <<last["qx"], last["qy"], last["qz"]>>
-----------------------------------------------------------------------------
(* The group law without an inverse: the denominator stays in Z.           *)
OverDenominator(pa, qa, num, den, sum) ==
  LET den2 == FMul(den, den)
      den3 == FMul(den2, den)
      x3   == mod_sub(FMul(num, num), FMul(den2, sum))
      y3   == mod_sub(FMul(num, mod_sub(FMul(pa[1], den2), x3)), FMul(pa[2], den3))
  IN  <<FMul(den, x3), y3, den3>>

add_affine_projective(pa, qa) ==
  CASE pa = None -> affine_to_proj(qa)
    [] pa # None /\ qa = None -> affine_to_proj(pa)
    [] pa # None /\ qa # None /\ pa[1] # qa[1] ->
         OverDenominator(pa, qa, mod_sub(qa[2], pa[2]), mod_sub(qa[1], pa[1]), FAdd(pa[1], qa[1]))
    [] pa # None /\ qa # None /\ pa[1] = qa[1] ->
         IF FAdd(pa[2], qa[2]) = 0 \/ FMul(2, pa[2]) = 0 THEN affine_to_proj(None)
         ELSE OverDenominator(pa, qa, FMul(3 * pa[1], pa[1]), FMul(2, pa[2]), FMul(2, pa[1]))

projective_matches_affine(q, expected) ==
  IF expected = None THEN q[3] = 0
  ELSE q[3] # 0 /\ q[1] = FMul(expected[1], q[3]) /\ q[2] = FMul(expected[2], q[3])

(* The two assertions on a case of the corpus.                             *)
CasePasses(l, a, t, expected) ==
  /\ projective_matches_affine(add_affine_projective(a, t), expected)
  /\ projective_matches_affine(execute_leaf(l, a, t), expected)
-----------------------------------------------------------------------------
(* The leaves the guest accepts, by the type of their document.            *)
Attested == {"lookup_fed", "streamed_tail"}
Returned == IF BoundaryNoop THEN acc ELSE Result
AffineCall == leaf \in Attested /\ (Finished \/ BoundaryNoop) /\ acc = affine_to_proj(proj_to_affine(acc))

(* A case takes its expected point from the Python execution.  The guest   *)
(* compiles the leaf, leaves the same triple in the same registers, and of *)
(* all the points a case could expect it lets this one pass and no other:  *)
(* what is attested of the Python leaf is what the guest computes.         *)
GuestAcceptsOnlyTheResult ==
  AffineCall =>
    LET a == proj_to_affine(acc)
    IN  /\ Compiles(leaf)
        /\ execute_leaf(leaf, a, entry) = Returned
        /\ \A expected \in (Field \X Field) \cup {None} :
             CasePasses(leaf, a, entry, expected) <=> expected = proj_to_affine(Returned)
=============================================================================
