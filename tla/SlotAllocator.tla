--------------------------- MODULE SlotAllocator ---------------------------
(***************************************************************************)
(* The allocator that puts the register versions of a leaf on physical     *)
(* slots (project.py, _slot_allocation_for_leaf).  Every write of a        *)
(* register is a version; a version is alive from its write to the last    *)
(* instruction that reads it; a version's slot may be taken over by a      *)
(* version of the same class written by the instruction that reads it last.*)
(*                                                                         *)
(* A program is a sequence of instructions [src |-> registers read,        *)
(* dst |-> registers written, in order], restricted to the tracked         *)
(* registers.  A version is <<i, k>>: the k-th destination of instruction i.*)
(***************************************************************************)
EXTENDS Integers, Sequences, FiniteSets

CONSTANTS Arithmetic,   \* arithmetic_slots
          Control,      \* control_slots
          Programs      \* the leaves to allocate

Instruction == [src : SUBSET (Arithmetic \cup Control),
                dst : Seq(Arithmetic \cup Control)]

ASSUME ProgramAssumption ==
  /\ Arithmetic \cap Control = {}
  /\ \A prog \in Programs : prog # << >> /\ prog \in Seq(Instruction)

Class == {"arithmetic", "control"}

VARIABLES prog,      \* the leaf being allocated
          pc,        \* the instruction being processed
          k,         \* its next destination, or 0 while versions are released
          dying,     \* versions whose slot this instruction may hand over
          live,      \* versions alive
          assigned,  \* the slot of every version met so far
          free,      \* slots given back, per class
          next,      \* slots ever used, per class
          peak       \* slots needed during a write so far, per class

vars == <<prog, pc, k, dying, live, assigned, free, next, peak>>
-----------------------------------------------------------------------------
(***************************************************************************)
(* Liveness, the first loop of the function, for a leaf p.                 *)
(***************************************************************************)
Version(p) == UNION {{<<i, j>> : j \in DOMAIN p[i].dst} : i \in DOMAIN p}
Reg(p, v) == p[v[1]].dst[v[2]]
ClassOf(p, v) == IF Reg(p, v) \in Arithmetic THEN "arithmetic" ELSE "control"
Before(v, w) == v[1] < w[1] \/ (v[1] = w[1] /\ v[2] < w[2])

(* Instruction i reads v: the register's current version when i runs.      *)
UsedAt(p, v, i) ==
  /\ v[1] < i
  /\ Reg(p, v) \in p[i].src
  /\ \A w \in Version(p) : Reg(p, w) = Reg(p, v) /\ Before(v, w) => w[1] >= i

(* Not so when i is the version's last_use.                                *)
NeededAfter(p, v, i) == \E j \in DOMAIN p : j > i /\ UsedAt(p, v, j)

Slots(vs, c) == {assigned[v] : v \in {w \in vs : ClassOf(prog, w) = c}}
Dsts(p, i, c) == {j \in DOMAIN p[i].dst :
                    p[i].dst[j] \in (IF c = "arithmetic" THEN Arithmetic ELSE Control)}

(* arithmetic_during, control_during: what instruction i needs while it    *)
(* writes, when vs are alive before it.                                    *)
(* Fault: slots handed over are counted twice. *)
DuringTwice(vs, i, c) ==
  Cardinality(Slots(vs, c)) + Cardinality(Dsts(prog, i, c))
During(vs, i, c) ==
  LET written == Cardinality(Dsts(prog, i, c))
      handed  == Cardinality({v \in vs : ClassOf(prog, v) = c /\ ~NeededAfter(prog, v, i)})
  IN  Cardinality(Slots(vs, c)) + written - (IF written < handed THEN written ELSE handed)

Bigger(m, n) == IF m < n THEN n ELSE m
-----------------------------------------------------------------------------
Init ==
  /\ prog \in Programs
  /\ pc = 1 /\ k = 1
  /\ dying = {} /\ live = {} /\ assigned = << >>
  /\ free = [c \in Class |-> {}]
  /\ next = [c \in Class |-> 0]
  /\ peak = [c \in Class |-> Cardinality(Dsts(prog, 1, c))]

Writing == pc <= Len(prog) /\ k \in DOMAIN prog[pc].dst
New == <<pc, k>>
NewClass == ClassOf(prog, New)
(* Fault: only an overwrite of the same register takes a slot over. *)
HeirsSameRegister == {v \in dying : Reg(prog, v) = Reg(prog, New)}
Heirs == {v \in dying : ClassOf(prog, v) = NewClass}

Assign(slot) ==
  /\ assigned' = [v \in DOMAIN assigned \cup {New} |->
                    IF v = New THEN slot ELSE assigned[v]]
  /\ live' = live \cup {New}
  /\ k' = k + 1
  /\ UNCHANGED <<prog, pc, peak>>

(* A version takes over the slot of one that dies here.  Which one: the    *)
(* code takes them in the order of a Python set of integers.               *)
TakeOver(old) ==
  /\ Writing /\ old \in Heirs
  /\ Assign(assigned[old])
  /\ dying' = dying \ {old}
  /\ UNCHANGED <<free, next>>

TakeFree ==
  /\ Writing /\ Heirs = {}
  /\ \E slot \in free[NewClass] :
       /\ \A other \in free[NewClass] : slot <= other
       /\ Assign(slot)
       /\ free' = [free EXCEPT ![NewClass] = @ \ {slot}]
  /\ UNCHANGED <<dying, next>>

(* Fault: the counter of used slots is not advanced. *)
TakeNextStuck ==
  /\ Writing /\ Heirs = {} /\ free[NewClass] = {}
  /\ Assign(next[NewClass])
  /\ UNCHANGED <<dying, free, next>>
TakeNext ==
  /\ Writing /\ Heirs = {} /\ free[NewClass] = {}
  /\ Assign(next[NewClass])
  /\ next' = [next EXCEPT ![NewClass] = @ + 1]
  /\ UNCHANGED <<dying, free>>

EndWrites ==
  /\ pc <= Len(prog) /\ k > Len(prog[pc].dst)
  /\ k' = 0 /\ dying' = {}
  /\ UNCHANGED <<prog, pc, live, assigned, free, next, peak>>

(* Releasing a version gives its slot back unless a version still alive    *)
(* has the same slot number, of whatever class.                            *)
(* Fault: a slot that was taken over is given back as well. *)
ReleaseAlways(v) ==
  /\ k = 0 /\ v \in live /\ ~NeededAfter(prog, v, pc)
  /\ live' = live \ {v}
  /\ free' = [free EXCEPT ![ClassOf(prog, v)] = @ \cup {assigned[v]}]
  /\ UNCHANGED <<prog, pc, k, dying, assigned, next, peak>>
(* Fault: a slot shared with any earlier version is kept. *)
ReleaseLeaky(v) ==
  /\ k = 0 /\ v \in live /\ ~NeededAfter(prog, v, pc)
  /\ live' = live \ {v}
  /\ free' = IF \E other \in DOMAIN assigned \ {v} : assigned[other] = assigned[v] THEN free
             ELSE [free EXCEPT ![ClassOf(prog, v)] = @ \cup {assigned[v]}]
  /\ UNCHANGED <<prog, pc, k, dying, assigned, next, peak>>
Release(v) ==
  /\ k = 0 /\ v \in live /\ ~NeededAfter(prog, v, pc)
  /\ live' = live \ {v}
  /\ free' = IF \E other \in live \ {v} : assigned[other] = assigned[v] THEN free
             ELSE [free EXCEPT ![ClassOf(prog, v)] = @ \cup {assigned[v]}]
  /\ UNCHANGED <<prog, pc, k, dying, assigned, next, peak>>

NextInstruction ==
  /\ k = 0 /\ pc <= Len(prog)
  /\ \A v \in live : NeededAfter(prog, v, pc)
  /\ pc' = pc + 1 /\ k' = 1
  /\ dying' = {v \in live : ~NeededAfter(prog, v, pc + 1)}
  /\ peak' = IF pc = Len(prog) THEN peak
             ELSE [c \in Class |-> Bigger(peak[c], During(live, pc + 1, c))]
  /\ UNCHANGED <<prog, live, assigned, free, next>>

Allocated == pc > Len(prog)
Finished == Allocated /\ UNCHANGED vars

Next == \/ \E old \in dying : TakeOver(old)
        \/ TakeFree \/ TakeNext \/ EndWrites
        \/ \E v \in live : Release(v)
        \/ NextInstruction \/ Finished

Spec == Init /\ [][Next]_vars
-----------------------------------------------------------------------------
TypeOK ==
  /\ prog \in Programs
  /\ pc \in 1 .. Len(prog) + 1
  /\ k \in Nat
  /\ live \subseteq DOMAIN assigned /\ dying \subseteq live
  /\ DOMAIN assigned \subseteq Version(prog)
  /\ \A v \in DOMAIN assigned : assigned[v] \in 0 .. next[ClassOf(prog, v)] - 1
  /\ next \in [Class -> Nat] /\ peak \in [Class -> Nat]
  /\ \A c \in Class : free[c] \subseteq 0 .. next[c] - 1

SameSlot(v, w) == ClassOf(prog, v) = ClassOf(prog, w) /\ assigned[v] = assigned[w]

(* A slot is written again only once nobody reads its version any more: a  *)
(* version is read by no instruction after the one that writes a later     *)
(* version to its slot, and one instruction never writes two versions to   *)
(* one slot.  A leaf run on the slots computes what it computes on its     *)
(* named registers.                                                        *)
SlotsHoldVersions ==
  \A v, w \in DOMAIN assigned :
    SameSlot(v, w) /\ Before(v, w) => v[1] < w[1] /\ ~NeededAfter(prog, v, w[1])

(* The two assertions that end the loop body never fail: once the versions *)
(* read no more are released, live versions of a class have slots of       *)
(* their own.                                                              *)
LiveSlotsApart == [][NextInstruction => \A v, w \in live : SameSlot(v, w) => v = w]_vars

(* no_free_quantum_wire_invariant: the budget of a class, its slots,       *)
(* covers the versions of the class that are alive at any write.           *)
BudgetCoversPeak ==
  Allocated => \A c \in Class : peak[c] <= next[c]
=============================================================================
