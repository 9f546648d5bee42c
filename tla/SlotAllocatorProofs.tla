------------------------ MODULE SlotAllocatorProofs ------------------------
(***************************************************************************)
(* For every leaf whatsoever the allocation never writes a slot while an   *)
(* instruction still reads the version in it, and the slots ever opened    *)
(* cover the peak of its live versions.                                    *)
(*                                                                         *)
(* The invariant: a version that is not live is read no more; live         *)
(* versions share a slot only while the heir of this instruction and the   *)
(* version it took over coexist; a free slot holds no live version.        *)
(***************************************************************************)
EXTENDS SlotAllocator, FiniteSetTheorems, TLAPS

(* Versions met so far are written by this instruction or an earlier one.  *)
Scope ==
  \A v \in DOMAIN assigned :
    /\ v \in Version(prog)
    /\ v[1] \in Nat /\ v[2] \in Nat /\ v[1] <= pc
    /\ v[1] = pc => k = 0 \/ v[2] < k

Dead ==
  \A v \in DOMAIN assigned \ live :
    ~NeededAfter(prog, v, pc) /\ (v[1] = pc => k = 0)

DyingEnd ==
  /\ dying \subseteq live
  /\ k = 0 => dying = {}
  /\ \A v \in dying : v[1] < pc /\ ~NeededAfter(prog, v, pc)

Distinct ==
  \A v, w \in live :
    SameSlot(v, w) /\ v # w /\ w[1] = v[1] => FALSE

HandedOver ==
  \A v, w \in live :
    SameSlot(v, w) /\ v[1] < w[1] =>
      w[1] = pc /\ v \notin dying /\ ~NeededAfter(prog, v, pc)

FreeIsFree ==
  \A v \in live : assigned[v] \notin free[ClassOf(prog, v)]

Ranges ==
  /\ prog \in Programs
  /\ pc \in 1 .. Len(prog) + 1 /\ Len(prog) \in Nat
  /\ k \in Nat
  /\ live \subseteq DOMAIN assigned
  /\ next \in [Class -> Nat] /\ DOMAIN free = Class
  /\ \A v \in DOMAIN assigned : assigned[v] \in 0 .. next[ClassOf(prog, v)] - 1
  /\ \A c \in Class : free[c] \subseteq 0 .. next[c] - 1

IInv == /\ Ranges /\ Scope /\ Dead /\ DyingEnd /\ Distinct /\ HandedOver
        /\ FreeIsFree /\ SlotsHoldVersions
-----------------------------------------------------------------------------
(* A leaf is a sequence of instructions.                                   *)
LEMMA LeafShape ==
  ASSUME NEW p \in Programs
  PROVE  /\ Len(p) \in Nat /\ DOMAIN p = 1 .. Len(p)
         /\ \A i \in DOMAIN p : Len(p[i].dst) \in Nat
                                /\ DOMAIN p[i].dst = 1 .. Len(p[i].dst)
<1>1. p \in Seq(Instruction) BY ProgramAssumption
<1>2. \A i \in 1 .. Len(p) : p[i] \in Instruction BY <1>1
<1>3. \A i \in 1 .. Len(p) : p[i].dst \in Seq(Arithmetic \cup Control)
  BY <1>2 DEF Instruction
<1> QED BY <1>1, <1>3

(* What is not read after an instruction is not read after the next one.   *)
LEMMA NeededShrinks ==
  ASSUME NEW p \in Programs, NEW v, NEW i \in Nat, ~NeededAfter(p, v, i)
  PROVE  ~NeededAfter(p, v, i + 1)
<1>1. DOMAIN p \subseteq Nat BY LeafShape
<1> QED BY <1>1 DEF NeededAfter

LEMMA ClassIsClass ==
  ASSUME NEW p, NEW v PROVE ClassOf(p, v) \in Class
BY DEF ClassOf, Class

LEMMA InitIInv == Init => IInv
<1> SUFFICES ASSUME Init PROVE IInv
  OBVIOUS
<1>1. prog \in Programs /\ Len(prog) \in Nat BY LeafShape DEF Init
<1>2. DOMAIN assigned = {} /\ live = {} /\ dying = {} BY DEF Init
<1>3. Ranges BY <1>1, <1>2 DEF Init, Ranges
<1>4. Scope /\ Dead /\ DyingEnd /\ Distinct /\ HandedOver /\ FreeIsFree /\ SlotsHoldVersions
  BY <1>2 DEF Scope, Dead, DyingEnd, Distinct, HandedOver, FreeIsFree, SlotsHoldVersions
<1> QED BY <1>3, <1>4 DEF IInv
-----------------------------------------------------------------------------
(* The version being written is new, and the map grows by it alone.        *)
LEMMA AssignGrows ==
  ASSUME IInv, Writing, NEW STATE slot, Assign(slot)
  PROVE  /\ pc \in Nat /\ k \in Nat /\ k # 0
         /\ New \in Version(prog) /\ New \notin DOMAIN assigned
         /\ New[1] = pc /\ New[2] = k
         /\ DOMAIN assigned' = DOMAIN assigned \cup {New}
         /\ assigned'[New] = slot
         /\ \A v \in DOMAIN assigned : assigned'[v] = assigned[v]
         /\ live' = live \cup {New} /\ k' = k + 1 /\ pc' = pc /\ prog' = prog
<1>1. prog \in Programs /\ pc \in 1 .. Len(prog) + 1 /\ Len(prog) \in Nat /\ k \in Nat
  BY DEF IInv, Ranges
<1>2. pc \in DOMAIN prog /\ k \in DOMAIN prog[pc].dst
  BY <1>1, LeafShape DEF Writing
<1>3. k # 0 BY <1>1, <1>2, LeafShape
<1>4. New \in Version(prog) BY <1>2 DEF New, Version
<1>5. New[1] = pc /\ New[2] = k BY DEF New
<1>6. New \notin DOMAIN assigned
  <2> SUFFICES ASSUME New \in DOMAIN assigned PROVE FALSE
    OBVIOUS
  <2>1. k = 0 \/ k < k BY <1>5 DEF IInv, Scope
  <2> QED BY <2>1, <1>1, <1>3
<1>7. /\ DOMAIN assigned' = DOMAIN assigned \cup {New}
      /\ assigned'[New] = slot
      /\ \A v \in DOMAIN assigned : assigned'[v] = assigned[v]
  BY <1>6 DEF Assign
<1> QED BY <1>1, <1>3, <1>4, <1>5, <1>6, <1>7 DEF Assign

(* A write keeps the invariant when its slot is in range, is not free, and *)
(* every earlier version in it was written before this instruction, is not *)
(* read after it, and cannot be taken over again.                          *)
LEMMA WriteIInv ==
  ASSUME IInv, Writing, NEW STATE slot, Assign(slot),
         slot \in 0 .. next'[NewClass] - 1,
         \A v \in DOMAIN assigned :
           ClassOf(prog, v) = NewClass /\ assigned[v] = slot =>
             v[1] < pc /\ ~NeededAfter(prog, v, pc) /\ v \notin dying',
         slot \notin free'[NewClass],
         dying' \subseteq dying, DOMAIN free' = Class, next' \in [Class -> Nat],
         \A c \in Class : free'[c] \subseteq free[c] /\ next[c] <= next'[c]
  PROVE  IInv'
<1> DEFINE Old == DOMAIN assigned
<1>1. /\ pc \in Nat /\ k \in Nat /\ k # 0
      /\ New \in Version(prog) /\ New \notin Old
      /\ New[1] = pc /\ New[2] = k
      /\ DOMAIN assigned' = Old \cup {New}
      /\ assigned'[New] = slot
      /\ \A v \in Old : assigned'[v] = assigned[v]
      /\ live' = live \cup {New} /\ k' = k + 1 /\ pc' = pc /\ prog' = prog
  BY AssignGrows
<1>2. /\ prog \in Programs /\ Len(prog) \in Nat /\ pc \in 1 .. Len(prog) + 1
      /\ live \subseteq Old /\ next \in [Class -> Nat]
      /\ \A v \in Old : assigned[v] \in 0 .. next[ClassOf(prog, v)] - 1
      /\ \A c \in Class : free[c] \subseteq 0 .. next[c] - 1
  BY DEF IInv, Ranges
<1>3. \A v \in Old : v \in Version(prog) /\ v[1] \in Nat /\ v[2] \in Nat /\ v[1] <= pc
                     /\ (v[1] = pc => v[2] < k)
  BY <1>1 DEF IInv, Scope
<1>4. NewClass = ClassOf(prog, New) /\ NewClass \in Class
  BY ClassIsClass DEF NewClass
<1>5. \A v, w : SameSlot(v, w)' => ClassOf(prog, v) = ClassOf(prog, w)
                                    /\ assigned'[v] = assigned'[w]
  BY <1>1 DEF SameSlot
<1>6. ASSUME NEW v \in Old, NEW w, w = New, SameSlot(v, w)'
      PROVE  v[1] < pc /\ ~NeededAfter(prog, v, pc) /\ v \notin dying'
  <2>1. ClassOf(prog, v) = NewClass /\ assigned[v] = slot
    BY <1>1, <1>4, <1>5, <1>6
  <2> QED BY <2>1
<1>7. ASSUME NEW v \in Old, NEW w \in Old, SameSlot(v, w)'
      PROVE  SameSlot(v, w)
  <2>1. ClassOf(prog, v) = ClassOf(prog, w) /\ assigned[v] = assigned[w]
    BY <1>1, <1>5, <1>7
  <2> QED BY <2>1 DEF SameSlot
<1>8. Ranges'
  <2>1. \A v \in Old : assigned[v] \in 0 .. next'[ClassOf(prog, v)] - 1
    <3> SUFFICES ASSUME NEW v \in Old
                 PROVE  assigned[v] \in 0 .. next'[ClassOf(prog, v)] - 1
      OBVIOUS
    <3>1. ClassOf(prog, v) \in Class BY ClassIsClass
    <3> QED BY <3>1, <1>2
  <2>2. \A v \in DOMAIN assigned' : assigned'[v] \in 0 .. next'[ClassOf(prog', v)] - 1
    BY <2>1, <1>1, <1>4
  <2>3. \A c \in Class : free'[c] \subseteq 0 .. next'[c] - 1
    BY <1>2
  <2> QED BY <1>1, <1>2, <2>2, <2>3 DEF Ranges
<1>9. Scope'
  <2>1. ASSUME NEW v \in Old
        PROVE  v[1] = pc' => k' = 0 \/ v[2] < k'
    BY <1>1, <1>3
  <2> QED BY <1>1, <1>3, <2>1 DEF Scope
<1>10. Dead'
  <2> SUFFICES ASSUME NEW v \in DOMAIN assigned' \ live'
               PROVE  ~NeededAfter(prog, v, pc) /\ (v[1] = pc => k' = 0)
    BY <1>1 DEF Dead
  <2>1. v \in Old \ live BY <1>1
  <2> QED BY <2>1, <1>1 DEF IInv, Dead
<1>11. DyingEnd'
  <2>1. dying' \subseteq live' /\ k' # 0 BY <1>1 DEF IInv, DyingEnd
  <2> QED BY <2>1, <1>1 DEF IInv, DyingEnd
<1>12. Distinct'
  <2> SUFFICES ASSUME NEW v \in live', NEW w \in live', SameSlot(v, w)', v # w, w[1] = v[1]
               PROVE  FALSE
    BY DEF Distinct
  <2>1. CASE v = New
    <3>1. w \in Old /\ SameSlot(w, v)' BY <2>1, <1>1, <1>2 DEF SameSlot
    <3> QED BY <3>1, <2>1, <1>1, <1>6
  <2>2. CASE v # New /\ w = New
    <3>1. v \in Old BY <2>2, <1>1, <1>2
    <3> QED BY <3>1, <2>2, <1>1, <1>6
  <2>3. CASE v # New /\ w # New
    <3>1. v \in live /\ w \in live /\ SameSlot(v, w) BY <2>3, <1>1, <1>2, <1>7
    <3> QED BY <3>1 DEF IInv, Distinct
  <2> QED BY <2>1, <2>2, <2>3
<1>13. HandedOver'
  <2> SUFFICES ASSUME NEW v \in live', NEW w \in live', SameSlot(v, w)', v[1] < w[1]
               PROVE  w[1] = pc /\ v \notin dying' /\ ~NeededAfter(prog, v, pc)
    BY <1>1 DEF HandedOver
  <2>1. CASE v = New BY <2>1, <1>1, <1>2, <1>3
  <2>2. CASE v # New /\ w = New BY <2>2, <1>1, <1>2, <1>6
  <2>3. CASE v # New /\ w # New
    <3>1. v \in live /\ w \in live /\ SameSlot(v, w) BY <2>3, <1>1, <1>2, <1>7
    <3> QED BY <3>1 DEF IInv, HandedOver
  <2> QED BY <2>1, <2>2, <2>3
<1>14. FreeIsFree'
  <2> SUFFICES ASSUME NEW v \in live' PROVE assigned'[v] \notin free'[ClassOf(prog, v)]
    BY <1>1 DEF FreeIsFree
  <2>1. CASE v = New BY <2>1, <1>1, <1>4
  <2>2. CASE v # New
    <3>1. v \in live /\ assigned'[v] = assigned[v] BY <2>2, <1>1, <1>2
    <3>2. ClassOf(prog, v) \in Class BY ClassIsClass
    <3> QED BY <3>1, <3>2 DEF IInv, FreeIsFree
  <2> QED BY <2>1, <2>2
<1>15. SlotsHoldVersions'
  <2> SUFFICES ASSUME NEW v \in DOMAIN assigned', NEW w \in DOMAIN assigned',
                      SameSlot(v, w)', Before(v, w)
               PROVE  v[1] < w[1] /\ ~NeededAfter(prog, v, w[1])
    BY <1>1 DEF SlotsHoldVersions
  <2>1. CASE v = New /\ w = New BY <2>1, <1>1 DEF Before
  <2>2. CASE v = New /\ w # New BY <2>2, <1>1, <1>3 DEF Before
  <2>3. CASE v # New /\ w = New BY <2>3, <1>1, <1>6
  <2>4. CASE v # New /\ w # New BY <2>4, <1>1, <1>7 DEF IInv, SlotsHoldVersions
  <2> QED BY <2>1, <2>2, <2>3, <2>4
<1> QED BY <1>8, <1>9, <1>10, <1>11, <1>12, <1>13, <1>14, <1>15 DEF IInv

(* What nobody holds any more was written by an earlier instruction.       *)
LEMMA DeadIsPast ==
  ASSUME IInv, Writing, NEW v \in DOMAIN assigned \ live
  PROVE  v[1] < pc /\ ~NeededAfter(prog, v, pc) /\ v \notin dying
<1>1. prog \in Programs /\ pc \in 1 .. Len(prog) + 1 /\ Len(prog) \in Nat /\ k \in Nat
  BY DEF IInv, Ranges
<1>2. k # 0
  <2>1. pc \in DOMAIN prog BY <1>1, LeafShape DEF Writing
  <2>2. k \in 1 .. Len(prog[pc].dst) BY <1>1, <2>1, LeafShape DEF Writing
  <2> QED BY <2>2
<1>3. v[1] \in Nat /\ v[1] <= pc BY DEF IInv, Scope
<1>4. ~NeededAfter(prog, v, pc) /\ v[1] # pc BY <1>2 DEF IInv, Dead
<1>5. v \notin dying BY DEF IInv, DyingEnd
<1> QED BY <1>1, <1>3, <1>4, <1>5

LEMMA TakeOverIInv ==
  ASSUME IInv, NEW old \in dying, TakeOver(old)
  PROVE  IInv'
<1>1. Writing /\ Assign(assigned[old]) /\ ClassOf(prog, old) = NewClass
      /\ dying' = dying \ {old} /\ free' = free /\ next' = next
  BY DEF TakeOver, Heirs
<1>2. old \in live /\ old[1] < pc /\ ~NeededAfter(prog, old, pc)
  BY DEF IInv, DyingEnd
<1>3. old \in DOMAIN assigned BY <1>2 DEF IInv, Ranges
<1>4. assigned[old] \in 0 .. next'[NewClass] - 1
  BY <1>1, <1>3 DEF IInv, Ranges
<1>5. ASSUME NEW v \in DOMAIN assigned, ClassOf(prog, v) = NewClass, assigned[v] = assigned[old]
      PROVE  v[1] < pc /\ ~NeededAfter(prog, v, pc) /\ v \notin dying'
  <2>1. CASE v = old BY <2>1, <1>1, <1>2
  <2>2. CASE v # old /\ v \in live
    <3>1. SameSlot(v, old) /\ SameSlot(old, v) BY <1>1, <1>5 DEF SameSlot
    <3>2. v[1] # old[1] BY <3>1, <2>2, <1>2 DEF IInv, Distinct
    <3>3. v[1] \in Nat /\ old[1] \in Nat BY <1>3 DEF IInv, Scope
    <3>4. ~(v[1] < old[1])
      <4> SUFFICES ASSUME v[1] < old[1] PROVE FALSE
        OBVIOUS
      <4>1. old[1] = pc BY <3>1, <2>2, <1>2 DEF IInv, HandedOver
      <4>2. pc \in Nat BY <3>3, <4>1
      <4> QED BY <4>1, <4>2, <1>2
    <3>5. ~(old[1] < v[1]) BY <3>1, <2>2, <1>2 DEF IInv, HandedOver
    <3> QED BY <3>2, <3>3, <3>4, <3>5
  <2>3. CASE v \notin live BY <2>3, <1>1, DeadIsPast
  <2> QED BY <2>1, <2>2, <2>3
<1>6. assigned[old] \notin free'[NewClass] BY <1>1, <1>2 DEF IInv, FreeIsFree
<1>7. DOMAIN free' = Class /\ next' \in [Class -> Nat]
      /\ \A c \in Class : free'[c] \subseteq free[c] /\ next[c] <= next'[c]
  BY <1>1 DEF IInv, Ranges
<1> QED BY <1>1, <1>4, <1>5, <1>6, <1>7, WriteIInv

LEMMA TakeFreeIInv ==
  ASSUME IInv, TakeFree
  PROVE  IInv'
<1>1. PICK slot \in free[NewClass] :
        Assign(slot) /\ free' = [free EXCEPT ![NewClass] = @ \ {slot}]
  BY DEF TakeFree
<1>2. Writing /\ dying' = dying /\ next' = next BY DEF TakeFree
<1>3. NewClass \in Class BY ClassIsClass DEF NewClass
<1>4. DOMAIN free = Class /\ next \in [Class -> Nat]
      /\ \A c \in Class : free[c] \subseteq 0 .. next[c] - 1
  BY DEF IInv, Ranges
<1>5. slot \in 0 .. next'[NewClass] - 1 BY <1>2, <1>3, <1>4
<1>6. ASSUME NEW v \in DOMAIN assigned, ClassOf(prog, v) = NewClass, assigned[v] = slot
      PROVE  v[1] < pc /\ ~NeededAfter(prog, v, pc) /\ v \notin dying'
  <2>1. v \notin live BY <1>6 DEF IInv, FreeIsFree
  <2> QED BY <2>1, <1>2, DeadIsPast
<1>7. DOMAIN free' = Class /\ slot \notin free'[NewClass]
      /\ \A c \in Class : free'[c] \subseteq free[c]
  BY <1>1, <1>3, <1>4
<1>8. \A c \in Class : next[c] <= next'[c] BY <1>2, <1>4
<1>9. dying' \subseteq dying /\ next' \in [Class -> Nat] BY <1>2, <1>4
<1> QED BY <1>1, <1>2, <1>5, <1>6, <1>7, <1>8, <1>9, WriteIInv

LEMMA TakeNextIInv ==
  ASSUME IInv, TakeNext
  PROVE  IInv'
<1>1. Writing /\ Assign(next[NewClass]) /\ dying' = dying /\ free' = free
      /\ next' = [next EXCEPT ![NewClass] = @ + 1]
  BY DEF TakeNext
<1>2. NewClass \in Class BY ClassIsClass DEF NewClass
<1>3. DOMAIN free = Class /\ next \in [Class -> Nat]
      /\ \A c \in Class : free[c] \subseteq 0 .. next[c] - 1
  BY DEF IInv, Ranges
<1>4. next' \in [Class -> Nat] /\ next'[NewClass] = next[NewClass] + 1
      /\ next[NewClass] \in Nat
  BY <1>1, <1>2, <1>3
<1>5. next[NewClass] \in 0 .. next'[NewClass] - 1 BY <1>4
<1>6. \A c \in Class : free'[c] \subseteq free[c] /\ next[c] <= next'[c]
  BY <1>1, <1>2, <1>3
<1>7. next[NewClass] \notin free'[NewClass] BY <1>1, <1>2, <1>3
<1>8. \A v \in DOMAIN assigned : ClassOf(prog, v) = NewClass => assigned[v] # next[NewClass]
  BY <1>4 DEF IInv, Ranges
<1>9. dying' \subseteq dying /\ DOMAIN free' = Class BY <1>1, <1>3
<1> QED BY <1>1, <1>4, <1>5, <1>6, <1>7, <1>8, <1>9, WriteIInv

LEMMA EndWritesIInv ==
  ASSUME IInv, EndWrites
  PROVE  IInv'
<1>1. k' = 0 /\ dying' = {} /\ prog' = prog /\ pc' = pc /\ live' = live
      /\ assigned' = assigned /\ free' = free /\ next' = next
  BY DEF EndWrites
<1>2. Ranges' /\ Scope' /\ Dead' /\ DyingEnd'
  BY <1>1 DEF IInv, Ranges, Scope, Dead, DyingEnd
<1>3. Distinct' /\ HandedOver' /\ FreeIsFree' /\ SlotsHoldVersions'
  BY <1>1 DEF IInv, Distinct, HandedOver, FreeIsFree, SlotsHoldVersions, SameSlot
<1> QED BY <1>2, <1>3 DEF IInv

(* A slot given back is held by no other live version of its class.        *)
LEMMA ReleaseIInv ==
  ASSUME IInv, NEW v \in live, Release(v)
  PROVE  IInv'
<1>1. /\ k = 0 /\ ~NeededAfter(prog, v, pc) /\ live' = live \ {v}
      /\ free' = IF \E other \in live \ {v} : assigned[other] = assigned[v] THEN free
                 ELSE [free EXCEPT ![ClassOf(prog, v)] = @ \cup {assigned[v]}]
      /\ prog' = prog /\ pc' = pc /\ k' = k /\ dying' = dying
      /\ assigned' = assigned /\ next' = next
  BY DEF Release
<1>2. ClassOf(prog, v) \in Class BY ClassIsClass
<1>3. v \in DOMAIN assigned /\ DOMAIN free = Class /\ live \subseteq DOMAIN assigned
      /\ assigned[v] \in 0 .. next[ClassOf(prog, v)] - 1
      /\ \A c \in Class : free[c] \subseteq 0 .. next[c] - 1
  BY DEF IInv, Ranges
<1>4. DOMAIN free' = Class /\ \A c \in Class : free'[c] \subseteq 0 .. next[c] - 1
  BY <1>1, <1>2, <1>3
<1>5. Ranges' BY <1>1, <1>3, <1>4 DEF IInv, Ranges
<1>6. Scope' BY <1>1 DEF IInv, Scope
<1>7. Dead' BY <1>1 DEF IInv, Dead
<1>8. DyingEnd' BY <1>1 DEF IInv, DyingEnd
<1>9. Distinct' /\ HandedOver' /\ SlotsHoldVersions'
  BY <1>1 DEF IInv, Distinct, HandedOver, SlotsHoldVersions, SameSlot
<1>10. FreeIsFree'
  <2> SUFFICES ASSUME NEW w \in live' PROVE assigned[w] \notin free'[ClassOf(prog, w)]
    BY <1>1 DEF FreeIsFree
  <2>1. w \in live \ {v} /\ assigned[w] \notin free[ClassOf(prog, w)]
    BY <1>1 DEF IInv, FreeIsFree
  <2>2. ClassOf(prog, w) \in Class BY ClassIsClass
  <2>3. CASE \E other \in live \ {v} : assigned[other] = assigned[v]
    BY <2>3, <2>1, <1>1
  <2>4. CASE ~\E other \in live \ {v} : assigned[other] = assigned[v]
    <3>1. free' = [free EXCEPT ![ClassOf(prog, v)] = @ \cup {assigned[v]}]
      BY <2>4, <1>1
    <3>2. assigned[w] # assigned[v] BY <2>4, <2>1
    <3> QED BY <3>1, <3>2, <2>1, <2>2, <1>2, <1>3
  <2> QED BY <2>3, <2>4
<1> QED BY <1>5, <1>6, <1>7, <1>8, <1>9, <1>10 DEF IInv

(* Between two instructions every live version is still to be read, so no  *)
(* two of them share a slot.                                               *)
LEMMA NextInstructionIInv ==
  ASSUME IInv, NextInstruction
  PROVE  IInv'
<1>1. /\ k = 0 /\ pc <= Len(prog) /\ \A v \in live : NeededAfter(prog, v, pc)
      /\ pc' = pc + 1 /\ k' = 1 /\ dying' = {v \in live : ~NeededAfter(prog, v, pc + 1)}
      /\ prog' = prog /\ live' = live /\ assigned' = assigned /\ free' = free /\ next' = next
  BY DEF NextInstruction
<1>2. prog \in Programs /\ pc \in 1 .. Len(prog) + 1 /\ Len(prog) \in Nat /\ pc \in Nat
      /\ live \subseteq DOMAIN assigned
  BY DEF IInv, Ranges
<1>3. \A v \in DOMAIN assigned : v[1] \in Nat /\ v[1] <= pc BY DEF IInv, Scope
<1>4. Ranges' BY <1>1, <1>2 DEF IInv, Ranges
<1>5. Scope' BY <1>1, <1>2, <1>3 DEF IInv, Scope
<1>6. Dead'
  <2> SUFFICES ASSUME NEW v \in DOMAIN assigned \ live
               PROVE  ~NeededAfter(prog, v, pc + 1) /\ v[1] # pc + 1
    BY <1>1 DEF Dead
  <2>1. ~NeededAfter(prog, v, pc) BY DEF IInv, Dead
  <2>2. ~NeededAfter(prog, v, pc + 1) BY <2>1, <1>2, NeededShrinks
  <2> QED BY <2>2, <1>2, <1>3
<1>7. DyingEnd' BY <1>1, <1>2, <1>3 DEF DyingEnd
<1>8. HandedOver' BY <1>1 DEF IInv, HandedOver, SameSlot
<1>9. Distinct' /\ FreeIsFree' /\ SlotsHoldVersions'
  BY <1>1 DEF IInv, Distinct, FreeIsFree, SlotsHoldVersions, SameSlot
<1> QED BY <1>4, <1>5, <1>6, <1>7, <1>8, <1>9 DEF IInv

LEMMA StutterIInv ==
  ASSUME IInv, UNCHANGED vars
  PROVE  IInv'
BY DEF vars, IInv, Ranges, Scope, Dead, DyingEnd, Distinct, HandedOver, FreeIsFree,
       SlotsHoldVersions, SameSlot

LEMMA NextIInv ==
  ASSUME IInv, [Next]_vars
  PROVE  IInv'
<1>1. ASSUME NEW old \in dying, TakeOver(old) PROVE IInv' BY <1>1, TakeOverIInv
<1>2. CASE TakeFree BY <1>2, TakeFreeIInv
<1>3. CASE TakeNext BY <1>3, TakeNextIInv
<1>4. CASE EndWrites BY <1>4, EndWritesIInv
<1>5. ASSUME NEW v \in live, Release(v) PROVE IInv' BY <1>5, ReleaseIInv
<1>6. CASE NextInstruction BY <1>6, NextInstructionIInv
<1>7. CASE Finished BY <1>7, StutterIInv DEF Finished
<1>8. CASE UNCHANGED vars BY <1>8, StutterIInv
<1> QED BY <1>1, <1>2, <1>3, <1>4, <1>5, <1>6, <1>7, <1>8 DEF Next

LEMMA InvariantIInv == Spec => []IInv
<1>1. IInv /\ [Next]_vars => IInv' BY NextIInv
<1> QED BY <1>1, InitIInv, PTL DEF Spec
-----------------------------------------------------------------------------
(* Whatever the leaf, and in whatever order slots are handed over and      *)
(* released: no version is read after its slot was written again, and no   *)
(* instruction writes two versions to one slot.                            *)
THEOREM SlotsSafe == Spec => []SlotsHoldVersions
<1>1. IInv => SlotsHoldVersions BY DEF IInv
<1> QED BY <1>1, InvariantIInv, PTL

(* Before each instruction, live versions of one class are in different    *)
(* slots: the two assertions at the end of the loop body never fail.       *)
THEOREM AssertionsHold == Spec => LiveSlotsApart
<1>1. ASSUME IInv, NextInstruction
      PROVE  \A v, w \in live : SameSlot(v, w) => v = w
  <2> SUFFICES ASSUME NEW v \in live, NEW w \in live, SameSlot(v, w), v # w PROVE FALSE
    OBVIOUS
  <2>1. v[1] \in Nat /\ w[1] \in Nat BY <1>1 DEF IInv, Ranges, Scope
  <2>2. SameSlot(w, v) BY DEF SameSlot
  <2>3. NeededAfter(prog, v, pc) /\ NeededAfter(prog, w, pc) BY <1>1 DEF NextInstruction
  <2>4. ~(v[1] < w[1]) /\ ~(w[1] < v[1]) BY <1>1, <2>2, <2>3 DEF IInv, HandedOver
  <2>5. v[1] # w[1] BY <1>1 DEF IInv, Distinct
  <2> QED BY <2>1, <2>4, <2>5
<1>2. IInv => (NextInstruction => \A v, w \in live : SameSlot(v, w) => v = w) BY <1>1
<1> QED BY <1>2, InvariantIInv, PTL DEF LiveSlotsApart
-----------------------------------------------------------------------------
(***************************************************************************)
(* The slots ever opened cover the peak of the live versions.              *)
(*                                                                         *)
(* The peak of an instruction is reckoned before its writes, from the      *)
(* versions it may hand over; the slots are opened one write at a time.    *)
(* What links them: the slots of live versions and the writes still to     *)
(* come that find no heir are, together, the same number before and after  *)
(* each write.                                                             *)
(***************************************************************************)
Remaining(c) == {j \in Dsts(prog, pc, c) : j >= k}
HeirsOf(c)   == {v \in dying : ClassOf(prog, v) = c}

(* Of m writes, those that n heirs leave without a slot.                   *)
Fresh(m, n) == m - (IF m < n THEN m ELSE n)
Ahead(c)    == Cardinality(Slots(live, c)) + Fresh(Cardinality(Remaining(c)), Cardinality(HeirsOf(c)))

Budget ==
  /\ IsFiniteSet(live)
  /\ peak \in [Class -> Nat]
  /\ \A c \in Class :
       \/ peak[c] <= next[c]
       \/ pc <= Len(prog) /\ k # 0 /\ peak[c] <= Ahead(c)
-----------------------------------------------------------------------------
(* Live versions of a class lie on slots opened for it.                    *)
LEMMA SlotsFit ==
  ASSUME IInv, NEW c \in Class
  PROVE  /\ IsFiniteSet(Slots(live, c))
         /\ Cardinality(Slots(live, c)) \in Nat
         /\ Cardinality(Slots(live, c)) <= next[c]
         /\ next[c] \in Nat
<1>1. next[c] \in Nat BY DEF IInv, Ranges
<1>2. Slots(live, c) \subseteq 0 .. next[c] - 1 BY DEF IInv, Ranges, Slots
<1>3. IsFiniteSet(0 .. next[c] - 1) /\ Cardinality(0 .. next[c] - 1) = next[c]
  <2>1. 0 \in Int /\ next[c] - 1 \in Int BY <1>1
  <2>2. IsFiniteSet(0 .. next[c] - 1)
        /\ Cardinality(0 .. next[c] - 1) = IF 0 > next[c] - 1 THEN 0 ELSE next[c] - 1 - 0 + 1
    BY <2>1, FS_Interval
  <2> QED BY <2>2, <1>1
<1>4. IsFiniteSet(Slots(live, c)) /\ Cardinality(Slots(live, c)) <= next[c]
  BY <1>2, <1>3, FS_Subset
<1> QED BY <1>1, <1>4, FS_CardinalityType

(* The destinations of an instruction, by class.                           *)
LEMMA DstsShape ==
  ASSUME NEW p \in Programs, NEW i \in DOMAIN p, NEW c \in Class
  PROVE  /\ IsFiniteSet(Dsts(p, i, c))
         /\ \A j \in Dsts(p, i, c) : j \in Nat /\ j >= 1 /\ j <= Len(p[i].dst)
         /\ \A j \in DOMAIN p[i].dst : j \in Dsts(p, i, c) <=> ClassOf(p, <<i, j>>) = c
<1>1. Len(p[i].dst) \in Nat /\ DOMAIN p[i].dst = 1 .. Len(p[i].dst) BY LeafShape
<1>2. Dsts(p, i, c) \subseteq 1 .. Len(p[i].dst) BY <1>1 DEF Dsts
<1>3. IsFiniteSet(1 .. Len(p[i].dst)) BY <1>1, FS_Interval
<1>4. IsFiniteSet(Dsts(p, i, c)) BY <1>2, <1>3, FS_Subset
<1>5. ASSUME NEW j \in DOMAIN p[i].dst
      PROVE  j \in Dsts(p, i, c) <=> ClassOf(p, <<i, j>>) = c
  <2>1. p[i] \in Instruction
    <3>1. p \in Seq(Instruction) BY ProgramAssumption
    <3> QED BY <3>1
  <2>2. p[i].dst[j] \in Arithmetic \cup Control
    <3>1. p[i].dst \in Seq(Arithmetic \cup Control) BY <2>1 DEF Instruction
    <3> QED BY <3>1, <1>5
  <2>3. p[i].dst[j] \in Control <=> p[i].dst[j] \notin Arithmetic
    BY <2>2, ProgramAssumption
  <2>4. ClassOf(p, <<i, j>>) = IF p[i].dst[j] \in Arithmetic THEN "arithmetic" ELSE "control"
    BY DEF ClassOf, Reg
  <2>5. c = "arithmetic" \/ c = "control" BY DEF Class
  <2> QED BY <2>3, <2>4, <2>5, <1>5 DEF Dsts
<1> QED BY <1>1, <1>2, <1>4, <1>5

(* What is counted is finite.                                              *)
LEMMA CountsFinite ==
  ASSUME IInv, Budget, pc <= Len(prog), NEW c \in Class
  PROVE  /\ pc \in DOMAIN prog
         /\ IsFiniteSet(Remaining(c)) /\ Cardinality(Remaining(c)) \in Nat
         /\ IsFiniteSet(HeirsOf(c)) /\ Cardinality(HeirsOf(c)) \in Nat
<1>1. prog \in Programs /\ pc \in DOMAIN prog BY LeafShape DEF IInv, Ranges
<1>2. IsFiniteSet(Remaining(c))
  <2>1. IsFiniteSet(Dsts(prog, pc, c)) BY <1>1, DstsShape
  <2>2. Remaining(c) \subseteq Dsts(prog, pc, c) BY DEF Remaining
  <2> QED BY <2>1, <2>2, FS_Subset
<1>3. IsFiniteSet(HeirsOf(c))
  <2>1. HeirsOf(c) \subseteq live BY DEF HeirsOf, IInv, DyingEnd
  <2> QED BY <2>1, FS_Subset DEF Budget
<1> QED BY <1>1, <1>2, <1>3, FS_CardinalityType

LEMMA InitBudget == Init => Budget
<1> SUFFICES ASSUME Init PROVE Budget
  OBVIOUS
<1>1. prog \in Programs /\ pc = 1 /\ k = 1 /\ live = {} /\ dying = {}
      /\ peak = [c \in Class |-> Cardinality(Dsts(prog, 1, c))]
  BY DEF Init
<1>2. 1 \in DOMAIN prog /\ 1 <= Len(prog)
  <2>1. prog # << >> /\ prog \in Seq(Instruction) BY <1>1, ProgramAssumption
  <2> QED BY <2>1
<1>3. ASSUME NEW c \in Class
      PROVE  Cardinality(Dsts(prog, 1, c)) \in Nat /\ peak[c] <= Ahead(c)
  <2>1. IsFiniteSet(Dsts(prog, 1, c)) /\ \A j \in Dsts(prog, 1, c) : j \in Nat /\ j >= 1
    BY <1>1, <1>2, DstsShape
  <2>2. Cardinality(Dsts(prog, 1, c)) \in Nat BY <2>1, FS_CardinalityType
  <2>3. Remaining(c) = Dsts(prog, 1, c) BY <1>1, <2>1 DEF Remaining
  <2>4. Cardinality(HeirsOf(c)) = 0
    <3>1. HeirsOf(c) = {} BY <1>1 DEF HeirsOf
    <3> QED BY <3>1, FS_EmptySet
  <2>5. Cardinality(Slots(live, c)) = 0
    <3>1. Slots(live, c) = {} BY <1>1 DEF Slots
    <3> QED BY <3>1, FS_EmptySet
  <2> QED BY <1>1, <2>2, <2>3, <2>4, <2>5 DEF Ahead, Fresh
<1>4. IsFiniteSet(live) BY <1>1, FS_EmptySet
<1> QED BY <1>1, <1>2, <1>3, <1>4 DEF Budget
-----------------------------------------------------------------------------
(* A write leaves the other class as it was, and has one write less to     *)
(* come for its own.                                                       *)
LEMMA WriteCounts ==
  ASSUME IInv, Budget, Writing, NEW STATE slot, Assign(slot)
  PROVE  /\ pc <= Len(prog) /\ k # 0 /\ NewClass \in Class
         /\ pc' = pc /\ prog' = prog /\ peak' = peak /\ k' # 0
         /\ IsFiniteSet(live')
         /\ \A c \in Class :
              IF c = NewClass
              THEN Slots(live, c)' = Slots(live, c) \cup {slot} /\ Remaining(c)' = Remaining(c) \ {k}
              ELSE Slots(live, c)' = Slots(live, c) /\ Remaining(c)' = Remaining(c)
         /\ k \in Remaining(NewClass)
<1>1. /\ pc \in Nat /\ k \in Nat /\ k # 0
      /\ New \notin DOMAIN assigned
      /\ assigned'[New] = slot
      /\ \A v \in DOMAIN assigned : assigned'[v] = assigned[v]
      /\ live' = live \cup {New} /\ k' = k + 1 /\ pc' = pc /\ prog' = prog
  BY AssignGrows
<1>2. live \subseteq DOMAIN assigned /\ prog \in Programs BY DEF IInv, Ranges
<1>3. pc <= Len(prog) /\ k \in DOMAIN prog[pc].dst BY DEF Writing
<1>4. NewClass = ClassOf(prog, New) /\ NewClass \in Class BY ClassIsClass DEF NewClass
<1>5. pc \in DOMAIN prog BY <1>3, CountsFinite, <1>4
<1>6. ASSUME NEW c \in Class
      PROVE  Slots(live, c)' = Slots(live, c) \cup (IF c = NewClass THEN {slot} ELSE {})
  <2>1. Slots(live, c)' = {assigned'[v] : v \in {w \in live' : ClassOf(prog, w) = c}}
    BY <1>1 DEF Slots
  <2>2. {w \in live' : ClassOf(prog, w) = c}
          = {w \in live : ClassOf(prog, w) = c} \cup (IF c = NewClass THEN {New} ELSE {})
    BY <1>1, <1>4
  <2>3. {assigned'[v] : v \in {w \in live : ClassOf(prog, w) = c}} = Slots(live, c)
    BY <1>1, <1>2 DEF Slots
  <2> QED BY <2>1, <2>2, <2>3, <1>1
<1>7. ASSUME NEW c \in Class
      PROVE  /\ k \in Dsts(prog, pc, c) <=> c = NewClass
             /\ Remaining(c)' = Remaining(c) \ {k}
  <2>1. k \in Dsts(prog, pc, c) <=> ClassOf(prog, <<pc, k>>) = c
    BY <1>2, <1>3, <1>5, DstsShape
  <2>2. \A j \in Dsts(prog, pc, c) : j \in Nat BY <1>2, <1>5, DstsShape
  <2>3. Remaining(c)' = {j \in Dsts(prog, pc, c) : j >= k + 1} BY <1>1 DEF Remaining, Dsts
  <2> QED BY <2>1, <2>2, <2>3, <1>1, <1>4 DEF Remaining, New
<1>8. k \in Remaining(NewClass) BY <1>1, <1>4, <1>7 DEF Remaining
<1>9. \A c \in Class \ {NewClass} : k \notin Remaining(c) BY <1>7 DEF Remaining
<1>10. IsFiniteSet(live') BY <1>1, FS_AddElement DEF Budget
<1>11. peak' = peak BY DEF Assign
<1>12. k' # 0 BY <1>1
<1>13. ASSUME NEW c \in Class
       PROVE  IF c = NewClass
              THEN Slots(live, c)' = Slots(live, c) \cup {slot} /\ Remaining(c)' = Remaining(c) \ {k}
              ELSE Slots(live, c)' = Slots(live, c) /\ Remaining(c)' = Remaining(c)
  BY <1>6, <1>7, <1>9
<1> QED BY <1>1, <1>3, <1>4, <1>8, <1>10, <1>11, <1>12, <1>13

LEMMA TakeOverBudget ==
  ASSUME IInv, Budget, NEW old \in dying, TakeOver(old)
  PROVE  Budget'
<1>1. Writing /\ Assign(assigned[old]) /\ ClassOf(prog, old) = NewClass
      /\ dying' = dying \ {old} /\ next' = next
  BY DEF TakeOver, Heirs
<1>2. old \in live BY DEF IInv, DyingEnd
<1> DEFINE slot == assigned[old]
<1>3. /\ pc <= Len(prog) /\ k # 0 /\ NewClass \in Class
      /\ pc' = pc /\ prog' = prog /\ peak' = peak /\ k' # 0
      /\ IsFiniteSet(live')
      /\ \A c \in Class :
           IF c = NewClass
           THEN Slots(live, c)' = Slots(live, c) \cup {slot} /\ Remaining(c)' = Remaining(c) \ {k}
           ELSE Slots(live, c)' = Slots(live, c) /\ Remaining(c)' = Remaining(c)
      /\ k \in Remaining(NewClass)
  BY <1>1, WriteCounts
<1>4. \A c \in Class : Slots(live, c)' = Slots(live, c)
  <2>1. slot \in Slots(live, NewClass) BY <1>1, <1>2 DEF Slots
  <2> QED BY <2>1, <1>3
<1>5. \A c \in Class : HeirsOf(c)' = IF c = NewClass THEN HeirsOf(c) \ {old} ELSE HeirsOf(c)
  BY <1>1, <1>3 DEF HeirsOf
<1>6. old \in HeirsOf(NewClass) BY <1>1 DEF HeirsOf
<1>7. ASSUME NEW c \in Class PROVE Ahead(c)' = Ahead(c)
  <2>1. CASE c # NewClass BY <2>1, <1>3, <1>5 DEF Ahead
  <2>2. CASE c = NewClass
    <3> DEFINE r == Cardinality(Remaining(c))
               h == Cardinality(HeirsOf(c))
    <3>1. IsFiniteSet(Remaining(c)) /\ IsFiniteSet(HeirsOf(c)) /\ r \in Nat /\ h \in Nat
      BY <1>3, CountsFinite
    <3>2. Cardinality(Remaining(c) \ {k}) = r - 1 BY <3>1, <2>2, <1>3, FS_RemoveElement
    <3>3. Cardinality(HeirsOf(c) \ {old}) = h - 1 BY <3>1, <2>2, <1>6, FS_RemoveElement
    <3>4. Fresh(r - 1, h - 1) = Fresh(r, h) BY <3>1 DEF Fresh
    <3>5. Ahead(c)' = Cardinality(Slots(live, c)) + Fresh(r - 1, h - 1)
      BY <3>2, <3>3, <2>2, <1>3, <1>4, <1>5 DEF Ahead
    <3> QED BY <3>4, <3>5 DEF Ahead
  <2> QED BY <2>1, <2>2
<1> QED BY <1>1, <1>3, <1>7 DEF Budget

(* A write that finds no heir takes a slot no live version lies on.        *)
LEMMA FreshBudget ==
  ASSUME IInv, Budget, Writing, Heirs = {}, NEW STATE slot, Assign(slot), dying' = dying,
         slot \notin Slots(live, NewClass),
         \A c \in Class : next[c] <= next'[c] /\ next'[c] \in Nat
  PROVE  Budget'
<1>1. /\ pc <= Len(prog) /\ k # 0 /\ NewClass \in Class
      /\ pc' = pc /\ prog' = prog /\ peak' = peak /\ k' # 0
      /\ IsFiniteSet(live')
      /\ \A c \in Class :
           IF c = NewClass
           THEN Slots(live, c)' = Slots(live, c) \cup {slot} /\ Remaining(c)' = Remaining(c) \ {k}
           ELSE Slots(live, c)' = Slots(live, c) /\ Remaining(c)' = Remaining(c)
      /\ k \in Remaining(NewClass)
  BY WriteCounts
<1>2. \A c \in Class : HeirsOf(c)' = HeirsOf(c) BY <1>1 DEF HeirsOf
<1>3. Cardinality(HeirsOf(NewClass)) = 0
  <2>1. HeirsOf(NewClass) = {} BY DEF HeirsOf, Heirs
  <2> QED BY <2>1, FS_EmptySet
<1>4. ASSUME NEW c \in Class PROVE Ahead(c)' = Ahead(c)
  <2>1. CASE c # NewClass BY <2>1, <1>1, <1>2 DEF Ahead
  <2>2. CASE c = NewClass
    <3> DEFINE r == Cardinality(Remaining(c))
               s == Cardinality(Slots(live, c))
    <3>1. IsFiniteSet(Remaining(c)) /\ r \in Nat BY <1>1, CountsFinite
    <3>2. Cardinality(Remaining(c) \ {k}) = r - 1 BY <3>1, <2>2, <1>1, FS_RemoveElement
    <3>3. IsFiniteSet(Slots(live, c)) /\ s \in Nat BY SlotsFit
    <3>4. Cardinality(Slots(live, c) \cup {slot}) = s + 1 BY <3>3, <2>2, FS_AddElement
    <3>5. r - 1 \in Nat
      <4>1. IsFiniteSet(Remaining(c) \ {k}) BY <3>1, FS_RemoveElement
      <4> QED BY <4>1, <3>2, FS_CardinalityType
    <3>6. Fresh(r, 0) = r /\ Fresh(r - 1, 0) = r - 1 BY <3>1, <3>5 DEF Fresh
    <3>7. Ahead(c)' = s + 1 + Fresh(r - 1, 0)
      BY <3>2, <3>4, <2>2, <1>1, <1>2, <1>3 DEF Ahead
    <3>8. Ahead(c) = s + Fresh(r, 0) BY <2>2, <1>3 DEF Ahead
    <3> QED BY <3>1, <3>3, <3>6, <3>7, <3>8
  <2> QED BY <2>1, <2>2
<1>5. ASSUME NEW c \in Class
      PROVE  peak[c] <= next'[c] \/ peak[c] <= Ahead(c)
  <2>1. peak[c] \in Nat /\ next[c] \in Nat BY SlotsFit DEF Budget
  <2> QED BY <2>1 DEF Budget
<1> QED BY <1>1, <1>4, <1>5 DEF Budget

LEMMA TakeFreeBudget ==
  ASSUME IInv, Budget, TakeFree
  PROVE  Budget'
<1>1. PICK slot \in free[NewClass] : Assign(slot) BY DEF TakeFree
<1>2. Writing /\ Heirs = {} /\ dying' = dying /\ next' = next BY DEF TakeFree
<1>3. slot \notin Slots(live, NewClass) BY DEF IInv, FreeIsFree, Slots
<1>4. \A c \in Class : next[c] <= next'[c] /\ next'[c] \in Nat BY <1>2 DEF IInv, Ranges
<1> QED BY <1>1, <1>2, <1>3, <1>4, FreshBudget

LEMMA TakeNextBudget ==
  ASSUME IInv, Budget, TakeNext
  PROVE  Budget'
<1>1. Writing /\ Heirs = {} /\ dying' = dying /\ Assign(next[NewClass])
      /\ next' = [next EXCEPT ![NewClass] = @ + 1]
  BY DEF TakeNext
<1>2. NewClass \in Class BY ClassIsClass DEF NewClass
<1>3. next[NewClass] \notin Slots(live, NewClass)
  <2>1. next[NewClass] \in Nat BY <1>2 DEF IInv, Ranges
  <2>2. \A v \in live : ClassOf(prog, v) = NewClass => assigned[v] # next[NewClass]
    BY <2>1 DEF IInv, Ranges
  <2> QED BY <2>2 DEF Slots
<1>4. \A c \in Class : next[c] <= next'[c] /\ next'[c] \in Nat BY <1>1 DEF IInv, Ranges
<1> QED BY <1>1, <1>3, <1>4, FreshBudget

(* When all is written the slots of the live versions are what was needed. *)
LEMMA EndWritesBudget ==
  ASSUME IInv, Budget, EndWrites
  PROVE  Budget'
<1>1. pc <= Len(prog) /\ k > Len(prog[pc].dst) /\ live' = live /\ next' = next /\ peak' = peak
  BY DEF EndWrites
<1>2. prog \in Programs /\ k \in Nat BY DEF IInv, Ranges
<1>3. ASSUME NEW c \in Class PROVE peak[c] <= next[c]
  <2>1. pc \in DOMAIN prog BY <1>1, CountsFinite
  <2>2. \A j \in Dsts(prog, pc, c) : j \in Nat /\ j <= Len(prog[pc].dst)
    BY <1>2, <2>1, DstsShape
  <2>3. Len(prog[pc].dst) \in Nat BY <1>2, <2>1, LeafShape
  <2>4. Remaining(c) = {} BY <1>1, <1>2, <2>2, <2>3 DEF Remaining
  <2>5. Cardinality(Remaining(c)) = 0 BY <2>4, FS_EmptySet
  <2>6. Cardinality(HeirsOf(c)) \in Nat BY <1>1, CountsFinite
  <2>7. Fresh(0, Cardinality(HeirsOf(c))) = 0 BY <2>6 DEF Fresh
  <2>8. Cardinality(Slots(live, c)) \in Nat /\ Cardinality(Slots(live, c)) <= next[c]
        /\ next[c] \in Nat
    BY SlotsFit
  <2>9. Ahead(c) <= next[c] BY <2>5, <2>7, <2>8 DEF Ahead
  <2>10. peak[c] \in Nat BY DEF Budget
  <2>11. Ahead(c) \in Nat BY <2>5, <2>7, <2>8 DEF Ahead
  <2> QED BY <2>8, <2>9, <2>10, <2>11 DEF Budget
<1> QED BY <1>1, <1>3 DEF Budget

LEMMA ReleaseBudget ==
  ASSUME IInv, Budget, NEW v \in live, Release(v)
  PROVE  Budget'
<1>1. k = 0 /\ live' = live \ {v} /\ peak' = peak /\ next' = next BY DEF Release
<1>2. IsFiniteSet(live') BY <1>1, FS_RemoveElement DEF Budget
<1> QED BY <1>1, <1>2 DEF Budget

(* The next instruction's need is the slots of the versions alive before   *)
(* it and the writes that find no heir.                                    *)
LEMMA NextInstructionBudget ==
  ASSUME IInv, Budget, NextInstruction
  PROVE  Budget'
<1>1. /\ k = 0 /\ pc <= Len(prog) /\ pc' = pc + 1 /\ k' = 1
      /\ dying' = {v \in live : ~NeededAfter(prog, v, pc + 1)}
      /\ prog' = prog /\ live' = live /\ assigned' = assigned /\ next' = next
      /\ peak' = IF pc = Len(prog) THEN peak
                 ELSE [c \in Class |-> Bigger(peak[c], During(live, pc + 1, c))]
  BY DEF NextInstruction
<1>2. prog \in Programs /\ Len(prog) \in Nat /\ pc \in Nat BY DEF IInv, Ranges
<1>3. \A c \in Class : peak[c] <= next[c] BY <1>1 DEF Budget
<1>4. CASE pc = Len(prog) BY <1>1, <1>3, <1>4 DEF Budget
<1>5. CASE pc # Len(prog)
  <2>1. pc + 1 \in DOMAIN prog /\ pc + 1 <= Len(prog) BY <1>1, <1>2, <1>5, LeafShape
  <2>2. ASSUME NEW c \in Class
        PROVE  During(live, pc + 1, c) \in Nat /\ During(live, pc + 1, c) = Ahead(c)'
    <3> DEFINE D == Dsts(prog, pc + 1, c)
               H == {v \in live : ClassOf(prog, v) = c /\ ~NeededAfter(prog, v, pc + 1)}
    <3>1. IsFiniteSet(D) /\ \A j \in D : j \in Nat /\ j >= 1 BY <1>2, <2>1, DstsShape
    <3>2. IsFiniteSet(H)
      <4>1. H \subseteq live OBVIOUS
      <4> QED BY <4>1, FS_Subset DEF Budget
    <3>3. Cardinality(D) \in Nat /\ Cardinality(H) \in Nat BY <3>1, <3>2, FS_CardinalityType
    <3>4. Cardinality(Slots(live, c)) \in Nat BY SlotsFit
    <3>5. During(live, pc + 1, c)
            = Cardinality(Slots(live, c)) + Cardinality(D)
                - (IF Cardinality(D) < Cardinality(H) THEN Cardinality(D) ELSE Cardinality(H))
      BY DEF During
    <3>6. Remaining(c)' = D
      <4>1. Remaining(c)' = {j \in D : j >= 1} BY <1>1 DEF Remaining, Dsts
      <4> QED BY <4>1, <3>1
    <3>7. HeirsOf(c)' = H BY <1>1 DEF HeirsOf
    <3>8. Slots(live, c)' = Slots(live, c) BY <1>1 DEF Slots
    <3>9. Ahead(c)' = Cardinality(Slots(live, c))
             + (Cardinality(D) - (IF Cardinality(D) < Cardinality(H) THEN Cardinality(D) ELSE Cardinality(H)))
      BY <3>6, <3>7, <3>8 DEF Ahead, Fresh
    <3> HIDE DEF D, H
    <3> QED BY <3>3, <3>4, <3>5, <3>9
  <2>3. peak' = [c \in Class |-> Bigger(peak[c], During(live, pc + 1, c))] BY <1>1, <1>5
  <2>4. peak' \in [Class -> Nat] BY <2>2, <2>3 DEF Budget, Bigger
  <2>5. ASSUME NEW c \in Class PROVE peak'[c] <= next'[c] \/ peak'[c] <= Ahead(c)'
    <3>1. peak'[c] = peak[c] \/ peak'[c] = During(live, pc + 1, c) BY <2>3 DEF Bigger
    <3> QED BY <3>1, <2>2, <1>1, <1>3
  <2> QED BY <2>1, <2>4, <2>5, <1>1 DEF Budget
<1> QED BY <1>4, <1>5

LEMMA StutterBudget ==
  ASSUME IInv, Budget, UNCHANGED vars
  PROVE  Budget'
BY DEF vars, Budget, Ahead, Remaining, HeirsOf, Slots, Dsts, ClassOf, Reg

LEMMA NextBudget ==
  ASSUME IInv, Budget, [Next]_vars
  PROVE  Budget'
<1>1. ASSUME NEW old \in dying, TakeOver(old) PROVE Budget' BY <1>1, TakeOverBudget
<1>2. CASE TakeFree BY <1>2, TakeFreeBudget
<1>3. CASE TakeNext BY <1>3, TakeNextBudget
<1>4. CASE EndWrites BY <1>4, EndWritesBudget
<1>5. ASSUME NEW v \in live, Release(v) PROVE Budget' BY <1>5, ReleaseBudget
<1>6. CASE NextInstruction BY <1>6, NextInstructionBudget
<1>7. CASE Finished BY <1>7, StutterBudget DEF Finished
<1>8. CASE UNCHANGED vars BY <1>8, StutterBudget
<1> QED BY <1>1, <1>2, <1>3, <1>4, <1>5, <1>6, <1>7, <1>8 DEF Next

LEMMA InvariantBudget == Spec => [](IInv /\ Budget)
<1>1. IInv /\ Budget /\ [Next]_vars => (IInv /\ Budget)' BY NextIInv, NextBudget
<1>2. Init => IInv /\ Budget BY InitIInv, InitBudget
<1> QED BY <1>1, <1>2, PTL DEF Spec
-----------------------------------------------------------------------------
(* Whatever the leaf and the order of hand-overs, the slots opened for a   *)
(* class cover its live versions at every write: the count the allocator   *)
(* publishes is never too small.                                           *)
THEOREM BudgetCovers == Spec => []BudgetCoversPeak
<1>1. IInv /\ Budget => BudgetCoversPeak
  <2> SUFFICES ASSUME IInv, Budget, Allocated, NEW c \in Class PROVE peak[c] <= next[c]
    BY DEF BudgetCoversPeak
  <2>1. pc \in Nat /\ Len(prog) \in Nat BY DEF IInv, Ranges
  <2> QED BY <2>1 DEF Budget, Allocated
<1> QED BY <1>1, InvariantBudget, PTL

(* Slots, versions and peaks keep their ranges for every leaf.             *)
THEOREM AllocatorTypes == Spec => []TypeOK
<1>1. IInv /\ Budget => TypeOK
  BY DEF IInv, Ranges, Scope, DyingEnd, Budget, TypeOK
<1> QED BY <1>1, InvariantBudget, PTL
=============================================================================
