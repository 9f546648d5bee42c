--------------------------- MODULE LeafScheduler ---------------------------
(***************************************************************************)
(* The schedule optimizer of a leaf (leaf_schedule_optimizer.py): a first  *)
(* depth-first search orders the arithmetic body so that few values are    *)
(* alive at once, a second one names the slot of every value.  Both are    *)
(* memoised: what failed once is not tried again.                          *)
(*                                                                         *)
(* A leaf is [slots |-> its arithmetic slots, code |-> its instructions    *)
(* that read or write one, [op, dst, src]].  A value is the number of      *)
(* writes before its own, as in the source.                                *)
(***************************************************************************)
EXTENDS Integers, Sequences, FiniteSets

CONSTANT Requests  \* the arguments tried, <<leaf, target_slots>>

BODY_OPS == {"field_mul", "field_add", "field_sub", "mul_const"}
PREFIX_OPS == {"load_input", "lookup_affine_x", "lookup_affine_y"}
SELECT_OP == "select_field_if_flag"

Elements(s) == {s[i] : i \in DOMAIN s}

(* A leaf has a prefix and a body, then its selects: no instruction of the *)
(* body reads what a select wrote.                                         *)
ASSUME LeafAssumption ==
  \A request \in Requests :
    LET code == request[1].code
    IN  /\ request[2] \in Nat
        /\ code \in Seq(Elements(code))
        /\ \A i \in DOMAIN code : /\ code[i].dst \in Elements(request[1].slots)
                                 /\ code[i].op \in BODY_OPS \cup PREFIX_OPS \cup {SELECT_OP}
        /\ \A i, j \in DOMAIN code :
             i < j /\ code[i].op = SELECT_OP => code[j].op = SELECT_OP
-----------------------------------------------------------------------------
(***************************************************************************)
(* Values and their uses.                                                  *)
(***************************************************************************)
(* The version of a register that instruction i of the code sees, -1 when  *)
(* it has none.                                                            *)
Version(code, reg, i) ==
  LET writes == {j \in 1 .. i - 1 : code[j].dst = reg}
  IN  IF writes = {} THEN -1 ELSE (CHOOSE j \in writes : \A n \in writes : n <= j) - 1

(* src_ids keeps an operand at its position in src.                        *)
extract_arithmetic_values(l) ==
  [v \in 0 .. Len(l.code) - 1 |->
     LET ins == l.code[v + 1]
         seen(r) == Version(l.code, r, v + 1)
         known == {i \in DOMAIN ins.src : ins.src[i] \in Elements(l.slots) /\ seen(ins.src[i]) >= 0}
     IN  [dst |-> ins.dst, op |-> ins.op, src_ids |-> [i \in known |-> seen(ins.src[i])]]]

Selects(l) == SelectSeq([i \in DOMAIN l.code |-> i], LAMBDA i : l.code[i].op = SELECT_OP)

(* The values the selects read: what _output_selects is asked for.         *)
SelectedValues(l) ==
  [n \in DOMAIN Selects(l) |->
     LET i == Selects(l)[n]
     IN  <<l.code[i].dst, Version(l.code, l.code[i].src[2], i)>>]

(* What it returns.  It numbers a register's version by the registers      *)
(* written so far: one more than their number, not the value's id.         *)
_output_selects(l) ==
  LET written(i) == {l.code[j].dst : j \in 1 .. i - 1}
      number(i) == IF Cardinality(written(i)) < Len(l.code) THEN Cardinality(written(i)) + 1
                   ELSE Len(l.code)
      current(reg, i) ==
        number((CHOOSE j \in 1 .. i - 1 : l.code[j].dst = reg
                  /\ \A n \in j + 1 .. i - 1 : l.code[n].dst # reg))
  IN  [n \in DOMAIN Selects(l) |->
         LET i == Selects(l)[n]
         IN  <<l.code[i].dst, current(l.code[i].src[2], i)>>]

Second(pairs) == {pairs[n][2] : n \in DOMAIN pairs}

(* All that the searches read of a leaf: uses are <<value, a consumer>>,   *)
(* selected are the values that the selects really read.                   *)
Facts(l) ==
  LET values == extract_arithmetic_values(l)
      body == {v \in DOMAIN values : values[v].op \in BODY_OPS}
  IN  [slots    |-> l.slots,
       values   |-> values,
       body     |-> body,
       initial  |-> {v \in DOMAIN values : values[v].op \in PREFIX_OPS},
       uses     |-> UNION {{<<d, v>> : d \in Elements(values[v].src_ids)} : v \in body},
       selects  |-> _output_selects(l),
       selected |-> SelectedValues(l)]
-----------------------------------------------------------------------------
VARIABLES leaf, target,    \* the Facts of the leaf, and target_slots
          phase,           \* "order", "names", "planned", "no_order", "no_names"
          path,            \* the body values ordered so far
          failed,          \* done sets from which no order fits
          maps,            \* the mapping before each step named so far
          failed_names     \* <<step, mapping>> from which no naming fits

vars == <<leaf, target, phase, path, failed, maps, failed_names>>

Done == Elements(path)
output_vids == Second(leaf.selects)

(* live_set, the values held after the body values in done, when outs are  *)
(* held to the end.                                                        *)
live_set(done, outs) ==
  ({use[1] : use \in {u \in leaf.uses : u[2] \notin done}} \cap (leaf.initial \cup done))
    \cup (done \cap outs)

(* Fault: a value is ordered again. *)
ReadyAgain(done) ==
  leaf.body \ {use[2] : use \in {u \in leaf.uses : u[1] \in leaf.body \ done}}
(* Fault: an operand of the body may come after its reader. *)
ReadyUnordered(done) == leaf.body \ done
Ready(done) ==
  (leaf.body \ done) \ {use[2] : use \in {u \in leaf.uses : u[1] \in leaf.body \ done}}

(* Fault: the result is written over an operand. *)
RankInPlace(v, done, outs) ==
  LET before == Cardinality(live_set(done, outs))
      after  == Cardinality(live_set(done \cup {v}, outs))
  IN  <<IF before < after THEN after ELSE before, after, v>>
(* What sorted(ready) sorts by: the step's peak, the values alive after it *)
(* and the value.                                                          *)
Rank(v, done, outs) ==
  LET before == Cardinality(live_set(done, outs)) + 1
      after  == Cardinality(live_set(done \cup {v}, outs))
  IN  <<IF before < after THEN after ELSE before, after, v>>
Precedes(r, s) ==
  \/ r[1] < s[1]
  \/ r[1] = s[1] /\ r[2] < s[2]
  \/ r[1] = s[1] /\ r[2] = s[2] /\ r[3] < s[3]

(* The ready values that fit and are not known to fail, ranked.            *)
Candidates ==
  {r \in {Rank(v, Done, output_vids) : v \in Ready(Done)} :
     r[1] <= target /\ Done \cup {r[3]} \notin failed}

InitialMapping == [v \in leaf.initial |-> leaf.values[v].dst]

(* The order of a leaf without a body is found at once.                    *)
Init ==
  /\ \E request \in Requests : leaf = Facts(request[1]) /\ target = request[2]
  /\ path = << >> /\ failed = {} /\ failed_names = {}
  /\ IF leaf.body = {} THEN phase = "names" /\ maps = <<InitialMapping>>
                       ELSE phase = "order" /\ maps = << >>

Place ==
  /\ phase = "order"
  /\ LET candidates == Candidates
     IN  \E r \in candidates :
           /\ \A s \in candidates \ {r} : Precedes(r, s)
           /\ path' = Append(path, r[3])
           /\ IF Done \cup {r[3]} = leaf.body
              THEN phase' = "names" /\ maps' = <<InitialMapping>>
              ELSE UNCHANGED <<phase, maps>>
  /\ UNCHANGED <<leaf, target, failed, failed_names>>

Backtrack ==
  /\ phase = "order" /\ path # << >> /\ Candidates = {}
  /\ failed' = failed \cup {Done}
  /\ path' = SubSeq(path, 1, Len(path) - 1)
  /\ UNCHANGED <<leaf, target, phase, maps, failed_names>>

NoOrder ==
  /\ phase = "order" /\ path = << >> /\ Candidates = {}
  /\ phase' = "no_order"
  /\ UNCHANGED <<leaf, target, path, failed, maps, failed_names>>
-----------------------------------------------------------------------------
(***************************************************************************)
(* Naming.  Step s names path[s]; the selects read after all of them.      *)
(***************************************************************************)
(* Fault: the last reader of a value is not counted. *)
UsedAfterEarly(v, s) ==
  \/ \E t \in DOMAIN path : t > s + 1 /\ v \in Elements(leaf.values[path[t]].src_ids)
  \/ v \in output_vids
UsedAfter(v, s) ==
  \/ \E t \in DOMAIN path : t > s /\ v \in Elements(leaf.values[path[t]].src_ids)
  \/ v \in output_vids

(* _output_forbidden_names: what the selects before an output's own write. *)
Forbidden(v) ==
  LET outs == leaf.selects
      its == {n \in DOMAIN outs : outs[n][2] = v}
  IN  IF its = {} THEN {}
      ELSE {outs[m][1] : m \in 1 .. (CHOOSE n \in its : \A o \in its : o <= n) - 1}

(* What step s tries from mapping m.                                       *)
FreeNames(m) ==
  {<<1, j, leaf.slots[j]>> : j \in {i \in DOMAIN leaf.slots : \A v \in DOMAIN m : m[v] # leaf.slots[i]}}
(* Fault: the names of dying operands are not tried. *)
CandidateNamesFree(s, m) == FreeNames(m)
(* The names, each after its place: those of dying operands, then the free *)
(* ones.                                                                   *)
CandidateNames(s, m) ==
  LET srcs == leaf.values[path[s]].src_ids
      dying == {i \in DOMAIN srcs : ~UsedAfter(srcs[i], s)}
  IN  {<<0, i, m[srcs[i]]>> : i \in dying} \cup FreeNames(m)

NextMapping(s, m, name) ==
  LET v == path[s]
      kept == {d \in DOMAIN m \ {v} : UsedAfter(d, s)}
  IN  [d \in kept \cup {v} |-> IF d = v THEN name ELSE m[d]]

Injective(f) == \A d, e \in DOMAIN f : f[d] = f[e] => d = e

Allowed(s, m, name) == name \notin Forbidden(path[s]) /\ Injective(NextMapping(s, m, name))

Step == Len(maps)
Mapping == maps[Step]
Naming == phase = "names" /\ Step <= Len(path)

(* The names that are allowed and not known to fail.                       *)
Fitting ==
  {c \in CandidateNames(Step, Mapping) :
     /\ Allowed(Step, Mapping, c[3])
     /\ <<Step + 1, NextMapping(Step, Mapping, c[3])>> \notin failed_names}

Name ==
  /\ Naming
  /\ LET fitting == Fitting
     IN  \E c \in fitting :
           /\ \A e \in fitting \ {c} : Precedes(c, e)
           /\ maps' = Append(maps, NextMapping(Step, Mapping, c[3]))
  /\ UNCHANGED <<leaf, target, phase, path, failed, failed_names>>

Rename ==
  /\ Naming /\ Step > 1 /\ Fitting = {}
  /\ failed_names' = failed_names \cup {<<Step, Mapping>>}
  /\ maps' = SubSeq(maps, 1, Step - 1)
  /\ UNCHANGED <<leaf, target, phase, path, failed>>

NoNames ==
  /\ Naming /\ Step = 1 /\ Fitting = {}
  /\ phase' = "no_names"
  /\ UNCHANGED <<leaf, target, path, failed, maps, failed_names>>

Planned ==
  /\ phase = "names" /\ Step > Len(path)
  /\ phase' = "planned"
  /\ UNCHANGED <<leaf, target, path, failed, maps, failed_names>>

Returned == phase \in {"planned", "no_order", "no_names"} /\ UNCHANGED vars

Next == \/ Place \/ Backtrack \/ NoOrder
        \/ Name \/ Rename \/ NoNames \/ Planned \/ Returned

Spec == Init /\ [][Next]_vars
-----------------------------------------------------------------------------
TypeOK ==
  /\ \E request \in Requests : leaf.slots = request[1].slots /\ target = request[2]
  /\ phase \in {"order", "names", "planned", "no_order", "no_names"}
  /\ Done \subseteq leaf.body /\ Cardinality(Done) = Len(path)
  /\ \A done \in failed : done \subseteq leaf.body
  /\ Len(maps) <= Len(path) + 1
  /\ \A s \in DOMAIN maps : maps[s] \in [DOMAIN maps[s] -> Elements(leaf.slots)]

(* The sets of body values that some order reaches within t slots, when    *)
(* outs are held to the end: the search without its memo and without its   *)
(* choice of an order.                                                     *)
Reached(outs) ==
  LET layer[n \in 0 .. Cardinality(leaf.body)] ==
        IF n = 0 THEN {{}}
        ELSE UNION {{done \cup {v} : v \in {w \in Ready(done) : Rank(w, done, outs)[1] <= target}}
                     : done \in layer[n - 1]}
  IN  layer[Cardinality(leaf.body)]
OrderExists(outs) == Reached(outs) # {}

(* The mappings that some choice of names ends the body with.              *)
Assigned ==
  LET layer[n \in 0 .. Len(path)] ==
        IF n = 0 THEN {InitialMapping}
        ELSE UNION {{NextMapping(n, m, c[3]) :
                       c \in {e \in CandidateNames(n, m) : Allowed(n, m, e[3])}} : m \in layer[n - 1]}
  IN  layer[Len(path)]

(* "no arithmetic-body order fits", "no slot assignment fits the chosen    *)
(* order": a search gives up only when nothing fits by its own count,      *)
(* whatever it remembered, and an order it returns puts every operand of   *)
(* the body before its readers.                                            *)
SearchIsExact ==
  /\ phase = "no_order" => ~OrderExists(output_vids)
  /\ phase = "no_names" => Assigned = {}
  /\ \A s \in DOMAIN path : Elements(leaf.values[path[s]].src_ids) \cap leaf.body
                              \subseteq {path[t] : t \in 1 .. s - 1}

NameOf(v) == IF v \in leaf.initial THEN leaf.values[v].dst
             ELSE maps[(CHOOSE s \in DOMAIN path : path[s] = v) + 1][v]
Position(v) == IF v \in leaf.body THEN CHOOSE s \in DOMAIN path : path[s] = v ELSE 0
WrittenBetween(name, s, t) == \E u \in s + 1 .. t - 1 : NameOf(path[u]) = name

(* Whoever reads a value in the body finds it in the slot it was named:    *)
(* the mapping still has it (mapping[dep]), and nothing is named to that   *)
(* slot between the value and its reader.                                  *)
OperandsHeld ==
  /\ Naming => Elements(leaf.values[path[Step]].src_ids) \subseteq DOMAIN Mapping
  /\ phase = "planned" =>
       \A t \in DOMAIN path : \A d \in Elements(leaf.values[path[t]].src_ids) :
         ~WrittenBetween(NameOf(d), Position(d), t)
=============================================================================
