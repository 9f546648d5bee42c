------------------------ MODULE LeafSchedulerProofs ------------------------
(***************************************************************************)
(* For every leaf and every number of slots: neither memoised search gives *)
(* up what it could find, an order puts every operand before its readers,  *)
(* and a plan keeps every operand in its slot until its last reader.       *)
(*                                                                         *)
(* The invariant: what the searches remember as failed is closed (every    *)
(* step that fits leads from it to what is remembered too) and holds no    *)
(* complete order or naming; the mappings hold, under the name it was      *)
(* given, every value that the rest of the order reads.                    *)
(***************************************************************************)
EXTENDS LeafScheduler, ArithmeticLemmas

(* The values that an instruction of the body reads.                       *)
Operands(v) == Elements(leaf.values[v].src_ids)

WellFormed ==
  /\ leaf.body \subseteq Nat /\ IsFiniteSet(leaf.body)
  /\ leaf.body \cap leaf.initial = {}
  /\ \A v \in leaf.body \cup leaf.initial : leaf.values[v].dst \in Elements(leaf.slots)
  /\ \A v \in leaf.body : \A d \in Operands(v) :
       d \in leaf.body \cup leaf.initial /\ <<d, v>> \in leaf.uses
  /\ target \in Nat
-----------------------------------------------------------------------------
(* The last write before an instruction.                                   *)
LEMMA LastOf ==
  ASSUME NEW n \in Nat, NEW T \in SUBSET (0 .. n), T # {}
  PROVE  \E m \in T : \A k \in T : k <= m
<1> DEFINE Rest == {n - k : k \in T}
<1>1. Rest \in SUBSET Nat /\ Rest # {}
  <2>1. \A k \in T : k \in Nat /\ k <= n /\ n - k \in Nat OBVIOUS
  <2> QED BY <2>1
<1>2. PICK r \in Rest : \A q \in Rest : r <= q
  <2> HIDE DEF Rest
  <2> QED BY <1>1, LeastMember
<1>3. PICK m \in T : r = n - m OBVIOUS
<1>4. \A k \in T : n - m <= n - k BY <1>2, <1>3
<1>5. \A k \in T : k <= m BY <1>4
<1> QED BY <1>5

(* What an instruction of the body reads was written before it, by the     *)
(* prefix or by the body.                                                  *)
LEMMA Seen ==
  ASSUME NEW request \in Requests, NEW i \in DOMAIN request[1].code,
         request[1].code[i].op \in BODY_OPS,
         NEW r, Version(request[1].code, r, i) >= 0
  PROVE  /\ Version(request[1].code, r, i) \in 0 .. i - 2
         /\ request[1].code[Version(request[1].code, r, i) + 1].op \in BODY_OPS \cup PREFIX_OPS
<1> DEFINE code == request[1].code
           writes == {j \in 1 .. i - 1 : code[j].dst = r}
<1>1. /\ DOMAIN code = 1 .. Len(code) /\ Len(code) \in Nat
      /\ \A j \in DOMAIN code : code[j].op \in BODY_OPS \cup PREFIX_OPS \cup {SELECT_OP}
      /\ \A j, n \in DOMAIN code : j < n /\ code[j].op = SELECT_OP => code[n].op = SELECT_OP
  <2>1. code \in Seq(Elements(code)) BY LeafAssumption
  <2> HIDE DEF code
  <2>2. DOMAIN code = 1 .. Len(code) /\ Len(code) \in Nat BY <2>1
  <2> QED BY <2>2, LeafAssumption DEF code
<1>2. writes # {} BY DEF Version
<1>3. PICK m \in writes : \A n \in writes : n <= m
  <2>1. i - 1 \in Nat /\ writes \in SUBSET (0 .. i - 1) BY <1>1
  <2> HIDE DEF writes
  <2> QED BY <2>1, <1>2, LastOf
<1> DEFINE last == CHOOSE j \in writes : \A n \in writes : n <= j
<1>4. last \in writes BY <1>3
<1>5. Version(code, r, i) = last - 1 BY <1>2 DEF Version
<1>6. last \in 1 .. i - 1 /\ last \in DOMAIN code /\ last < i BY <1>1, <1>4
<1>7. code[i].op # SELECT_OP BY DEF BODY_OPS, SELECT_OP
<1>8. code[last].op # SELECT_OP BY <1>1, <1>6, <1>7
<1> HIDE DEF last
<1> QED BY <1>1, <1>5, <1>6, <1>8

(* The facts of a leaf: operands of the body are values of the prefix or   *)
(* of the body, every read is among the uses.                              *)
LEMMA FactsShape ==
  ASSUME NEW request \in Requests, leaf = Facts(request[1]), target = request[2]
  PROVE  WellFormed /\ leaf.slots = request[1].slots
<1> DEFINE l == request[1]
           code == l.code
           values == extract_arithmetic_values(l)
<1>1. /\ DOMAIN code = 1 .. Len(code) /\ Len(code) \in Nat
      /\ \A j \in DOMAIN code : code[j].dst \in Elements(l.slots)
  <2>1. code \in Seq(Elements(code)) BY LeafAssumption
  <2> HIDE DEF code
  <2>2. DOMAIN code = 1 .. Len(code) /\ Len(code) \in Nat BY <2>1
  <2> QED BY <2>2, LeafAssumption DEF code, l
<1>2. /\ leaf.slots = l.slots /\ leaf.values = values
      /\ leaf.body = {v \in DOMAIN values : values[v].op \in BODY_OPS}
      /\ leaf.initial = {v \in DOMAIN values : values[v].op \in PREFIX_OPS}
      /\ leaf.uses = UNION {{<<d, v>> : d \in Elements(values[v].src_ids)} : v \in leaf.body}
  BY DEF Facts
<1>3. /\ DOMAIN values = 0 .. Len(code) - 1
      /\ \A v \in 0 .. Len(code) - 1 : values[v].dst = code[v + 1].dst /\ values[v].op = code[v + 1].op
  BY DEF extract_arithmetic_values
<1>4. ASSUME NEW v \in leaf.body, NEW d \in Elements(values[v].src_ids)
      PROVE  d \in leaf.body \cup leaf.initial
  <2>1. v + 1 \in DOMAIN code /\ code[v + 1].op \in BODY_OPS BY <1>1, <1>2, <1>3
  <2>2. \E r : d = Version(code, r, v + 1) /\ d >= 0
    <3>1. v \in 0 .. Len(code) - 1 BY <1>2, <1>3
    <3>2. values[v].src_ids =
            [n \in {n \in DOMAIN code[v + 1].src :
                      code[v + 1].src[n] \in Elements(l.slots)
                      /\ Version(code, code[v + 1].src[n], v + 1) >= 0}
               |-> Version(code, code[v + 1].src[n], v + 1)]
      BY <3>1 DEF extract_arithmetic_values
    <3> QED BY <3>2 DEF Elements
  <2>3. PICK r : d = Version(code, r, v + 1) /\ d >= 0 BY <2>2
  <2>4. d \in 0 .. v - 1 /\ code[d + 1].op \in BODY_OPS \cup PREFIX_OPS
    <3>1. v \in Nat BY <1>1, <1>2, <1>3
    <3>2. d \in 0 .. (v + 1) - 2 /\ code[d + 1].op \in BODY_OPS \cup PREFIX_OPS BY <2>1, <2>3, Seen
    <3> QED BY <3>1, <3>2
  <2>5. d \in DOMAIN values /\ values[d].op \in BODY_OPS \cup PREFIX_OPS
    <3>1. v \in 0 .. Len(code) - 1 BY <1>2, <1>3
    <3>2. d \in 0 .. Len(code) - 1 BY <1>1, <2>4, <3>1
    <3> QED BY <1>3, <2>4, <3>2
  <2> QED BY <1>2, <2>5
<1>5. leaf.body \subseteq 0 .. Len(code) - 1 /\ leaf.initial \subseteq 0 .. Len(code) - 1 BY <1>2, <1>3
<1>6. leaf.body \subseteq Nat /\ IsFiniteSet(leaf.body)
  <2>1. IsFiniteSet(0 .. Len(code) - 1) BY <1>1, FS_Interval
  <2> QED BY <1>1, <1>5, <2>1, FS_Subset
<1>7. leaf.body \cap leaf.initial = {} BY <1>2 DEF BODY_OPS, PREFIX_OPS
<1>8. \A v \in leaf.body \cup leaf.initial : leaf.values[v].dst \in Elements(leaf.slots)
  <2>1. \A v \in 0 .. Len(code) - 1 : values[v].dst \in Elements(l.slots)
    <3> SUFFICES ASSUME NEW v \in 0 .. Len(code) - 1 PROVE values[v].dst \in Elements(l.slots)
      OBVIOUS
    <3>1. v + 1 \in DOMAIN code BY <1>1
    <3> QED BY <3>1, <1>1, <1>3
  <2> QED BY <2>1, <1>2, <1>5
<1>9. \A v \in leaf.body : \A d \in Operands(v) : d \in leaf.body \cup leaf.initial /\ <<d, v>> \in leaf.uses
  BY <1>2, <1>4 DEF Operands
<1>10. target \in Nat BY LeafAssumption
<1> QED BY <1>2, <1>6, <1>7, <1>8, <1>9, <1>10 DEF WellFormed

Values   == leaf.initial \cup leaf.body
Mappings == UNION {[D -> Elements(leaf.slots)] : D \in SUBSET Values}

Chosen == \E request \in Requests : leaf.slots = request[1].slots /\ target = request[2]

Ordered ==
  /\ path \in Seq(leaf.body)
  /\ \A s, t \in DOMAIN path : path[s] = path[t] => s = t
  /\ Cardinality(Done) = Len(path)
  /\ \A s \in DOMAIN path : \A d \in Operands(path[s]) :
       d \in leaf.body => \E t \in 1 .. s - 1 : path[t] = d

Phases ==
  /\ phase \in {"order", "names", "planned", "no_order", "no_names"}
  /\ phase = "order" => Done # leaf.body /\ maps = << >>
  /\ phase = "no_order" => path = << >> /\ maps = << >> /\ leaf.body # {}
  /\ phase \in {"names", "planned", "no_names"} => Done = leaf.body /\ 1 <= Len(maps)
  /\ phase = "planned" => Len(maps) = Len(path) + 1

(* Every step from done that fits leads to a set already given up.         *)
Exhausted(done) ==
  \A v \in Ready(done) : Rank(v, done, output_vids)[1] <= target => done \cup {v} \in failed

Closed ==
  /\ \A done \in failed : done \subseteq leaf.body /\ done # leaf.body /\ Exhausted(done)
  /\ phase = "no_order" => Exhausted({})

(* Every name allowed at step s leads from m to what is known to fail.     *)
ExhaustedNames(s, m) ==
  \A c \in CandidateNames(s, m) :
    Allowed(s, m, c[3]) => <<s + 1, NextMapping(s, m, c[3])>> \in failed_names

ClosedNames ==
  /\ phase \in {"order", "no_order"} => failed_names = {}
  /\ \A f \in failed_names : f[1] \in 1 .. Len(path) /\ ExhaustedNames(f[1], f[2])
  /\ phase = "no_names" => 1 <= Len(path) /\ ExhaustedNames(1, InitialMapping)

NeededFrom(d, s) == \E t \in DOMAIN path : t >= s /\ d \in Operands(path[t])

Named ==
  /\ maps \in Seq(Mappings) /\ Len(maps) <= Len(path) + 1
  /\ maps # << >> => maps[1] = InitialMapping
  /\ \A s \in DOMAIN maps : s > 1 => Injective(maps[s]) /\ path[s - 1] \in DOMAIN maps[s]
  /\ \A s \in DOMAIN maps : \A d \in leaf.initial :
       NeededFrom(d, s) => d \in DOMAIN maps[s] /\ maps[s][d] = leaf.values[d].dst
  /\ \A s \in DOMAIN maps : \A u \in 1 .. s - 1 :
       NeededFrom(path[u], s) =>
         path[u] \in DOMAIN maps[s] /\ maps[s][path[u]] = maps[u + 1][path[u]]

IInv == WellFormed /\ Chosen /\ Ordered /\ Phases /\ Closed /\ ClosedNames /\ Named
-----------------------------------------------------------------------------
(* A sequence with an element added.                                       *)
LEMMA Appended ==
  ASSUME NEW S, NEW s \in Seq(S), NEW e \in S
  PROVE  /\ Append(s, e) \in Seq(S)
         /\ Len(Append(s, e)) = Len(s) + 1 /\ Len(s) \in Nat
         /\ DOMAIN s = 1 .. Len(s) /\ DOMAIN Append(s, e) = 1 .. Len(s) + 1
         /\ \A i \in 1 .. Len(s) : Append(s, e)[i] = s[i]
         /\ Append(s, e)[Len(s) + 1] = e
         /\ Elements(Append(s, e)) = Elements(s) \cup {e}
<1>1. /\ Append(s, e) \in Seq(S)
      /\ Len(Append(s, e)) = Len(s) + 1 /\ Len(s) \in Nat
      /\ DOMAIN s = 1 .. Len(s) /\ DOMAIN Append(s, e) = 1 .. Len(s) + 1
      /\ \A i \in 1 .. Len(s) : Append(s, e)[i] = s[i]
      /\ Append(s, e)[Len(s) + 1] = e
  OBVIOUS
<1>2. Elements(Append(s, e)) = Elements(s) \cup {e}
  <2> DEFINE a == Append(s, e)
             n == Len(s)
  <2>1. /\ n \in Nat /\ DOMAIN s = 1 .. n /\ DOMAIN a = 1 .. n + 1
        /\ \A i \in 1 .. n : a[i] = s[i]
        /\ a[n + 1] = e
    BY <1>1
  <2> HIDE DEF a, n
  <2>2. Elements(a) = Elements(s) \cup {e} BY <2>1 DEF Elements
  <2> QED BY <2>2 DEF a
<1> QED BY <1>1, <1>2

(* A sequence without its last element.                                    *)
LEMMA Shortened ==
  ASSUME NEW S, NEW s \in Seq(S), s # << >>
  PROVE  /\ SubSeq(s, 1, Len(s) - 1) \in Seq(S)
         /\ Len(SubSeq(s, 1, Len(s) - 1)) = Len(s) - 1 /\ Len(s) \in Nat \ {0}
         /\ DOMAIN s = 1 .. Len(s) /\ DOMAIN SubSeq(s, 1, Len(s) - 1) = 1 .. Len(s) - 1
         /\ \A i \in 1 .. Len(s) - 1 : SubSeq(s, 1, Len(s) - 1)[i] = s[i]
         /\ Elements(s) = Elements(SubSeq(s, 1, Len(s) - 1)) \cup {s[Len(s)]}
<1>1. /\ SubSeq(s, 1, Len(s) - 1) \in Seq(S)
      /\ Len(SubSeq(s, 1, Len(s) - 1)) = Len(s) - 1 /\ Len(s) \in Nat \ {0}
      /\ DOMAIN s = 1 .. Len(s) /\ DOMAIN SubSeq(s, 1, Len(s) - 1) = 1 .. Len(s) - 1
      /\ \A i \in 1 .. Len(s) - 1 : SubSeq(s, 1, Len(s) - 1)[i] = s[i]
  <2>1. Len(s) \in Nat \ {0} /\ DOMAIN s = 1 .. Len(s) OBVIOUS
  <2>2. 1 \in 1 .. Len(s) + 1 /\ Len(s) - 1 \in 1 - 1 .. Len(s) BY <2>1
  <2>3. \A i \in 1 .. Len(s) - 1 : s[i] \in S BY <2>1
  <2>4. SubSeq(s, 1, Len(s) - 1) = [i \in 1 .. Len(s) - 1 |-> s[i]]
    BY <2>1, SMTT(30)
  <2>5. SubSeq(s, 1, Len(s) - 1) \in Seq(S) BY <2>1, <2>3, <2>4, SMTT(30)
  <2>6. Len(SubSeq(s, 1, Len(s) - 1)) = Len(s) - 1 BY <2>1, <2>4, SMTT(30)
  <2> QED BY <2>1, <2>4, <2>5, <2>6
<1>2. Elements(s) = Elements(SubSeq(s, 1, Len(s) - 1)) \cup {s[Len(s)]}
  <2> DEFINE a == SubSeq(s, 1, Len(s) - 1)
             n == Len(s)
  <2>1. /\ n \in Nat \ {0} /\ DOMAIN s = 1 .. n /\ DOMAIN a = 1 .. n - 1
        /\ \A i \in 1 .. n - 1 : a[i] = s[i]
    BY <1>1
  <2> HIDE DEF a, n
  <2>2. Elements(s) = Elements(a) \cup {s[n]} BY <2>1 DEF Elements
  <2> QED BY <2>2 DEF a, n
<1> QED BY <1>1, <1>2

(* The naming starts from the slots that the prefix loads.                 *)
LEMMA InitialIsMapping ==
  ASSUME WellFormed
  PROVE  InitialMapping \in Mappings /\ DOMAIN InitialMapping = leaf.initial
         /\ \A d \in leaf.initial : InitialMapping[d] = leaf.values[d].dst
<1>1. InitialMapping \in [leaf.initial -> Elements(leaf.slots)] BY DEF WellFormed, InitialMapping
<1>2. leaf.initial \in SUBSET Values BY DEF Values
<1>3. InitialMapping \in Mappings BY <1>1, <1>2 DEF Mappings
<1> QED BY <1>1, <1>3 DEF InitialMapping

(* The mapping list that naming starts with.                               *)
LEMMA FirstMapping == WellFormed /\ Ordered /\ maps = <<InitialMapping>> => Named
<1> SUFFICES ASSUME WellFormed, Ordered, maps = <<InitialMapping>> PROVE Named OBVIOUS
<1>1. InitialMapping \in Mappings /\ DOMAIN InitialMapping = leaf.initial
      /\ \A d \in leaf.initial : InitialMapping[d] = leaf.values[d].dst
  BY InitialIsMapping
<1> DEFINE m == InitialMapping
<1>2. maps = <<m>> OBVIOUS
<1> HIDE DEF m
<1>3. m \in Mappings /\ DOMAIN m = leaf.initial /\ \A d \in leaf.initial : m[d] = leaf.values[d].dst
  BY <1>1 DEF m
<1>4. Len(maps) = 1 /\ DOMAIN maps = {1} /\ maps[1] = m BY <1>2
<1>5. maps \in Seq(Mappings) BY <1>2, <1>3
<1>6. Len(path) \in Nat BY DEF Ordered
<1>7. maps[1] = InitialMapping BY <1>4 DEF m
<1>8. Len(maps) <= Len(path) + 1 BY <1>4, <1>6
<1>9. \A s \in DOMAIN maps : ~(s > 1) /\ 1 .. s - 1 = {} /\ s = 1 BY <1>4
<1> QED BY <1>3, <1>4, <1>5, <1>7, <1>8, <1>9 DEF Named

(* The invariant holds before the first step.                              *)
LEMMA InitIInv == Init => IInv
<1> SUFFICES ASSUME Init PROVE IInv OBVIOUS
<1>1. PICK request \in Requests : leaf = Facts(request[1]) /\ target = request[2] BY DEF Init
<1>2. WellFormed /\ leaf.slots = request[1].slots BY <1>1, FactsShape
<1>3. Chosen BY <1>1, <1>2 DEF Chosen
<1>4. path = << >> /\ failed = {} BY DEF Init
<1>5. Done = {} BY <1>4 DEF Done, Elements
<1>6. Ordered
  <2>1. path \in Seq(leaf.body) /\ DOMAIN path = {} /\ Len(path) = 0 BY <1>4
  <2>2. Cardinality(Done) = Len(path) BY <2>1, <1>5, FS_EmptySet
  <2> QED BY <2>1, <2>2 DEF Ordered
<1>7. Phases
  <2>1. CASE leaf.body = {}
    <3>1. phase = "names" /\ maps = <<InitialMapping>> BY <2>1 DEF Init
    <3>2. 1 <= Len(maps) BY <3>1
    <3> QED BY <3>1, <3>2, <2>1, <1>5 DEF Phases
  <2>2. CASE leaf.body # {}
    <3>1. phase = "order" /\ maps = << >> BY <2>2 DEF Init
    <3> QED BY <3>1, <2>2, <1>5 DEF Phases
  <2> QED BY <2>1, <2>2
<1>8. Closed
  <2>1. phase # "no_order" BY DEF Init
  <2> QED BY <2>1, <1>4 DEF Closed
<1>9. ClosedNames
  <2>1. phase # "no_names" /\ failed_names = {} BY DEF Init
  <2> QED BY <2>1 DEF ClosedNames
<1>10. Named
  <2>1. CASE leaf.body = {}
    <3>1. maps = <<InitialMapping>> BY <2>1 DEF Init
    <3> QED BY <3>1, <1>2, <1>6, FirstMapping
  <2>2. CASE leaf.body # {}
    <3>1. maps = << >> BY <2>2 DEF Init
    <3>2. maps \in Seq(Mappings) /\ DOMAIN maps = {} /\ Len(maps) <= Len(path) + 1 BY <3>1, <1>4
    <3> QED BY <3>1, <3>2 DEF Named
  <2> QED BY <2>1, <2>2
<1> QED BY <1>2, <1>3, <1>6, <1>7, <1>8, <1>9, <1>10 DEF IInv

(* Of the operands of a ready value those of the body are done.            *)
LEMMA ReadyShape ==
  ASSUME WellFormed, NEW done, NEW v \in Ready(done)
  PROVE  v \in leaf.body \ done /\ \A d \in Operands(v) : d \in leaf.body => d \in done
<1>1. v \in leaf.body \ done BY DEF Ready
<1>2. ASSUME NEW d \in Operands(v), d \in leaf.body, d \notin done PROVE FALSE
  <2>1. <<d, v>> \in leaf.uses BY <1>1 DEF WellFormed
  <2>2. <<d, v>> \in {u \in leaf.uses : u[1] \in leaf.body \ done} BY <2>1, <1>2
  <2>3. v \in {use[2] : use \in {u \in leaf.uses : u[1] \in leaf.body \ done}} BY <2>2
  <2> QED BY <2>3 DEF Ready
<1> QED BY <1>1, <1>2

(* What is done is a finite part of the body.                              *)
LEMMA DoneShape ==
  ASSUME WellFormed, Ordered
  PROVE  Done \subseteq leaf.body /\ IsFiniteSet(Done) /\ Len(path) \in Nat
         /\ DOMAIN path = 1 .. Len(path) /\ \A t \in DOMAIN path : path[t] \in leaf.body
<1>1. /\ Len(path) \in Nat /\ DOMAIN path = 1 .. Len(path)
      /\ \A t \in DOMAIN path : path[t] \in leaf.body
  BY DEF Ordered
<1>2. Done \subseteq leaf.body BY <1>1 DEF Done, Elements
<1> QED BY <1>1, <1>2, FS_Subset DEF WellFormed

(* A value placed was ready, so its operands come before it.               *)
LEMMA PlaceIInv == ASSUME IInv, Place PROVE IInv'
<1>1. /\ WellFormed /\ Chosen /\ Ordered /\ Phases /\ Closed /\ ClosedNames /\ Named BY DEF IInv
<1>2. PICK v \in Ready(Done) :
        /\ path' = Append(path, v)
        /\ IF Done \cup {v} = leaf.body
           THEN phase' = "names" /\ maps' = <<InitialMapping>>
           ELSE UNCHANGED <<phase, maps>>
  <2>1. \A v : Rank(v, Done, output_vids)[3] = v BY DEF Rank
  <2> HIDE DEF output_vids
  <2> QED BY <2>1 DEF Place, Candidates
<1>3. phase = "order" /\ UNCHANGED <<leaf, target, failed, failed_names>> BY DEF Place
<1>4. v \in leaf.body \ Done /\ \A d \in Operands(v) : d \in leaf.body => d \in Done BY <1>1, ReadyShape
<1>5. Done \subseteq leaf.body /\ IsFiniteSet(Done) /\ Len(path) \in Nat
      /\ DOMAIN path = 1 .. Len(path) /\ \A t \in DOMAIN path : path[t] \in leaf.body
  BY <1>1, DoneShape
<1>6. maps = << >> BY <1>1, <1>3 DEF Phases
<1>7. /\ path' \in Seq(leaf.body)
      /\ Len(path') = Len(path) + 1 /\ DOMAIN path' = 1 .. Len(path) + 1
      /\ \A i \in 1 .. Len(path) : path'[i] = path[i]
      /\ path'[Len(path) + 1] = v
      /\ Done' = Done \cup {v}
  <2>1. path \in Seq(leaf.body) BY <1>1 DEF Ordered
  <2>2. Elements(path') = Elements(path) \cup {v} BY <2>1, <1>2, <1>4, Appended
  <2>3. Done' = Done \cup {v} BY <2>2 DEF Done, Elements
  <2> QED BY <2>1, <2>3, <1>2, <1>4, Appended
<1>8. Ordered'
  <2>1. \A s, t \in DOMAIN path' : path'[s] = path'[t] => s = t
    <3>1. \A s \in 1 .. Len(path) : path[s] # v BY <1>4, <1>5 DEF Done, Elements
    <3> QED BY <3>1, <1>1, <1>5, <1>7 DEF Ordered
  <2>2. Cardinality(Done') = Len(path')
    <3>1. Cardinality(Done \cup {v}) = Cardinality(Done) + 1 BY <1>4, <1>5, FS_AddElement
    <3> QED BY <3>1, <1>1, <1>7 DEF Ordered
  <2>3. \A s \in DOMAIN path' : \A d \in Operands(path'[s]) :
          d \in leaf.body => \E t \in 1 .. s - 1 : path'[t] = d
    <3> SUFFICES ASSUME NEW s \in DOMAIN path', NEW d \in Operands(path'[s]), d \in leaf.body
                 PROVE  \E t \in 1 .. s - 1 : path'[t] = d
      OBVIOUS
    <3>1. CASE s = Len(path) + 1
      <4>1. PICK t \in DOMAIN path : path[t] = d BY <3>1, <1>4, <1>7 DEF Done, Elements
      <4> QED BY <4>1, <3>1, <1>5, <1>7
    <3>2. CASE s # Len(path) + 1
      <4>1. s \in 1 .. Len(path) BY <3>2, <1>5, <1>7
      <4>2. PICK t \in 1 .. s - 1 : path[t] = d BY <4>1, <1>1, <1>5, <1>7 DEF Ordered
      <4>3. t \in 1 .. Len(path) BY <4>1, <1>5
      <4> QED BY <4>2, <4>3, <1>7
    <3> QED BY <3>1, <3>2
  <2> QED BY <2>1, <2>2, <2>3, <1>3, <1>7 DEF Ordered, Operands, Elements
<1>9. WellFormed' /\ Chosen' BY <1>1, <1>3 DEF WellFormed, Chosen, Operands, Elements
<1>10. Closed'
  <2>1. phase' # "no_order" BY <1>2, <1>3
  <2> QED BY <2>1, <1>1, <1>3
        DEF Closed, Exhausted, Ready, Rank, live_set, output_vids, Second
<1>11. ClosedNames'
  <2>1. failed_names' = {} /\ phase' # "no_names" BY <1>1, <1>2, <1>3 DEF ClosedNames
  <2> QED BY <2>1 DEF ClosedNames
<1>12. CASE Done \cup {v} = leaf.body
  <2>1. phase' = "names" /\ maps' = <<InitialMapping>> BY <1>2, <1>12
  <2>2. 1 <= Len(maps') BY <2>1
  <2>3. Phases' BY <2>1, <2>2, <1>3, <1>7, <1>12 DEF Phases
  <2>4. maps' = <<InitialMapping'>> BY <2>1, <1>3 DEF InitialMapping
  <2>5. (WellFormed /\ Ordered /\ maps = <<InitialMapping>> => Named)' BY FirstMapping, PTL
  <2> QED BY <2>3, <2>4, <2>5, <1>8, <1>9, <1>10, <1>11 DEF IInv
<1>13. CASE Done \cup {v} # leaf.body
  <2>1. UNCHANGED <<phase, maps>> BY <1>2, <1>13
  <2>2. Phases' BY <2>1, <1>3, <1>6, <1>7, <1>13 DEF Phases
  <2>3. Named'
    <3>1. maps' = << >> /\ Len(path') \in Nat BY <2>1, <1>6, <1>5, <1>7
    <3>2. maps' \in Seq(Mappings') /\ DOMAIN maps' = {} /\ Len(maps') <= Len(path') + 1 BY <3>1
    <3> QED BY <3>1, <3>2 DEF Named
  <2> QED BY <2>2, <2>3, <1>8, <1>9, <1>10, <1>11 DEF IInv
<1> QED BY <1>12, <1>13

(* No step that fits leaves the values done: their set is exhausted.       *)
LEMMA NoCandidates ==
  ASSUME Candidates = {}
  PROVE  Exhausted(Done)
<1> SUFFICES ASSUME NEW v \in Ready(Done), Rank(v, Done, output_vids)[1] <= target,
                    Done \cup {v} \notin failed
             PROVE  FALSE
  BY DEF Exhausted
<1> DEFINE r == Rank(v, Done, output_vids)
<1>1. r[3] = v BY DEF Rank
<1>2. r \in {Rank(w, Done, output_vids) : w \in Ready(Done)} OBVIOUS
<1> HIDE DEF r
<1>3. r[1] <= target BY DEF r
<1> QED BY <1>1, <1>2, <1>3 DEF Candidates

(* The set given up is exhausted: nothing that fits leaves it but what is  *)
(* known to fail.                                                          *)
LEMMA BacktrackIInv == ASSUME IInv, Backtrack PROVE IInv'
<1>1. /\ WellFormed /\ Chosen /\ Ordered /\ Phases /\ Closed /\ ClosedNames /\ Named BY DEF IInv
<1>2. /\ phase = "order" /\ path # << >> /\ Candidates = {}
      /\ failed' = failed \cup {Done}
      /\ path' = SubSeq(path, 1, Len(path) - 1)
      /\ UNCHANGED <<leaf, target, phase, maps, failed_names>>
  BY DEF Backtrack
<1>3. maps = << >> /\ Done # leaf.body BY <1>1, <1>2 DEF Phases
<1>4. Done \subseteq leaf.body /\ IsFiniteSet(Done) /\ Len(path) \in Nat
      /\ DOMAIN path = 1 .. Len(path) /\ \A t \in DOMAIN path : path[t] \in leaf.body
  BY <1>1, DoneShape
<1>5. /\ path' \in Seq(leaf.body) /\ Len(path') = Len(path) - 1
      /\ Len(path) \in Nat \ {0} /\ DOMAIN path' = 1 .. Len(path) - 1
      /\ \A i \in 1 .. Len(path) - 1 : path'[i] = path[i]
      /\ Done = Done' \cup {path[Len(path)]}
  <2>1. path \in Seq(leaf.body) BY <1>1 DEF Ordered
  <2>2. Elements(path) = Elements(path') \cup {path[Len(path)]} BY <2>1, <1>2, Shortened
  <2>3. Done = Done' \cup {path[Len(path)]} BY <2>2 DEF Done, Elements
  <2> QED BY <2>1, <2>3, <1>2, Shortened
<1>6. path[Len(path)] \notin Done'
  <2> SUFFICES ASSUME NEW t \in DOMAIN path', path'[t] = path[Len(path)] PROVE FALSE
    BY DEF Done, Elements
  <2>1. t \in DOMAIN path /\ Len(path) \in DOMAIN path /\ t # Len(path) BY <1>4, <1>5
  <2> QED BY <2>1, <1>1, <1>5 DEF Ordered
<1>7. Ordered'
  <2>1. \A s, t \in DOMAIN path' : path'[s] = path'[t] => s = t BY <1>1, <1>4, <1>5 DEF Ordered
  <2>2. Cardinality(Done') = Len(path')
    <3> DEFINE before == Done'
    <3>1. before \subseteq Done BY <1>5
    <3>2. IsFiniteSet(before) BY <3>1, <1>4, FS_Subset
    <3> HIDE DEF before
    <3>3. Cardinality(before \cup {path[Len(path)]}) = Cardinality(before) + 1 /\ Cardinality(before) \in Nat
      BY <3>2, <1>6, FS_AddElement, FS_CardinalityType DEF before
    <3>4. Cardinality(Done) = Cardinality(before) + 1 BY <3>3, <1>5 DEF before
    <3>5. Cardinality(before) = Len(path') BY <3>3, <3>4, <1>1, <1>5 DEF Ordered
    <3> QED BY <3>5 DEF before
  <2>3. \A s \in DOMAIN path' : \A d \in Operands(path'[s]) :
          d \in leaf.body => \E t \in 1 .. s - 1 : path'[t] = d
    <3> SUFFICES ASSUME NEW s \in DOMAIN path', NEW d \in Operands(path'[s]), d \in leaf.body
                 PROVE  \E t \in 1 .. s - 1 : path'[t] = d
      OBVIOUS
    <3>1. s \in 1 .. Len(path) - 1 /\ s \in DOMAIN path BY <1>4, <1>5
    <3>2. PICK t \in 1 .. s - 1 : path[t] = d BY <3>1, <1>1, <1>5 DEF Ordered
    <3>3. t \in 1 .. Len(path) - 1 BY <3>1, <1>5
    <3> QED BY <3>2, <3>3, <1>5
  <2>4. \A v : Operands(v)' = Operands(v) BY <1>2 DEF Operands
  <2> QED BY <2>1, <2>2, <2>3, <2>4, <1>2, <1>5 DEF Ordered
<1>8. Phases'
  <2>1. Done' # leaf.body BY <1>4, <1>5, <1>6
  <2> QED BY <2>1, <1>2, <1>3 DEF Phases
<1>9. Closed'
  <2>1. Exhausted(Done) BY <1>2, NoCandidates
  <2>2. \A done \in failed' : Exhausted(done)'
    <3>1. \A done \in failed' : Exhausted(done) BY <2>1, <1>1, <1>2 DEF Closed
    <3> QED BY <3>1, <1>2 DEF Exhausted, Ready, Rank, live_set, output_vids, Second
  <2>3. \A done \in failed' : done \subseteq leaf.body /\ done # leaf.body
    BY <1>1, <1>2, <1>3, <1>4 DEF Closed
  <2> QED BY <2>2, <2>3, <1>2 DEF Closed
<1>10. Named'
  <2>1. maps' = << >> /\ Len(path') \in Nat BY <1>2, <1>3, <1>5
  <2>2. maps' \in Seq(Mappings') /\ DOMAIN maps' = {} /\ Len(maps') <= Len(path') + 1 BY <2>1
  <2> QED BY <2>1, <2>2 DEF Named
<1>11. ClosedNames'
  <2>1. failed_names' = {} /\ phase' # "no_names" BY <1>1, <1>2 DEF ClosedNames
  <2> QED BY <2>1 DEF ClosedNames
<1>12. WellFormed' /\ Chosen' BY <1>1, <1>2 DEF WellFormed, Chosen, Operands, Elements
<1> QED BY <1>7, <1>8, <1>9, <1>10, <1>11, <1>12 DEF IInv

(* Giving up exhausts the empty set.                                       *)
LEMMA NoOrderIInv == ASSUME IInv, NoOrder PROVE IInv'
<1>1. /\ WellFormed /\ Chosen /\ Ordered /\ Phases /\ Closed /\ ClosedNames /\ Named BY DEF IInv
<1>2. /\ phase = "order" /\ path = << >> /\ Candidates = {} /\ phase' = "no_order"
      /\ UNCHANGED <<leaf, target, path, failed, maps, failed_names>>
  BY DEF NoOrder
<1>3. Done = {} BY <1>2 DEF Done, Elements
<1>4. Phases' BY <1>1, <1>2, <1>3 DEF Phases
<1>5. Closed'
  <2>1. Exhausted({}) BY <1>2, <1>3, NoCandidates
  <2>2. \A done : Exhausted(done)' <=> Exhausted(done)
    BY <1>2 DEF Exhausted, Ready, Rank, live_set, output_vids, Second
  <2> QED BY <2>1, <2>2, <1>1, <1>2 DEF Closed
<1>6. Ordered' BY <1>1, <1>2 DEF Ordered, Done, Operands, Elements
<1>7. Named' BY <1>1, <1>2 DEF Named, Mappings, Values, InitialMapping, Injective, NeededFrom, Operands, Elements
<1>8. ClosedNames'
  <2>1. failed_names' = {} /\ phase' # "no_names" BY <1>1, <1>2 DEF ClosedNames
  <2> QED BY <2>1 DEF ClosedNames
<1>9. WellFormed' /\ Chosen' BY <1>1, <1>2 DEF WellFormed, Chosen, Operands, Elements
<1> QED BY <1>4, <1>5, <1>6, <1>7, <1>8, <1>9 DEF IInv

(* What a step of the naming starts from: the mapping holds its operands.  *)
LEMMA StepHolds ==
  ASSUME IInv, Naming
  PROVE  /\ Step \in DOMAIN maps /\ Step \in DOMAIN path /\ Step \in Nat
         /\ DOMAIN maps = 1 .. Step /\ DOMAIN path = 1 .. Len(path) /\ Len(path) \in Nat
         /\ path[Step] \in leaf.body
         /\ DOMAIN Mapping \subseteq Values /\ Mapping \in [DOMAIN Mapping -> Elements(leaf.slots)]
         /\ Operands(path[Step]) \subseteq DOMAIN Mapping
<1>1. WellFormed /\ Ordered /\ Phases /\ Named BY DEF IInv
<1>2. /\ Len(path) \in Nat /\ DOMAIN path = 1 .. Len(path)
      /\ \A t \in DOMAIN path : path[t] \in leaf.body
  BY <1>1, DoneShape
<1>3. Step \in Nat /\ DOMAIN maps = 1 .. Step /\ 1 <= Step /\ Step <= Len(path)
  <2>1. maps \in Seq(Mappings) BY <1>1 DEF Named
  <2>2. Len(maps) \in Nat /\ DOMAIN maps = 1 .. Len(maps) BY <2>1
  <2> QED BY <2>2, <1>1 DEF Naming, Step, Phases
<1>4. Step \in DOMAIN maps /\ Step \in DOMAIN path /\ path[Step] \in leaf.body BY <1>2, <1>3
<1>5. DOMAIN Mapping \subseteq Values /\ Mapping \in [DOMAIN Mapping -> Elements(leaf.slots)]
  <2>1. Mapping \in Mappings
    <3>1. maps \in Seq(Mappings) BY <1>1 DEF Named
    <3> QED BY <3>1, <1>4 DEF Mapping
  <2> QED BY <2>1 DEF Mappings
<1>6. ASSUME NEW d \in Operands(path[Step]) PROVE d \in DOMAIN Mapping
  <2>1. NeededFrom(d, Step) BY <1>3, <1>4 DEF NeededFrom
  <2>2. d \in leaf.body \cup leaf.initial BY <1>1, <1>4 DEF WellFormed
  <2>3. CASE d \in leaf.initial BY <2>1, <2>3, <1>1, <1>4 DEF Named, Mapping
  <2>4. CASE d \in leaf.body
    <3>1. PICK u \in 1 .. Step - 1 : path[u] = d BY <2>4, <1>1, <1>4 DEF Ordered
    <3> QED BY <3>1, <2>1, <1>1, <1>4 DEF Named, Mapping
  <2> QED BY <2>2, <2>3, <2>4
<1> QED BY <1>2, <1>3, <1>4, <1>5, <1>6

(* A name that is tried is one of the leaf's slots.                        *)
LEMMA NamesAreSlots ==
  ASSUME IInv, Naming, NEW c \in CandidateNames(Step, Mapping)
  PROVE  c[3] \in Elements(leaf.slots)
<1> DEFINE srcs == leaf.values[path[Step]].src_ids
<1>1. /\ Operands(path[Step]) \subseteq DOMAIN Mapping
      /\ Mapping \in [DOMAIN Mapping -> Elements(leaf.slots)]
  BY StepHolds
<1>2. \A i \in DOMAIN srcs : Mapping[srcs[i]] \in Elements(leaf.slots) BY <1>1 DEF Operands, Elements
<1>3. ASSUME c \in FreeNames(Mapping) PROVE c[3] \in Elements(leaf.slots) BY <1>3 DEF FreeNames, Elements
<1>4. ASSUME NEW i \in DOMAIN srcs, c = <<0, i, Mapping[srcs[i]]>> PROVE c[3] \in Elements(leaf.slots)
  BY <1>2, <1>4
<1>5. c \in FreeNames(Mapping) \/ \E i \in DOMAIN srcs : c = <<0, i, Mapping[srcs[i]]>> BY DEF CandidateNames
<1> QED BY <1>3, <1>4, <1>5

(* The rules of naming depend on the leaf and its order alone.             *)
LEMMA SameRules ==
  ASSUME UNCHANGED <<leaf, path>>, NEW CONSTANT s, NEW CONSTANT m
  PROVE  /\ CandidateNames(s, m)' = CandidateNames(s, m)
         /\ \A name : NextMapping(s, m, name)' = NextMapping(s, m, name)
         /\ \A name : Allowed(s, m, name)' <=> Allowed(s, m, name)
         /\ InitialMapping' = InitialMapping
<1>1. \A d : UsedAfter(d, s)' <=> UsedAfter(d, s) BY DEF UsedAfter, output_vids, Second
<1>2. CandidateNames(s, m)' = CandidateNames(s, m) BY <1>1 DEF CandidateNames, FreeNames
<1>3. \A name : NextMapping(s, m, name)' = NextMapping(s, m, name) BY <1>1 DEF NextMapping
<1>4. Forbidden(path[s])' = Forbidden(path[s]) BY DEF Forbidden
<1>5. \A name : Allowed(s, m, name)' <=> Allowed(s, m, name) BY <1>3, <1>4 DEF Allowed, Injective
<1>6. InitialMapping' = InitialMapping BY DEF InitialMapping
<1> QED BY <1>2, <1>3, <1>5, <1>6

(* What is exhausted stays so while the failures are kept.                 *)
LEMMA StaysExhausted ==
  ASSUME UNCHANGED <<leaf, path>>, failed_names \subseteq failed_names',
         NEW CONSTANT s, NEW CONSTANT m, ExhaustedNames(s, m)
  PROVE  ExhaustedNames(s, m)'
BY SameRules DEF ExhaustedNames

(* The failures of the naming stay closed while nothing is added.          *)
LEMMA KeepsClosed ==
  ASSUME UNCHANGED <<leaf, path, failed_names>>, ClosedNames, phase' = "no_names" => phase = "no_names",
         phase' \in {"order", "no_order"} => phase \in {"order", "no_order"}
  PROVE  ClosedNames'
<1>1. \A s, m : ExhaustedNames(s, m) => ExhaustedNames(s, m)' BY StaysExhausted
<1>2. InitialMapping' = InitialMapping BY DEF InitialMapping
<1> QED BY <1>1, <1>2 DEF ClosedNames

(* A naming step keeps what the rest of the order reads, under its name.   *)
LEMMA NameIInv == ASSUME IInv, Name PROVE IInv'
<1>1. /\ WellFormed /\ Chosen /\ Ordered /\ Phases /\ Closed /\ ClosedNames /\ Named BY DEF IInv
<1>2. /\ Naming /\ phase = "names"
      /\ UNCHANGED <<leaf, target, phase, path, failed, failed_names>>
  BY DEF Name, Naming
<1>3. PICK name \in Elements(leaf.slots) :
        /\ Injective(NextMapping(Step, Mapping, name))
        /\ maps' = Append(maps, NextMapping(Step, Mapping, name))
  <2>1. PICK c \in Fitting : maps' = Append(maps, NextMapping(Step, Mapping, c[3])) BY DEF Name
  <2>2. c[3] \in Elements(leaf.slots) BY <1>2, NamesAreSlots DEF Fitting
  <2>3. Injective(NextMapping(Step, Mapping, c[3])) BY DEF Fitting, Allowed
  <2> QED BY <2>1, <2>2, <2>3
<1>4. /\ Step \in DOMAIN maps /\ Step \in DOMAIN path /\ Step \in Nat
      /\ DOMAIN maps = 1 .. Step /\ DOMAIN path = 1 .. Len(path) /\ Len(path) \in Nat
      /\ path[Step] \in leaf.body
      /\ DOMAIN Mapping \subseteq Values /\ Mapping \in [DOMAIN Mapping -> Elements(leaf.slots)]
  BY <1>2, StepHolds
<1> DEFINE v == path[Step]
           m == NextMapping(Step, Mapping, name)
           kept == {d \in DOMAIN Mapping \ {v} : UsedAfter(d, Step)}
<1>5. m = [d \in kept \cup {v} |-> IF d = v THEN name ELSE Mapping[d]] BY DEF NextMapping
<1>6. m \in Mappings
  <2>1. kept \cup {v} \in SUBSET Values BY <1>4 DEF Values
  <2>2. m \in [kept \cup {v} -> Elements(leaf.slots)] BY <1>3, <1>4, <1>5
  <2> HIDE DEF m, kept
  <2> QED BY <2>1, <2>2 DEF Mappings
<1>7. /\ maps' \in Seq(Mappings) /\ Len(maps') = Step + 1 /\ DOMAIN maps' = 1 .. Step + 1
      /\ \A s \in 1 .. Step : maps'[s] = maps[s]
      /\ maps'[Step + 1] = m
  <2>1. maps \in Seq(Mappings) BY <1>1 DEF Named
  <2> HIDE DEF m
  <2>2. maps' = Append(maps, m) BY <1>3 DEF m
  <2> QED BY <2>1, <2>2, <1>6, Appended DEF Step
<1>8. Injective(m) BY <1>3
<1>9. ASSUME NEW d, d # v, NeededFrom(d, Step + 1), d \in DOMAIN Mapping
      PROVE  d \in DOMAIN m /\ m[d] = Mapping[d]
  <2>1. PICK t \in DOMAIN path : t >= Step + 1 /\ d \in Operands(path[t]) BY <1>9 DEF NeededFrom
  <2>2. t > Step BY <2>1, <1>4
  <2>3. UsedAfter(d, Step) BY <2>1, <2>2 DEF UsedAfter, Operands
  <2>4. d \in kept BY <2>3, <1>9
  <2> HIDE DEF kept, m, v
  <2> QED BY <2>4, <1>5, <1>9
<1>10. v \in DOMAIN m BY <1>5
<1> HIDE DEF m, kept
<1>11. \A d, s : NeededFrom(d, s)' <=> NeededFrom(d, s) BY <1>2 DEF NeededFrom, Operands
<1>12. \A d, s : NeededFrom(d, Step + 1) => NeededFrom(d, Step) BY <1>4 DEF NeededFrom
<1>13. Named'
  <2>1. Mappings' = Mappings /\ InitialMapping' = InitialMapping
    BY <1>2 DEF Mappings, Values, InitialMapping
  <2>2. Len(maps') <= Len(path) + 1 BY <1>2, <1>4, <1>7
  <2>3. maps'[1] = InitialMapping
    <3>1. maps # << >> /\ 1 \in 1 .. Step BY <1>4
    <3> QED BY <3>1, <1>1, <1>7 DEF Named
  <2>4. \A s \in DOMAIN maps' : s > 1 => Injective(maps'[s]) /\ path[s - 1] \in DOMAIN maps'[s]
    <3> SUFFICES ASSUME NEW s \in 1 .. Step + 1, s > 1
                 PROVE  Injective(maps'[s]) /\ path[s - 1] \in DOMAIN maps'[s]
      BY <1>7
    <3>1. CASE s = Step + 1 BY <3>1, <1>4, <1>7, <1>8, <1>10
    <3>2. CASE s # Step + 1
      <4>1. s \in 1 .. Step BY <3>2, <1>4
      <4> QED BY <4>1, <1>1, <1>4, <1>7 DEF Named
    <3> QED BY <3>1, <3>2
  <2>5. \A s \in DOMAIN maps' : \A d \in leaf.initial :
          NeededFrom(d, s) => d \in DOMAIN maps'[s] /\ maps'[s][d] = leaf.values[d].dst
    <3> SUFFICES ASSUME NEW s \in 1 .. Step + 1, NEW d \in leaf.initial, NeededFrom(d, s)
                 PROVE  d \in DOMAIN maps'[s] /\ maps'[s][d] = leaf.values[d].dst
      BY <1>7
    <3>1. CASE s = Step + 1
      <4>1. d # v BY <1>1, <1>4 DEF WellFormed
      <4>2. d \in DOMAIN Mapping /\ Mapping[d] = leaf.values[d].dst
        BY <3>1, <1>1, <1>4, <1>12 DEF Named, Mapping
      <4> QED BY <4>1, <4>2, <3>1, <1>7, <1>9
    <3>2. CASE s # Step + 1
      <4>1. s \in 1 .. Step BY <3>2, <1>4
      <4> QED BY <4>1, <1>1, <1>4, <1>7 DEF Named
    <3> QED BY <3>1, <3>2
  <2>6. \A s \in DOMAIN maps' : \A u \in 1 .. s - 1 :
          NeededFrom(path[u], s) =>
            path[u] \in DOMAIN maps'[s] /\ maps'[s][path[u]] = maps'[u + 1][path[u]]
    <3> SUFFICES ASSUME NEW s \in 1 .. Step + 1, NEW u \in 1 .. s - 1, NeededFrom(path[u], s)
                 PROVE  path[u] \in DOMAIN maps'[s] /\ maps'[s][path[u]] = maps'[u + 1][path[u]]
      BY <1>7
    <3>1. CASE s = Step + 1 /\ u = Step BY <3>1, <1>7, <1>10
    <3>2. CASE s = Step + 1 /\ u # Step
      <4>1. u \in 1 .. Step - 1 /\ u + 1 \in 1 .. Step BY <3>2, <1>4
      <4>2. path[u] # v
        <5>1. u \in DOMAIN path BY <4>1, <1>4
        <5> QED BY <5>1, <3>2, <1>1, <1>4 DEF Ordered
      <4>3. path[u] \in DOMAIN Mapping /\ Mapping[path[u]] = maps[u + 1][path[u]]
        BY <3>2, <4>1, <1>1, <1>4, <1>12 DEF Named, Mapping
      <4> QED BY <4>1, <4>2, <4>3, <3>2, <1>7, <1>9
    <3>3. CASE s # Step + 1
      <4>1. s \in 1 .. Step /\ u + 1 \in 1 .. Step BY <3>3, <1>4
      <4> QED BY <4>1, <1>1, <1>4, <1>7 DEF Named
    <3> QED BY <3>1, <3>2, <3>3
  <2>7. \A f : Injective(f)' <=> Injective(f) BY DEF Injective
  <2> HIDE DEF v
  <2> QED BY <2>1, <2>2, <2>3, <2>4, <2>5, <2>6, <2>7, <1>2, <1>7, <1>11 DEF Named
<1>14. Phases' BY <1>1, <1>2, <1>4, <1>7 DEF Phases, Done
<1>15. \A done : Exhausted(done)' <=> Exhausted(done)
  BY <1>2 DEF Exhausted, Ready, Rank, live_set, output_vids, Second
<1>16. Closed' BY <1>1, <1>2, <1>15 DEF Closed
<1>17. ClosedNames' BY <1>1, <1>2, KeepsClosed
<1>18. Ordered' BY <1>1, <1>2 DEF Ordered, Done, Operands, Elements
<1>19. WellFormed' /\ Chosen' BY <1>1, <1>2 DEF WellFormed, Chosen, Operands, Elements
<1> QED BY <1>13, <1>14, <1>16, <1>17, <1>18, <1>19 DEF IInv

(* A step of the naming that finds no name is exhausted.                   *)
LEMMA NoFitting ==
  ASSUME Fitting = {}
  PROVE  ExhaustedNames(Step, Mapping)
BY DEF Fitting, ExhaustedNames

(* Taking a name back remembers an exhausted step.                         *)
LEMMA RenameIInv == ASSUME IInv, Rename PROVE IInv'
<1>1. /\ WellFormed /\ Chosen /\ Ordered /\ Phases /\ Closed /\ ClosedNames /\ Named BY DEF IInv
<1>2. /\ Naming /\ phase = "names" /\ Step > 1 /\ Fitting = {}
      /\ failed_names' = failed_names \cup {<<Step, Mapping>>}
      /\ maps' = SubSeq(maps, 1, Step - 1)
      /\ UNCHANGED <<leaf, target, phase, path, failed>>
  BY DEF Rename, Naming
<1>3. Step \in Nat /\ DOMAIN maps = 1 .. Step /\ Len(path) \in Nat BY <1>2, StepHolds
<1>4. /\ maps' \in Seq(Mappings) /\ Len(maps') = Step - 1 /\ DOMAIN maps' = 1 .. Step - 1
      /\ \A s \in 1 .. Step - 1 : maps'[s] = maps[s]
  <2>1. maps \in Seq(Mappings) BY <1>1 DEF Named
  <2>2. maps # << >> BY <1>2, <1>3
  <2> QED BY <2>1, <2>2, <1>2, Shortened DEF Step
<1>5. \A d, s : NeededFrom(d, s)' <=> NeededFrom(d, s) BY <1>2 DEF NeededFrom, Operands
<1>6. Named'
  <2>1. Mappings' = Mappings /\ InitialMapping' = InitialMapping
    BY <1>2 DEF Mappings, Values, InitialMapping
  <2>2. Len(maps') <= Len(path) + 1 BY <1>1, <1>3, <1>4 DEF Named, Step
  <2>3. maps'[1] = InitialMapping
    <3>1. maps # << >> /\ 1 \in 1 .. Step - 1 BY <1>2, <1>3
    <3> QED BY <3>1, <1>1, <1>4 DEF Named
  <2>4. \A s \in DOMAIN maps' : /\ s \in DOMAIN maps /\ maps'[s] = maps[s]
                                /\ \A u \in 1 .. s - 1 : maps'[u + 1] = maps[u + 1]
    <3> SUFFICES ASSUME NEW s \in 1 .. Step - 1, NEW u \in 1 .. s - 1
                 PROVE  s \in DOMAIN maps /\ maps'[s] = maps[s] /\ maps'[u + 1] = maps[u + 1]
      BY <1>3, <1>4
    <3>1. u + 1 \in 1 .. Step - 1 BY <1>3
    <3> QED BY <3>1, <1>3, <1>4
  <2>5. \A s \in DOMAIN maps' : s > 1 => Injective(maps'[s]) /\ path[s - 1] \in DOMAIN maps'[s]
    BY <2>4, <1>1 DEF Named
  <2>6. \A s \in DOMAIN maps' : \A d \in leaf.initial :
          NeededFrom(d, s) => d \in DOMAIN maps'[s] /\ maps'[s][d] = leaf.values[d].dst
    BY <2>4, <1>1 DEF Named
  <2>7. \A s \in DOMAIN maps' : \A u \in 1 .. s - 1 :
          NeededFrom(path[u], s) =>
            path[u] \in DOMAIN maps'[s] /\ maps'[s][path[u]] = maps'[u + 1][path[u]]
    BY <2>4, <1>1 DEF Named
  <2>8. \A f : Injective(f)' <=> Injective(f) BY DEF Injective
  <2> QED BY <2>1, <2>2, <2>3, <2>5, <2>6, <2>7, <2>8, <1>2, <1>4, <1>5 DEF Named
<1>7. Phases' BY <1>1, <1>2, <1>3, <1>4 DEF Phases, Done
<1>8. \A done : Exhausted(done)' <=> Exhausted(done)
  BY <1>2 DEF Exhausted, Ready, Rank, live_set, output_vids, Second
<1>9. Closed' BY <1>1, <1>2, <1>8 DEF Closed
<1>10. ClosedNames'
  <2>1. ExhaustedNames(Step, Mapping) BY <1>2, NoFitting
  <2>2. Step \in 1 .. Len(path) BY <1>2, <1>3 DEF Naming
  <2>3. \A f \in failed_names' : f[1] \in 1 .. Len(path) /\ ExhaustedNames(f[1], f[2])
    BY <2>1, <2>2, <1>1, <1>2 DEF ClosedNames
  <2>4. \A s, m : ExhaustedNames(s, m) => ExhaustedNames(s, m)'
    <3>1. failed_names \subseteq failed_names' BY <1>2
    <3> QED BY <3>1, <1>2, StaysExhausted
  <2> QED BY <2>3, <2>4, <1>2 DEF ClosedNames
<1>11. Ordered' BY <1>1, <1>2 DEF Ordered, Done, Operands, Elements
<1>12. WellFormed' /\ Chosen' BY <1>1, <1>2 DEF WellFormed, Chosen, Operands, Elements
<1> QED BY <1>6, <1>7, <1>9, <1>10, <1>11, <1>12 DEF IInv

(* The steps that end a search, and stuttering, change the phase at most.  *)
LEMMA PhaseIInv ==
  ASSUME IInv, UNCHANGED <<leaf, target, path, failed, maps>>, Phases', ClosedNames',
         phase' = "no_order" => phase = "no_order"
  PROVE  IInv'
<1>1. /\ WellFormed /\ Chosen /\ Ordered /\ Phases /\ Closed /\ ClosedNames /\ Named BY DEF IInv
<1>2. \A done : Exhausted(done)' <=> Exhausted(done)
  BY DEF Exhausted, Ready, Rank, live_set, output_vids, Second
<1>3. Closed' BY <1>1, <1>2 DEF Closed
<1>4. Ordered' BY <1>1 DEF Ordered, Done, Operands, Elements
<1>5. Named' BY <1>1 DEF Named, Mappings, Values, InitialMapping, Injective, NeededFrom, Operands, Elements
<1>6. WellFormed' /\ Chosen' BY <1>1 DEF WellFormed, Chosen, Operands, Elements
<1> QED BY <1>3, <1>4, <1>5, <1>6 DEF IInv

(* Giving up exhausts the first step.                                      *)
LEMMA NoNamesIInv == ASSUME IInv, NoNames PROVE IInv'
<1>1. Phases /\ ClosedNames /\ Named BY DEF IInv
<1>2. /\ Naming /\ phase = "names" /\ Step = 1 /\ Fitting = {} /\ phase' = "no_names"
      /\ UNCHANGED <<leaf, target, path, failed, maps, failed_names>>
  BY DEF NoNames, Naming
<1>3. Phases' BY <1>1, <1>2 DEF Phases, Done
<1>4. ClosedNames'
  <2>1. 1 \in DOMAIN maps /\ maps # << >> /\ Len(path) \in Nat BY <1>2, StepHolds
  <2>2. Mapping = InitialMapping BY <2>1, <1>1, <1>2 DEF Mapping, Named
  <2>3. ExhaustedNames(1, InitialMapping) BY <2>2, <1>2, NoFitting
  <2>4. 1 <= Len(path) BY <1>2 DEF Naming
  <2>5. \A s, m : ExhaustedNames(s, m) => ExhaustedNames(s, m)' BY <1>2, StaysExhausted
  <2>6. InitialMapping' = InitialMapping BY <1>2 DEF InitialMapping
  <2> QED BY <2>3, <2>4, <2>5, <2>6, <1>1, <1>2 DEF ClosedNames
<1> QED BY <1>2, <1>3, <1>4, PhaseIInv

(* A plan has a mapping after each value of the order.                     *)
LEMMA PlannedIInv == ASSUME IInv, Planned PROVE IInv'
<1>1. Phases /\ ClosedNames /\ Named BY DEF IInv
<1>2. /\ phase = "names" /\ phase' = "planned" /\ Step > Len(path)
      /\ UNCHANGED <<leaf, target, path, failed, maps, failed_names>>
  BY DEF Planned
<1>3. Len(maps) = Len(path) + 1
  <2>1. path \in Seq(leaf.body) /\ maps \in Seq(Mappings) BY DEF IInv, Ordered, Named
  <2>2. Len(path) \in Nat /\ Len(maps) \in Nat BY <2>1
  <2> QED BY <2>2, <1>1, <1>2 DEF Named, Step
<1>4. Phases' BY <1>1, <1>2, <1>3 DEF Phases, Done
<1>5. ClosedNames' BY <1>1, <1>2, KeepsClosed
<1> QED BY <1>2, <1>4, <1>5, PhaseIInv

(* A step that changes nothing.                                            *)
LEMMA StutterIInv == ASSUME IInv, UNCHANGED vars PROVE IInv'
<1>1. UNCHANGED <<leaf, target, phase, path, failed, maps, failed_names>> BY DEF vars
<1>2. Phases' BY <1>1 DEF IInv, Phases, Done
<1>3. ClosedNames' BY <1>1, KeepsClosed DEF IInv
<1> QED BY <1>1, <1>2, <1>3, PhaseIInv

(* Every step keeps the invariant.                                         *)
LEMMA NextIInv == IInv /\ [Next]_vars => IInv'
<1> SUFFICES ASSUME IInv, [Next]_vars PROVE IInv' OBVIOUS
<1>1. CASE Place BY <1>1, PlaceIInv
<1>2. CASE Backtrack BY <1>2, BacktrackIInv
<1>3. CASE NoOrder BY <1>3, NoOrderIInv
<1>4. CASE Name BY <1>4, NameIInv
<1>5. CASE Rename BY <1>5, RenameIInv
<1>6. CASE NoNames BY <1>6, NoNamesIInv
<1>7. CASE Planned BY <1>7, PlannedIInv
<1>8. CASE Returned \/ UNCHANGED vars BY <1>8, StutterIInv DEF Returned
<1> QED BY <1>1, <1>2, <1>3, <1>4, <1>5, <1>6, <1>7, <1>8 DEF Next

(* The invariant holds in every reachable state.                           *)
LEMMA InvariantIInv == Spec => []IInv
<1> QED BY InitIInv, NextIInv, PTL DEF Spec

(* Type correctness of both searches: what is ordered is part of the body, *)
(* once each, and every mapping gives slots of the leaf.                   *)
THEOREM SchedulerTypes == Spec => []TypeOK
<1>1. ASSUME IInv PROVE TypeOK
  <2>1. WellFormed /\ Chosen /\ Ordered /\ Phases /\ Closed /\ ClosedNames /\ Named BY <1>1 DEF IInv
  <2>2. Done \subseteq leaf.body BY <2>1, DoneShape
  <2>3. \A s \in DOMAIN maps : maps[s] \in [DOMAIN maps[s] -> Elements(leaf.slots)]
    <3> SUFFICES ASSUME NEW s \in DOMAIN maps PROVE maps[s] \in [DOMAIN maps[s] -> Elements(leaf.slots)]
      OBVIOUS
    <3>1. maps \in Seq(Mappings) BY <2>1 DEF Named
    <3>2. maps[s] \in Mappings BY <3>1
    <3> QED BY <3>2 DEF Mappings
  <2> QED BY <2>1, <2>2, <2>3 DEF TypeOK, Chosen, Ordered, Phases, Closed, Named
<1>2. IInv => TypeOK BY <1>1
<1> QED BY <1>2, InvariantIInv, PTL

(* The place of a value in an order.                                       *)
LEMMA Places ==
  ASSUME IInv, NEW v, NEW t \in DOMAIN path, path[t] = v
  PROVE  (CHOOSE s \in DOMAIN path : path[s] = v) = t
BY DEF IInv, Ordered

(* In a plan an operand keeps the slot it was named until its reader.      *)
LEMMA NoWriteBetween ==
  ASSUME IInv, phase = "planned", NEW t \in DOMAIN path, NEW d \in Operands(path[t])
  PROVE  ~WrittenBetween(NameOf(d), Position(d), t)
<1>1. /\ WellFormed /\ Chosen /\ Ordered /\ Phases /\ Closed /\ ClosedNames /\ Named BY DEF IInv
<1>2. /\ Len(path) \in Nat /\ DOMAIN path = 1 .. Len(path)
      /\ \A s \in DOMAIN path : path[s] \in leaf.body
  BY <1>1, DoneShape
<1>3. DOMAIN maps = 1 .. Len(path) + 1
  <2>1. maps \in Seq(Mappings) BY <1>1 DEF Named
  <2>2. Len(maps) \in Nat /\ DOMAIN maps = 1 .. Len(maps) BY <2>1
  <2> QED BY <2>2, <1>1 DEF Phases
<1>4. d \in leaf.initial \cup leaf.body BY <1>1, <1>2 DEF WellFormed
<1> SUFFICES ASSUME NEW u \in Position(d) + 1 .. t - 1, NameOf(path[u]) = NameOf(d)
             PROVE  FALSE
  BY DEF WrittenBetween
<1>5. Position(d) \in 0 .. t - 1
  <2>1. CASE d \in leaf.body
    <3>1. PICK s \in 1 .. t - 1 : path[s] = d BY <2>1, <1>1 DEF Ordered
    <3>2. s \in DOMAIN path BY <3>1, <1>2
    <3>3. Position(d) = s BY <3>1, <3>2, <2>1, Places DEF Position
    <3> QED BY <3>1, <3>3, <1>2
  <2>2. CASE d \notin leaf.body BY <2>2, <1>2 DEF Position
  <2> QED BY <2>1, <2>2
<1>6. u \in DOMAIN path /\ u + 1 \in DOMAIN maps /\ u \in 1 .. t - 1 /\ t \in Nat BY <1>2, <1>3, <1>5
<1>7. NeededFrom(d, u + 1) BY <1>6 DEF NeededFrom
<1>8. NameOf(path[u]) = maps[u + 1][path[u]]
  <2>1. path[u] \notin leaf.initial BY <1>1, <1>2, <1>6 DEF WellFormed
  <2> QED BY <2>1, <1>6, Places DEF NameOf
<1>9. d \in DOMAIN maps[u + 1] /\ maps[u + 1][d] = NameOf(d) /\ d # path[u]
  <2>1. CASE d \in leaf.initial
    <3>1. d # path[u] BY <2>1, <1>1, <1>2, <1>6 DEF WellFormed
    <3> QED BY <3>1, <2>1, <1>1, <1>6, <1>7 DEF Named, NameOf
  <2>2. CASE d \in leaf.body
    <3>1. PICK s \in 1 .. t - 1 : path[s] = d BY <2>2, <1>1 DEF Ordered
    <3>2. s \in DOMAIN path /\ Position(d) = s
      <4>1. s \in DOMAIN path BY <3>1, <1>2
      <4> QED BY <4>1, <3>1, <2>2, Places DEF Position
    <3>3. s \in 1 .. (u + 1) - 1 /\ s # u BY <3>1, <3>2, <1>6
    <3>4. d # path[u] BY <3>1, <3>2, <3>3, <1>1, <1>6 DEF Ordered
    <3>5. d \notin leaf.initial BY <2>2, <1>1 DEF WellFormed
    <3>6. NameOf(d) = maps[s + 1][path[s]] 
      <4>1. (CHOOSE r \in DOMAIN path : path[r] = d) = s BY <3>1, <3>2, Places
      <4> QED BY <4>1, <3>1, <3>5 DEF NameOf
    <3> QED BY <3>1, <3>3, <3>4, <3>6, <1>1, <1>6, <1>7 DEF Named
  <2> QED BY <2>1, <2>2, <1>4
<1>10. Injective(maps[u + 1]) /\ path[u] \in DOMAIN maps[u + 1]
  <2>1. u + 1 > 1 /\ (u + 1) - 1 = u BY <1>6
  <2> QED BY <2>1, <1>1, <1>6 DEF Named
<1> QED BY <1>8, <1>9, <1>10 DEF Injective

(* OperandsHeld, the slots assign_slot_names hands out: when a value is    *)
(* named its operands are in the mapping, and in a plan nothing is named   *)
(* to an operand's slot before its reader.                                 *)
THEOREM OperandsKept == Spec => []OperandsHeld
<1>1. ASSUME IInv PROVE OperandsHeld
  <2>1. Naming => Elements(leaf.values[path[Step]].src_ids) \subseteq DOMAIN Mapping
    BY <1>1, StepHolds DEF Operands
  <2>2. phase = "planned" =>
          \A t \in DOMAIN path : \A d \in Elements(leaf.values[path[t]].src_ids) :
            ~WrittenBetween(NameOf(d), Position(d), t)
    BY <1>1, NoWriteBetween DEF Operands
  <2> QED BY <2>1, <2>2 DEF OperandsHeld
<1>2. IInv => OperandsHeld BY <1>1
<1> QED BY <1>2, InvariantIInv, PTL
-----------------------------------------------------------------------------
(***************************************************************************)
(* Completeness of the searches.                                           *)
(***************************************************************************)
(* What the order may place next, and the sets it so goes on to.           *)
Affordable(done, outs) == {w \in Ready(done) : Rank(w, done, outs)[1] <= target}
After(layer, outs)  == UNION {{done \cup {v} : v \in Affordable(done, outs)} : done \in layer}

(* The layers that Reached goes through.                                   *)
LEMMA Layers ==
  ASSUME WellFormed, NEW outs
  PROVE  LET N == Cardinality(leaf.body)
         IN  \E f : /\ f[0] = {{}}
                    /\ \A n \in 1 .. N : f[n] = After(f[n - 1], outs)
                    /\ Reached(outs) = f[N]
<1> DEFINE N == Cardinality(leaf.body)
           V == SUBSET (SUBSET leaf.body)
           step == [a \in Nat \X V |-> After(a[2], outs)]
<1>1. N \in Nat BY FS_CardinalityType DEF WellFormed
<1>2. step \in [Nat \X V -> V]
  <2> SUFFICES ASSUME NEW a \in Nat \X V PROVE After(a[2], outs) \in V OBVIOUS
  <2>1. \A done \in a[2] : done \subseteq leaf.body OBVIOUS
  <2>2. \A done : Affordable(done, outs) \subseteq leaf.body BY DEF Affordable, Ready
  <2> QED BY <2>1, <2>2 DEF After
<1>3. {{}} \in V OBVIOUS
<1>4. \E f : Computes(f, N, V, {{}}, step)
  <2> HIDE DEF N, V, step
  <2> QED BY <1>1, <1>2, <1>3, RecursionExists
<1>5. PICK f : /\ f \in [0 .. N -> V] /\ f[0] = {{}}
               /\ \A n \in 1 .. N : f[n] = step[<<n, f[n - 1]>>]
  BY <1>4 DEF Computes
<1>6. \A n \in 1 .. N : f[n] = After(f[n - 1], outs)
  <2> SUFFICES ASSUME NEW n \in 1 .. N PROVE f[n] = After(f[n - 1], outs) OBVIOUS
  <2>1. n \in Nat /\ n - 1 \in 0 .. N BY <1>1
  <2>2. f[n - 1] \in V BY <2>1, <1>5
  <2> HIDE DEF N, V
  <2>3. step[<<n, f[n - 1]>>] = After(f[n - 1], outs) BY <2>1, <2>2
  <2> QED BY <2>3, <1>5
<1> DEFINE Lay(g) == g = [n \in 0 .. N |-> IF n = 0 THEN {{}} ELSE After(g[n - 1], outs)]
<1>7. \A g : Lay(g) => g[0] = {{}} /\ \A n \in 1 .. N : g[n] = After(g[n - 1], outs)
  <2> SUFFICES ASSUME NEW g, Lay(g)
               PROVE  g[0] = {{}} /\ \A n \in 1 .. N : g[n] = After(g[n - 1], outs)
    OBVIOUS
  <2>1. \A n \in 0 .. N : g[n] = IF n = 0 THEN {{}} ELSE After(g[n - 1], outs) OBVIOUS
  <2> HIDE DEF N, Lay
  <2>2. 0 \in 0 .. N /\ \A n \in 1 .. N : n \in 0 .. N /\ n # 0 BY <1>1
  <2> QED BY <2>1, <2>2
<1>8. Lay(f)
  <2>1. DOMAIN f = 0 .. N /\ f = [n \in 0 .. N |-> f[n]] BY <1>5
  <2>2. \A n \in 0 .. N : f[n] = IF n = 0 THEN {{}} ELSE After(f[n - 1], outs)
    <3> HIDE DEF N
    <3> QED BY <1>1, <1>5, <1>6
  <2> HIDE DEF N
  <2> QED BY <2>1, <2>2
<1>9. \E g : Lay(g) BY <1>8
<1>10. \E g : Lay(g) /\ Reached(outs) = g[N]
  <2> QED BY <1>9 DEF Reached, After, Affordable
<1> QED BY <1>7, <1>10

(* A search that has given up has exhausted every layer.                   *)
LEMMA LayersExhausted ==
  ASSUME IInv, phase = "no_order"
  PROVE  Reached(output_vids) = {}
<1> DEFINE N == Cardinality(leaf.body)
           outs == output_vids
<1>1. WellFormed /\ Phases /\ Closed BY DEF IInv
<1>2. IsFiniteSet(leaf.body) /\ N \in Nat /\ N # 0
  BY <1>1, FS_CardinalityType, FS_EmptySet DEF WellFormed, Phases
<1>3. PICK f : /\ f[0] = {{}}
               /\ \A n \in 1 .. N : f[n] = After(f[n - 1], outs)
               /\ Reached(outs) = f[N]
  <2> HIDE DEF outs
  <2> QED BY <1>1, Layers
<1> DEFINE Layer(n) == \A done \in f[n] : /\ done \subseteq leaf.body /\ Cardinality(done) = n
                                          /\ n # 0 => done \in failed
                                          /\ n = 0 => done = {}
           S == {n \in Nat : n <= N => Layer(n)}
<1>4. 0 \in S
  <2>1. Cardinality({}) = 0 BY FS_EmptySet
  <2> QED BY <2>1, <1>3
<1>5. ASSUME NEW n \in Nat, n \in S, n + 1 <= N PROVE Layer(n + 1)
  <2>1. Layer(n) /\ n + 1 \in 1 .. N /\ (n + 1) - 1 = n /\ n + 1 # 0 BY <1>2, <1>5
  <2> HIDE DEF S, N, outs
  <2> SUFFICES ASSUME NEW next \in f[n + 1]
               PROVE  /\ next \subseteq leaf.body /\ Cardinality(next) = n + 1
                      /\ next \in failed
    BY <2>1
  <2>2. f[n + 1] = After(f[n], outs) BY <2>1, <1>3
  <2>3. PICK done \in f[n] : \E v \in Affordable(done, outs) : next = done \cup {v}
    BY <2>2 DEF After
  <2>4. PICK v \in Affordable(done, outs) : next = done \cup {v} BY <2>3
  <2>5. v \in leaf.body \ done BY DEF Affordable, Ready
  <2>6. done \subseteq leaf.body /\ Cardinality(done) = n BY <2>1
  <2>7. Cardinality(next) = n + 1
    <3>1. IsFiniteSet(done) BY <2>6, <1>2, FS_Subset
    <3> QED BY <3>1, <2>4, <2>5, <2>6, FS_AddElement
  <2>8. Exhausted(done) BY <2>1, <1>1 DEF Closed
  <2>9. next \in failed BY <2>4, <2>8 DEF Exhausted, Affordable, outs
  <2> QED BY <2>4, <2>5, <2>6, <2>7, <2>9
<1>6. \A n \in Nat : n \in S => n + 1 \in S BY <1>5
<1> HIDE DEF S
<1>7. N \in S BY <1>2, <1>4, <1>6, SetInduction
<1>8. Layer(N) BY <1>2, <1>7 DEF S
<1>9. \A done \in f[N] : done = leaf.body
  <2> SUFFICES ASSUME NEW done \in f[N] PROVE done = leaf.body OBVIOUS
  <2>1. done \in SUBSET leaf.body /\ Cardinality(done) = Cardinality(leaf.body) BY <1>8
  <2> QED BY <2>1, <1>2, FS_Subset
<1>10. \A done \in f[N] : done # leaf.body BY <1>1, <1>2, <1>8 DEF Closed
<1> QED BY <1>3, <1>9, <1>10

(* The mappings that a step n leads to.                                    *)
NamesAfter(n, layer) ==
  UNION {{NextMapping(n, m, c[3]) :
            c \in {e \in CandidateNames(n, m) : Allowed(n, m, e[3])}} : m \in layer}

(* The layers that Assigned goes through.                                  *)
LEMMA NameLayers ==
  ASSUME Len(path) \in Nat
  PROVE  \E f : /\ f[0] = {InitialMapping}
                /\ \A n \in 1 .. Len(path) : f[n] = NamesAfter(n, f[n - 1])
                /\ Assigned = f[Len(path)]
<1> DEFINE Lay(f, k) ==
             f = [n \in 0 .. k |-> IF n = 0 THEN {InitialMapping} ELSE NamesAfter(n, f[n - 1])]
           S == {k \in Nat : \E f : Lay(f, k)}
<1>1. 0 \in S
  <2> DEFINE f == [n \in 0 .. 0 |-> {InitialMapping}]
  <2>1. Lay(f, 0) OBVIOUS
  <2> QED BY <2>1
<1>2. ASSUME NEW k \in Nat, k \in S PROVE k + 1 \in S
  <2>1. PICK f : Lay(f, k) BY <1>2
  <2> DEFINE g == [n \in 0 .. k + 1 |-> IF n = k + 1 THEN NamesAfter(n, f[k]) ELSE f[n]]
  <2>2. \A n \in 0 .. k : g[n] = f[n] OBVIOUS
  <2>3. g[k + 1] = NamesAfter(k + 1, f[k]) OBVIOUS
  <2>4. DOMAIN g = 0 .. k + 1 /\ g = [n \in 0 .. k + 1 |-> g[n]] OBVIOUS
  <2> HIDE DEF g, S
  <2>5. \A n \in 0 .. k : f[n] = IF n = 0 THEN {InitialMapping} ELSE NamesAfter(n, f[n - 1]) BY <2>1
  <2>6. \A n \in 0 .. k + 1 : g[n] = IF n = 0 THEN {InitialMapping} ELSE NamesAfter(n, g[n - 1])
    <3> SUFFICES ASSUME NEW n \in 0 .. k + 1
                 PROVE  g[n] = IF n = 0 THEN {InitialMapping} ELSE NamesAfter(n, g[n - 1])
      OBVIOUS
    <3>1. CASE n = k + 1
      <4>1. n # 0 /\ n - 1 = k /\ k \in 0 .. k BY <3>1
      <4> QED BY <4>1, <3>1, <2>2, <2>3
    <3>2. CASE n # k + 1
      <4>1. n \in 0 .. k /\ (n # 0 => n - 1 \in 0 .. k) BY <3>2
      <4> QED BY <4>1, <2>2, <2>5
    <3> QED BY <3>1, <3>2
  <2>7. Lay(g, k + 1) BY <2>4, <2>6
  <2> QED BY <2>7 DEF S
<1> HIDE DEF S
<1>3. Len(path) \in S BY <1>1, <1>2, SetInduction
<1>4. \E f : Lay(f, Len(path)) BY <1>3 DEF S
<1>5. \E f : Lay(f, Len(path)) /\ Assigned = f[Len(path)] BY <1>4 DEF Assigned, NamesAfter
<1>6. PICK f : Lay(f, Len(path)) /\ Assigned = f[Len(path)] BY <1>5
<1>7. \A n \in 0 .. Len(path) : f[n] = IF n = 0 THEN {InitialMapping} ELSE NamesAfter(n, f[n - 1])
  BY <1>6
<1> HIDE DEF Lay
<1>8. 0 \in 0 .. Len(path) /\ \A n \in 1 .. Len(path) : n \in 0 .. Len(path) /\ n # 0 OBVIOUS
<1> QED BY <1>6, <1>7, <1>8

(* A naming that has given up has exhausted every choice of names.         *)
LEMMA NamesExhausted ==
  ASSUME IInv, phase = "no_names"
  PROVE  Assigned = {}
<1>1. ClosedNames /\ Len(path) \in Nat /\ 1 <= Len(path) /\ ExhaustedNames(1, InitialMapping)
  BY DoneShape DEF IInv, ClosedNames
<1>2. PICK f : /\ f[0] = {InitialMapping}
               /\ \A n \in 1 .. Len(path) : f[n] = NamesAfter(n, f[n - 1])
               /\ Assigned = f[Len(path)]
  BY <1>1, NameLayers
<1> DEFINE Layer(n) == \A m \in f[n] : <<n + 1, m>> \in failed_names
           S == {n \in Nat : 1 <= n /\ n <= Len(path) => Layer(n)}
<1>3. 0 \in S OBVIOUS
<1>4. ASSUME NEW n \in Nat, n \in S, n + 1 <= Len(path) PROVE Layer(n + 1)
  <2>1. n + 1 \in 1 .. Len(path) /\ (n + 1) - 1 = n BY <1>1, <1>4
  <2>2. f[n + 1] = NamesAfter(n + 1, f[n]) BY <2>1, <1>2
  <2>3. \A m \in f[n] : ExhaustedNames(n + 1, m)
    <3>1. CASE n = 0 BY <3>1, <1>1, <1>2
    <3>2. CASE n # 0
      <4>1. Layer(n) BY <3>2, <1>1, <1>4
      <4>2. \A m \in f[n] : <<n + 1, m>> \in failed_names BY <4>1
      <4> QED BY <4>2, <1>1 DEF ClosedNames
    <3> QED BY <3>1, <3>2
  <2> HIDE DEF S
  <2> SUFFICES ASSUME NEW next \in f[n + 1] PROVE <<(n + 1) + 1, next>> \in failed_names OBVIOUS
  <2>4. PICK m \in f[n] : \E c \in CandidateNames(n + 1, m) :
          Allowed(n + 1, m, c[3]) /\ next = NextMapping(n + 1, m, c[3])
    BY <2>2 DEF NamesAfter
  <2> QED BY <2>3, <2>4 DEF ExhaustedNames
<1>5. \A n \in Nat : n \in S => n + 1 \in S BY <1>4
<1> HIDE DEF S
<1>6. Len(path) \in S BY <1>1, <1>3, <1>5, SetInduction
<1>7. \A m \in f[Len(path)] : <<Len(path) + 1, m>> \in failed_names BY <1>1, <1>6 DEF S
<1>8. \A m : <<Len(path) + 1, m>> \notin failed_names BY <1>1 DEF ClosedNames
<1> QED BY <1>2, <1>7, <1>8

(* SearchIsExact: find_low_live_body_order and assign_slot_names raise     *)
(* only when no order and no choice of names fits, in spite of what they   *)
(* remember; an order has every operand of the body before its readers.    *)
THEOREM ExactSearch == Spec => []SearchIsExact
<1>1. ASSUME IInv PROVE SearchIsExact
  <2>1. WellFormed /\ Ordered BY <1>1 DEF IInv
  <2>2. phase = "no_order" => ~OrderExists(output_vids)
    BY <1>1, LayersExhausted DEF OrderExists
  <2>3. phase = "no_names" => Assigned = {} BY <1>1, NamesExhausted
  <2>4. ASSUME NEW s \in DOMAIN path
        PROVE  Elements(leaf.values[path[s]].src_ids) \cap leaf.body
                 \subseteq {path[t] : t \in 1 .. s - 1}
    BY <2>1 DEF Ordered, Operands
  <2> QED BY <2>2, <2>4, <2>3 DEF SearchIsExact
<1>2. IInv => SearchIsExact BY <1>1
<1> QED BY <1>2, InvariantIInv, PTL
=============================================================================
