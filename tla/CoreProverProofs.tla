-------------------------- MODULE CoreProverProofs --------------------------
(***************************************************************************)
(* For any execution, however many shards it has and in whatever order     *)
(* they are asked for, proved and announced: no ProveShard task looks for  *)
(* an artifact that is gone, and prove_core answers at most once, with an  *)
(* error or with the proofs of all shards in the order of their ranges.    *)
(*                                                                         *)
(* The first needs to know who still reads the events of a core shard; the *)
(* second, that what was announced is either a message, the shard that is  *)
(* waited for, or a proof, so that a collector with nothing left to wait   *)
(* for has them all.                                                       *)
(***************************************************************************)
EXTENDS CoreProver, FiniteSetTheorems, SequenceTheorems, TLAPS

Distinct(seq)   == \A i, j \in DOMAIN seq : seq[i] = seq[j] => i = j
Increasing(seq) == \A i, j \in DOMAIN seq : i < j => seq[i] < seq[j]

(* TypeOK, with the lists as sequences and the steps by their names.       *)
Lists ==
  /\ proofs \in Seq(Shards) /\ messages \in Seq(Shards) /\ queue \in Seq(Shards)
  /\ at \in {"idle", "download", "trace", "prove", "upload", "cleanup", "join", "report"}

(* A shard's task is submitted once; it is queued, served, then ended.     *)
TaskOnce ==
  /\ requested = {s \in Shards : task[s] # "none"}
  /\ Distinct(queue) /\ serving \notin Elements(queue)
  /\ \A s \in Elements(queue) \cup ({serving} \ {None}) : task[s] = "submitted"

(* What was announced is a message, is waited for, or is a proof.          *)
AnnouncedOnce ==
  /\ Distinct(messages) /\ Distinct(proofs)
  /\ announced = Elements(messages) \cup ({collector} \ {None}) \cup Elements(proofs)
  /\ Elements(messages) \cap Elements(proofs) = {}
  /\ collector \notin Elements(messages) \cup Elements(proofs)
  /\ \A s \in Elements(proofs) : task[s] = "Succeeded"

(* An answer has both halves: the execution and the proofs.                *)
Halves ==
  /\ main = "start" => executor = "none"
  /\ executor = "Succeeded" => announced = Shards
  /\ closed => executor \in {"Succeeded", "FailedFatal"}
  /\ waited => executor = "Succeeded"
  /\ collected => closed /\ messages = << >> /\ collector = None /\ Increasing(proofs)
  /\ main = "ok" => waited /\ collected

(* Who still reads what.                                                   *)
Unread(s) ==
  \/ s \notin requested \/ s \in Elements(queue)
  \/ serving = s /\ at \in {"download", "trace", "prove", "upload", "cleanup"}
Split == Precompile \cap requested # {}

InputsKept ==
  /\ main = "joined" => {Elf, CommonInput} \subseteq artifacts
  /\ \A s \in requested : Unread(s) => Record(s) \in artifacts
EventsKept ==
  /\ IF Split THEN Marked /\ \A c \in Core, s \in Precompile : Unread(s) => <<c, s>> \in refs
     ELSE refs = {}
  /\ \A c \in Core : deferring[c] \in {"uploaded", "marked"}
                       /\ (Split => \E s \in Precompile : <<c, s>> \in refs) => Events(c) \in artifacts
  /\ \A c \in Core : deferring[c] # "none" =>
       /\ c \in requested \ Elements(queue)
       /\ ~(serving = c /\ at \in {"download", "trace"})

IInv == TypeOK /\ Lists /\ TaskOnce /\ AnnouncedOnce /\ Halves /\ InputsKept /\ EventsKept
-----------------------------------------------------------------------------
(* A list with one more at its end.                                        *)
LEMMA Appended ==
  ASSUME NEW S, NEW seq \in Seq(S), NEW x \in S
  PROVE  /\ Append(seq, x) \in Seq(S) /\ Append(seq, x) # << >>
         /\ Elements(Append(seq, x)) = Elements(seq) \cup {x}
         /\ x \notin Elements(seq) /\ Distinct(seq) => Distinct(Append(seq, x))
<1> DEFINE more == Append(seq, x)
           n    == Len(seq)
<1>1. more \in Seq(S) /\ Len(more) = n + 1 /\ n \in Nat
      /\ DOMAIN seq = 1 .. n /\ DOMAIN more = 1 .. n + 1
  BY AppendProperties, LenProperties
<1>2. more[n + 1] = x /\ \A i \in 1 .. n : more[i] = seq[i]
  BY AppendProperties
<1> HIDE DEF more
<1>3. Elements(more) = Elements(seq) \cup {x}
  BY <1>1, <1>2 DEF Elements
<1>4. x \notin Elements(seq) /\ Distinct(seq) => Distinct(more)
  BY <1>1, <1>2 DEF Elements, Distinct
<1>5. more # << >>
  BY <1>1
<1> QED
  BY <1>1, <1>3, <1>4, <1>5 DEF more

(* A list without its first.                                               *)
LEMMA FirstTaken ==
  ASSUME NEW S, NEW seq \in Seq(S), seq # << >>
  PROVE  /\ Tail(seq) \in Seq(S) /\ Head(seq) \in S
         /\ Elements(seq) = Elements(Tail(seq)) \cup {Head(seq)}
         /\ Distinct(seq) => Distinct(Tail(seq)) /\ Head(seq) \notin Elements(Tail(seq))
<1> DEFINE rest == Tail(seq)
           n    == Len(seq)
<1>1. rest \in Seq(S) /\ Len(rest) = n - 1 /\ n \in Nat \ {0} /\ Head(seq) \in S
      /\ DOMAIN seq = 1 .. n /\ DOMAIN rest = 1 .. n - 1
  BY HeadTailProperties, LenProperties, EmptySeq
<1>2. Head(seq) = seq[1] /\ \A i \in 1 .. n - 1 : rest[i] = seq[i + 1]
  BY HeadTailProperties, <1>1
<1> HIDE DEF rest, n
<1>3. Elements(seq) = Elements(rest) \cup {Head(seq)}
  <2>1. ASSUME NEW i \in 1 .. n PROVE seq[i] = Head(seq) \/ seq[i] \in Elements(rest)
    <3>1. CASE i = 1
      BY <1>2, <3>1
    <3>2. CASE i # 1
      <4>1. i - 1 \in 1 .. n - 1 /\ rest[i - 1] = seq[i]
        BY <1>1, <1>2, <3>2
      <4> QED
        BY <1>1, <4>1 DEF Elements
    <3> QED
      BY <3>1, <3>2
  <2>2. \A i \in 1 .. n - 1 : rest[i] \in Elements(seq)
    BY <1>1, <1>2 DEF Elements
  <2>3. Head(seq) \in Elements(seq)
    BY <1>1, <1>2 DEF Elements
  <2> QED
    BY <1>1, <2>1, <2>2, <2>3 DEF Elements
<1>4. ASSUME Distinct(seq) PROVE Distinct(rest) /\ Head(seq) \notin Elements(rest)
  <2>1. \A i, j \in 1 .. n : seq[i] = seq[j] => i = j
    BY <1>1, <1>4 DEF Distinct
  <2>2. \A i \in 1 .. n - 1 : i + 1 \in 1 .. n /\ i + 1 # 1 /\ rest[i] = seq[i + 1]
    BY <1>1, <1>2
  <2>3. \A i \in 1 .. n - 1 : rest[i] # Head(seq)
    BY <1>1, <1>2, <2>1, <2>2
  <2>4. \A i, j \in 1 .. n - 1 : rest[i] = rest[j] => i + 1 = j + 1
    BY <2>1, <2>2
  <2> QED
    BY <1>1, <2>3, <2>4 DEF Elements, Distinct
<1> QED
  BY <1>1, <1>3, <1>4 DEF rest
-----------------------------------------------------------------------------
(* A finite set of numbers has one increasing list.  The place of a number *)
(* in it is the count of those that are not greater.                       *)
NotAbove(S, x) == {y \in S : y <= x}

LEMMA PlacesIncrease ==
  ASSUME NEW S \in SUBSET Nat, IsFiniteSet(S)
  PROVE  /\ \A x \in S : Cardinality(NotAbove(S, x)) \in 1 .. Cardinality(S)
         /\ \A x, y \in S : x < y => Cardinality(NotAbove(S, x)) < Cardinality(NotAbove(S, y))
<1>1. Cardinality(S) \in Nat /\ \A x \in S : x \in Nat
  BY FS_CardinalityType
<1>2. ASSUME NEW x \in S
      PROVE  /\ IsFiniteSet(NotAbove(S, x)) /\ Cardinality(NotAbove(S, x)) \in 1 .. Cardinality(S)
  <2>1. NotAbove(S, x) \in SUBSET S /\ x \in NotAbove(S, x)
    BY DEF NotAbove
  <2>2. IsFiniteSet(NotAbove(S, x)) /\ Cardinality(NotAbove(S, x)) <= Cardinality(S)
    BY <2>1, FS_Subset
  <2>3. Cardinality(NotAbove(S, x)) \in Nat /\ Cardinality(NotAbove(S, x)) # 0
    BY <2>1, <2>2, FS_CardinalityType, FS_EmptySet
  <2> QED
    BY <1>1, <2>2, <2>3
<1>3. ASSUME NEW x \in S, NEW y \in S, x < y
      PROVE  Cardinality(NotAbove(S, x)) < Cardinality(NotAbove(S, y))
  <2>1. NotAbove(S, x) \in SUBSET NotAbove(S, y)
    <3> SUFFICES ASSUME NEW z \in S, z <= x PROVE z <= y
      BY DEF NotAbove
    <3> QED
      BY <1>1, <1>3
  <2>2. y \in NotAbove(S, y) /\ y \notin NotAbove(S, x)
    BY <1>1, <1>3 DEF NotAbove
  <2>3. /\ Cardinality(NotAbove(S, x)) <= Cardinality(NotAbove(S, y))
        /\ Cardinality(NotAbove(S, x)) # Cardinality(NotAbove(S, y))
    BY <1>2, <2>1, <2>2, FS_Subset
  <2> QED
    BY <1>1, <1>2, <2>3
<1> QED
  BY <1>2, <1>3

LEMMA IncreasingListExists ==
  ASSUME NEW S \in SUBSET Nat, IsFiniteSet(S)
  PROVE  \E seq \in [1 .. Cardinality(S) -> S] : Increasing(seq)
<1> DEFINE n == Cardinality(S)
           place == [x \in S |-> Cardinality(NotAbove(S, x))]
           seq == [i \in 1 .. n |-> CHOOSE x \in S : place[x] = i]
<1>1. n \in Nat /\ IsFiniteSet(1 .. n) /\ Cardinality(1 .. n) = n
  <2>1. n \in Nat
    BY FS_CardinalityType
  <2> QED
    BY <2>1, FS_Interval
<1>2. place \in [S -> 1 .. n] /\ \A x, y \in S : x < y => place[x] < place[y]
  BY PlacesIncrease
<1> HIDE DEF n, place
<1>3. \A x, y \in S : place[x] = place[y] => x = y
  BY <1>1, <1>2
<1>4. place \in Injection(S, 1 .. n)
  BY <1>2, <1>3 DEF Injection, IsInjective
<1>5. place \in Surjection(S, 1 .. n)
  BY <1>1, <1>4, FS_Injection DEF n
<1>6. \A i \in 1 .. n : \E x \in S : place[x] = i
  BY <1>5 DEF Surjection
<1>7. \A i \in 1 .. n : seq[i] \in S /\ place[seq[i]] = i
  BY <1>6
<1>8. seq \in [1 .. n -> S]
  BY <1>7
<1> HIDE DEF seq
<1>9. ASSUME NEW i \in 1 .. n, NEW j \in 1 .. n, i < j
      PROVE  seq[i] < seq[j]
  <2>1. seq[i] \in S /\ seq[j] \in S /\ seq[i] \in Nat /\ seq[j] \in Nat
    BY <1>7
  <2>2. ~(seq[j] < seq[i]) /\ seq[i] # seq[j]
    BY <1>1, <1>2, <1>7, <1>9, <2>1
  <2> QED
    BY <2>1, <2>2
<1> QED
  BY <1>8, <1>9 DEF Increasing, n

LEMMA IncreasingListUnique ==
  ASSUME NEW S \in SUBSET Nat, IsFiniteSet(S),
         NEW a \in [1 .. Cardinality(S) -> S], NEW b \in [1 .. Cardinality(S) -> S],
         Increasing(a), Increasing(b)
  PROVE  a = b
<1> DEFINE n == Cardinality(S)
<1>1. n \in Nat /\ IsFiniteSet(1 .. n) /\ Cardinality(1 .. n) = n
  <2>1. n \in Nat
    BY FS_CardinalityType
  <2> QED
    BY <2>1, FS_Interval
<1> HIDE DEF n
<1>2. ASSUME NEW c \in [1 .. n -> S], Increasing(c), NEW i \in 1 .. n
      PROVE  Cardinality(NotAbove(S, c[i])) = i
  <2>1. \A j, k \in 1 .. n : j < k => c[j] < c[k]
    BY <1>2 DEF Increasing
  <2>2. \A j \in 1 .. n : c[j] \in Nat
    BY <1>2
  <2>3. \A j, k \in 1 .. n : c[j] = c[k] => j = k
    BY <1>1, <2>1, <2>2
  <2>4. c \in Injection(1 .. n, S)
    BY <2>3 DEF Injection, IsInjective
  <2>5. c \in Surjection(1 .. n, S)
    BY <1>1, <2>4, FS_Injection DEF n
  <2>6. \A x \in S : \E j \in 1 .. n : c[j] = x
    BY <2>5 DEF Surjection
  <2> DEFINE low == [j \in 1 .. i |-> c[j]]
             T   == NotAbove(S, c[i])
  <2>7. \A j \in 1 .. i : j \in 1 .. n /\ low[j] = c[j] /\ c[j] \in T
    BY <1>1, <2>1, <2>2 DEF NotAbove
  <2>8. \A x \in T : \E j \in 1 .. i : low[j] = x
    <3> SUFFICES ASSUME NEW x \in T PROVE \E j \in 1 .. i : c[j] = x
      BY <2>7
    <3>1. PICK j \in 1 .. n : c[j] = x
      BY <2>6 DEF NotAbove
    <3>2. ~(i < j)
      BY <2>1, <2>2, <3>1 DEF NotAbove
    <3> QED
      BY <1>1, <3>1, <3>2
  <2>9. low \in [1 .. i -> T]
    BY <2>7
  <2> HIDE DEF low, T
  <2>10. low \in Injection(1 .. i, T) /\ low \in Surjection(1 .. i, T)
    BY <2>3, <2>7, <2>8, <2>9 DEF Injection, IsInjective, Surjection
  <2>11. ExistsBijection(1 .. i, T)
    BY <2>10 DEF ExistsBijection, Bijection
  <2> QED
    BY <2>11, <1>1, FS_CountingElements DEF T
<1>3. a \in [1 .. n -> S] /\ b \in [1 .. n -> S]
  BY DEF n
<1>4. ASSUME NEW i \in 1 .. n PROVE a[i] = b[i]
  <2>1. Cardinality(NotAbove(S, a[i])) = i /\ Cardinality(NotAbove(S, b[i])) = i
    BY <1>2 DEF n
  <2>2. a[i] \in S /\ b[i] \in S /\ a[i] \in Nat /\ b[i] \in Nat /\ i \in Nat
    <3>1. \A x \in S : x \in Nat
      OBVIOUS
    <3>2. a[i] \in S /\ b[i] \in S
      BY ONLY <1>3, i \in 1 .. n
    <3>3. i \in Nat
      BY <1>1
    <3> QED
      BY ONLY <3>1, <3>2, <3>3
  <2>3. \A x, y \in S : x < y => Cardinality(NotAbove(S, x)) < Cardinality(NotAbove(S, y))
    BY PlacesIncrease
  <2>4. ~(i < i)
    BY <2>2
  <2>5. ~(a[i] < b[i]) /\ ~(b[i] < a[i])
    BY ONLY <2>1, <2>2, <2>3, <2>4
  <2> QED
    BY ONLY <2>2, <2>5
<1>5. \A i \in 1 .. n : a[i] = b[i]
  BY <1>4
<1>6. a = [i \in 1 .. n |-> a[i]] /\ b = [i \in 1 .. n |-> b[i]]
  BY ONLY <1>3
<1> QED
  BY ONLY <1>5, <1>6

(* What sort_by_key returns, and that it is the order the caller is        *)
(* promised.                                                               *)
LEMMA Sorted ==
  ASSUME NEW S \in SUBSET Nat, NEW seq \in Seq(S), Distinct(seq)
  PROVE  /\ SortByRange(seq) \in Seq(S) /\ Elements(SortByRange(seq)) = Elements(seq)
         /\ Distinct(SortByRange(seq)) /\ Increasing(SortByRange(seq))
<1> DEFINE n == Len(seq)
           D == 1 .. n
           E == Elements(seq)
           Arrangements == {[i \in D |-> seq[p[i]]] : p \in Bijection(D, D)}
           Ordered(list) == \A i, j \in D : i < j => list[i] <= list[j]
<1>1. n \in Nat /\ DOMAIN seq = D /\ \A i \in D : seq[i] \in S
  BY LenProperties, ElementOfSeq
<1>2. E \in SUBSET Nat /\ E \in SUBSET S /\ \A i \in D : seq[i] \in E
  BY <1>1 DEF Elements
<1>3. seq \in Bijection(D, E)
  <2>1. seq \in [D -> E]
    BY <1>1, <1>2, IsASeq, LenProperties
  <2>2. \A x \in E : \E i \in D : seq[i] = x
    BY <1>1 DEF Elements
  <2>3. \A i, j \in D : seq[i] = seq[j] => i = j
    BY <1>1 DEF Distinct
  <2> HIDE DEF D, E
  <2> QED
    BY <2>1, <2>2, <2>3 DEF Bijection, Injection, IsInjective, Surjection
<1>4. IsFiniteSet(E) /\ Cardinality(E) = n
  <2>1. IsFiniteSet(D)
    BY <1>1, FS_Interval
  <2>2. ExistsBijection(D, E)
    BY <1>3 DEF ExistsBijection
  <2> QED
    BY <1>1, <2>1, <2>2, FS_Bijection, FS_CountingElements
<1> HIDE DEF n, E
<1>5. PICK list \in [D -> E] : Increasing(list)
  BY <1>2, <1>4, IncreasingListExists
<1>6. \A i, j \in D : i < j => list[i] < list[j]
  BY <1>5 DEF Increasing
<1>7. \E p \in Bijection(D, D) : list = [i \in D |-> seq[p[i]]]
  <2> DEFINE p == [i \in D |-> CHOOSE k \in D : seq[k] = list[i]]
  <2>1. \A i \in D : p[i] \in D /\ seq[p[i]] = list[i]
    <3>1. \A i \in D : \E k \in D : seq[k] = list[i]
      BY <1>3 DEF Bijection, Surjection
    <3> QED
      BY <3>1
  <2>2. p \in [D -> D]
    BY <2>1
  <2> HIDE DEF p
  <2>3. \A i, j \in D : list[i] = list[j] => i = j
    <3>1. \A i \in D : i \in Nat
      BY <1>1
    <3>2. \A i \in D : list[i] \in E
      BY <1>5
    <3> HIDE DEF D
    <3>3. \A i \in D : list[i] \in Nat
      BY ONLY <1>2, <3>2
    <3> QED
      BY ONLY <1>6, <3>1, <3>3
  <2>4. p \in Injection(D, D)
    BY <2>1, <2>2, <2>3 DEF Injection, IsInjective
  <2>5. p \in Surjection(D, D)
    <3>1. IsFiniteSet(D) /\ Cardinality(D) = Cardinality(D)
      BY <1>1, FS_Interval
    <3> HIDE DEF D
    <3> QED
      BY <2>4, <3>1, FS_Injection
  <2>6. list = [i \in D |-> seq[p[i]]]
    BY <2>1
  <2> QED
    BY <2>4, <2>5, <2>6 DEF Bijection
<1>8. list \in Arrangements /\ Ordered(list)
  <2>1. \A i \in D : list[i] \in Nat
    BY <1>2
  <2> QED
    BY <1>6, <1>7, <2>1
<1> DEFINE h == SortByRange(seq)
<1>9. h = CHOOSE sorted \in Arrangements : Ordered(sorted)
  BY <1>1 DEF SortByRange
<1>10. h \in Arrangements /\ Ordered(h)
  BY <1>8, <1>9
<1> HIDE DEF h, Ordered
<1>11. PICK p \in Bijection(D, D) : h = [i \in D |-> seq[p[i]]]
  BY <1>10
<1>12. /\ \A i \in D : p[i] \in D /\ h[i] = seq[p[i]] /\ h[i] \in E
       /\ \A x \in E : \E i \in D : h[i] = x
       /\ \A i, j \in D : h[i] = h[j] => i = j
  <2>1. \A i \in D : p[i] \in D
    BY DEF Bijection, Injection
  <2>2. \A i \in D : h[i] = seq[p[i]] /\ h[i] \in E
    BY <1>2, <1>11, <2>1
  <2>3. \A k \in D : \E i \in D : p[i] = k
    BY DEF Bijection, Surjection
  <2>4. \A x \in E : \E k \in D : seq[k] = x
    BY <1>3 DEF Bijection, Surjection
  <2>5. \A i, j \in D : p[i] = p[j] => i = j
    BY DEF Bijection, Injection, IsInjective
  <2>6. \A i, j \in D : seq[i] = seq[j] => i = j
    BY <1>3 DEF Bijection, Injection, IsInjective
  <2> HIDE DEF D
  <2>7. \A x \in E : \E i \in D : h[i] = x
    BY ONLY <2>1, <2>2, <2>3, <2>4
  <2>8. \A i, j \in D : h[i] = h[j] => i = j
    BY ONLY <2>1, <2>2, <2>5, <2>6
  <2> QED
    BY ONLY <2>1, <2>2, <2>7, <2>8
<1>13. DOMAIN h = D /\ h \in [D -> E] /\ h \in [D -> S]
  BY <1>2, <1>11, <1>12
<1>14. h \in Seq(S)
  BY <1>1, <1>13, IsASeq DEF D
<1>15. Elements(h) = E
  <2> HIDE DEF D, Arrangements
  <2> QED
    BY ONLY <1>12, <1>13 DEF Elements
<1>16. Distinct(h)
  BY <1>12, <1>13 DEF Distinct
<1>17. ASSUME NEW i \in D, NEW j \in D, i < j PROVE h[i] < h[j]
  <2>1. h[i] \in E /\ h[j] \in E /\ i # j
    BY <1>12, <1>17
  <2>2. h[i] \in Nat /\ h[j] \in Nat /\ h[i] # h[j]
    BY <1>2, <1>12, <2>1
  <2>3. h[i] <= h[j]
    BY <1>10, <1>17 DEF Ordered
  <2> QED
    BY <2>2, <2>3
<1> QED
  BY <1>13, <1>14, <1>15, <1>16, <1>17 DEF Increasing, h, E

(* The increasing list of all shards is the answer the caller is promised. *)
LEMMA AnswerInOrder ==
  ASSUME NEW seq \in Seq(Shards), Distinct(seq), Increasing(seq), Elements(seq) = Shards
  PROVE  seq = Promise!InOrder
<1> DEFINE n == Len(seq)
<1>1. n \in Nat /\ DOMAIN seq = 1 .. n /\ seq \in [1 .. n -> Shards]
  BY LenProperties, IsASeq
<1>2. seq \in Bijection(1 .. n, Shards)
  <2>1. \A x \in Shards : \E i \in 1 .. n : seq[i] = x
    BY <1>1 DEF Elements
  <2>2. \A i, j \in 1 .. n : seq[i] = seq[j] => i = j
    BY <1>1 DEF Distinct
  <2> QED
    BY <1>1, <2>1, <2>2 DEF Bijection, Injection, IsInjective, Surjection
<1>3. Shards \in SUBSET Nat /\ IsFiniteSet(Shards) /\ Cardinality(Shards) = n
  <2>1. IsFiniteSet(1 .. n) /\ ExistsBijection(1 .. n, Shards)
    BY <1>1, <1>2, FS_Interval DEF ExistsBijection
  <2> QED
    BY <1>1, <2>1, FS_Bijection, FS_CountingElements, ShardAssumption
<1> HIDE DEF n
<1> DEFINE order == Promise!InOrder
<1>4. order = CHOOSE list \in [1 .. Cardinality(Shards) -> Shards] : Increasing(list)
  BY DEF Promise!InOrder, Promise!Cardinality, Cardinality, Increasing
<1>5. seq \in [1 .. Cardinality(Shards) -> Shards]
  BY <1>1, <1>3
<1> HIDE DEF order
<1>6. order \in [1 .. Cardinality(Shards) -> Shards] /\ Increasing(order)
  BY <1>4, <1>5
<1>7. seq = order
  BY <1>3, <1>5, <1>6, IncreasingListUnique
<1> QED
  BY <1>7 DEF order
-----------------------------------------------------------------------------
(* A step keeps every conjunct of IInv.                                    *)
LEMMA TypesStep ==
  ASSUME IInv, [Next]_vars
  PROVE  TypeOK' /\ Lists'
<1> USE DEF IInv, TypeOK, Lists
<1>1. CASE Prepare
  BY <1>1 DEF Prepare, clientVars, controllerVars, serviceVars
<1>2. CASE Submit
  BY <1>2 DEF Submit, clientVars, controllerVars, serviceVars
<1>3. CASE WaitExecutor
  BY <1>3 DEF WaitExecutor, clientVars, controllerVars, serviceVars
<1>4. CASE Receive
  BY <1>4, FirstTaken DEF Receive, clientVars, controllerVars, serviceVars
<1>5. CASE Collect
  <2>1. collector \in Shards
    BY <1>5 DEF Collect
  <2>2. Append(proofs, collector) \in Seq(Shards)
        /\ Elements(Append(proofs, collector)) \subseteq Shards
    BY <2>1, Appended
  <2> QED
    BY <1>5, <2>2 DEF Collect, clientVars, controllerVars, serviceVars
<1>6. CASE Sort
  <2>1. Shards \in SUBSET Nat /\ Distinct(proofs)
    BY ShardAssumption DEF AnnouncedOnce
  <2>2. SortByRange(proofs) \in Seq(Shards) /\ Elements(SortByRange(proofs)) \subseteq Shards
    BY <2>1, Sorted
  <2> QED
    BY <1>6, <2>2 DEF Sort, clientVars, controllerVars, serviceVars
<1>7. CASE Return
  BY <1>7 DEF Return, clientVars, controllerVars, serviceVars
<1>8. CASE Waiting /\ Execute
  BY <1>8 DEF Execute, clientVars, controllerVars, serviceVars
<1>9. CASE Waiting /\ FinishExecution
  BY <1>9 DEF FinishExecution, clientVars, controllerVars, serviceVars
<1>10. CASE Waiting /\ FailExecution
  BY <1>10 DEF FailExecution, clientVars, controllerVars, serviceVars
<1>11. CASE Waiting /\ Serve
  BY <1>11, FirstTaken, ShardAssumption DEF Serve, clientVars, controllerVars, serviceVars
<1>12. CASE Waiting /\ Download
  BY <1>12 DEF Download, Failing, ENDED, clientVars, controllerVars, serviceVars
<1>13. CASE Waiting /\ Trace
  BY <1>13 DEF Trace, Failing, ENDED, clientVars, controllerVars, serviceVars
<1>14. CASE Waiting /\ Prove
  BY <1>14 DEF Prove, Failing, ENDED, clientVars, controllerVars, serviceVars
<1>15. CASE Waiting /\ Upload
  BY <1>15 DEF Upload, Failing, ENDED, clientVars, controllerVars, serviceVars
<1>16. CASE Waiting /\ CleanUp
  BY <1>16 DEF CleanUp, clientVars, controllerVars, serviceVars
<1>17. CASE Waiting /\ JoinUpload
  BY <1>17 DEF JoinUpload, Failing, ENDED, clientVars, controllerVars, serviceVars
<1>18. CASE Waiting /\ Report
  BY <1>18 DEF Report, clientVars, controllerVars, serviceVars
<1>19. CASE Waiting /\ \E s \in Shards : RequestShard(s)
  BY <1>19, Appended DEF RequestShard, clientVars, controllerVars, serviceVars
<1>20. CASE Waiting /\ \E s \in Shards : Announce(s)
  BY <1>20, Appended DEF Announce, clientVars, controllerVars, serviceVars
<1>21. CASE Waiting /\ \E c \in Core : UploadEvents(c)
  BY <1>21 DEF UploadEvents, clientVars, controllerVars, serviceVars
<1>22. CASE Waiting /\ \E c \in Core : CompleteMarker(c)
  BY <1>22 DEF CompleteMarker, clientVars, controllerVars, serviceVars
<1>23. CASE UNCHANGED vars
  BY <1>23 DEF vars, clientVars, controllerVars, serviceVars
<1> QED
  BY <1>1, <1>2, <1>3, <1>4, <1>5, <1>6, <1>7, <1>8, <1>9, <1>10, <1>11, <1>12, <1>13,
     <1>14, <1>15, <1>16, <1>17, <1>18, <1>19, <1>20, <1>21, <1>22, <1>23
  DEF Next, Client, Controller, Service, Deferred, Returned

(* One task to a shard.                                                    *)
LEMMA TaskOnceStep ==
  ASSUME IInv, [Next]_vars
  PROVE  TaskOnce'
<1> USE DEF IInv, TypeOK, Lists, TaskOnce
<1>1. CASE Prepare
  BY <1>1 DEF Prepare, clientVars, controllerVars, serviceVars
<1>2. CASE Submit
  BY <1>2 DEF Submit, clientVars, controllerVars, serviceVars
<1>3. CASE WaitExecutor
  BY <1>3 DEF WaitExecutor, clientVars, controllerVars, serviceVars
<1>4. CASE Receive
  BY <1>4 DEF Receive, clientVars, controllerVars, serviceVars
<1>5. CASE Collect
  BY <1>5 DEF Collect, clientVars, controllerVars, serviceVars
<1>6. CASE Sort
  BY <1>6 DEF Sort, clientVars, controllerVars, serviceVars
<1>7. CASE Return
  BY <1>7 DEF Return, clientVars, controllerVars, serviceVars
<1>8. CASE Waiting /\ Execute
  BY <1>8 DEF Execute, clientVars, controllerVars, serviceVars
<1>9. CASE Waiting /\ FinishExecution
  BY <1>9 DEF FinishExecution, clientVars, controllerVars, serviceVars
<1>10. CASE Waiting /\ FailExecution
  BY <1>10 DEF FailExecution, clientVars, controllerVars, serviceVars
<1>11. CASE Waiting /\ Serve
  BY <1>11, FirstTaken, ShardAssumption DEF Serve, clientVars, controllerVars, serviceVars
<1>12. CASE Waiting /\ Download
  BY <1>12 DEF Download, Failing, clientVars, controllerVars, serviceVars
<1>13. CASE Waiting /\ Trace
  BY <1>13 DEF Trace, Failing, clientVars, controllerVars, serviceVars
<1>14. CASE Waiting /\ Prove
  BY <1>14 DEF Prove, Failing, clientVars, controllerVars, serviceVars
<1>15. CASE Waiting /\ Upload
  BY <1>15 DEF Upload, Failing, clientVars, controllerVars, serviceVars
<1>16. CASE Waiting /\ CleanUp
  BY <1>16 DEF CleanUp, clientVars, controllerVars, serviceVars
<1>17. CASE Waiting /\ JoinUpload
  BY <1>17 DEF JoinUpload, Failing, clientVars, controllerVars, serviceVars
<1>18. CASE Waiting /\ Report
  <2>1. task[serving] # "none" /\ outcome \in ENDED /\ serving \in Shards
    BY <1>18 DEF Report
  <2>2. \A s \in Shards : task'[s] = IF s = serving THEN outcome ELSE task[s]
    BY <1>18 DEF Report
  <2>3. {s \in Shards : task'[s] # "none"} = {s \in Shards : task[s] # "none"}
    BY <2>1, <2>2 DEF ENDED
  <2>4. serving' = None /\ queue' = queue /\ requested' = requested
    BY <1>18 DEF Report, controllerVars
  <2>5. \A s \in Elements(queue) : s \in Shards /\ s # None /\ task'[s] = task[s]
    BY <2>2, ShardAssumption
  <2> QED
    BY <2>3, <2>4, <2>5
<1>19. CASE Waiting /\ \E s \in Shards : RequestShard(s)
  <2> PICK s \in Shards : RequestShard(s)
    BY <1>19
  <2>1. task[s] = "none" /\ s \notin Elements(queue) /\ s # serving /\ s # None
    BY ShardAssumption DEF RequestShard
  <2>2. Elements(queue') = Elements(queue) \cup {s} /\ Distinct(queue')
    BY <2>1, Appended DEF RequestShard
  <2> QED
    BY <2>1, <2>2 DEF RequestShard, clientVars, controllerVars, serviceVars
<1>20. CASE Waiting /\ \E s \in Shards : Announce(s)
  BY <1>20 DEF Announce, clientVars, controllerVars, serviceVars
<1>21. CASE Waiting /\ \E c \in Core : UploadEvents(c)
  BY <1>21 DEF UploadEvents, clientVars, controllerVars, serviceVars
<1>22. CASE Waiting /\ \E c \in Core : CompleteMarker(c)
  BY <1>22 DEF CompleteMarker, clientVars, controllerVars, serviceVars
<1>23. CASE UNCHANGED vars
  BY <1>23 DEF vars, clientVars, controllerVars, serviceVars
<1> QED
  BY <1>1, <1>2, <1>3, <1>4, <1>5, <1>6, <1>7, <1>8, <1>9, <1>10, <1>11, <1>12, <1>13,
     <1>14, <1>15, <1>16, <1>17, <1>18, <1>19, <1>20, <1>21, <1>22, <1>23
  DEF Next, Client, Controller, Service, Deferred, Returned

(* A message, the shard that is waited for, or a proof.                    *)
LEMMA AnnouncedOnceStep ==
  ASSUME IInv, [Next]_vars
  PROVE  AnnouncedOnce'
<1> USE DEF IInv, TypeOK, Lists, AnnouncedOnce
<1>1. CASE Prepare
  BY <1>1 DEF Prepare, clientVars, controllerVars, serviceVars
<1>2. CASE Submit
  BY <1>2 DEF Submit, clientVars, controllerVars, serviceVars
<1>3. CASE WaitExecutor
  BY <1>3 DEF WaitExecutor, clientVars, controllerVars, serviceVars
<1>4. CASE Receive
  BY <1>4, FirstTaken, ShardAssumption DEF Receive, clientVars, controllerVars, serviceVars
<1>5. CASE Collect
  <2>1. CASE task[collector] = "Succeeded" /\ Output(collector) \in artifacts
    <3>1. collector \in Shards /\ collector \notin Elements(proofs)
      BY <1>5 DEF Collect
    <3>2. proofs' = Append(proofs, collector)
      BY <1>5, <2>1 DEF Collect
    <3>3. Elements(proofs') = Elements(proofs) \cup {collector} /\ Distinct(proofs')
      BY <3>1, <3>2, Appended
    <3> QED
      BY <1>5, <2>1, <3>1, <3>3, ShardAssumption DEF Collect, clientVars, controllerVars, serviceVars
  <2> QED
    BY <1>5, <2>1 DEF Collect, clientVars, controllerVars, serviceVars
<1>6. CASE Sort
  <2>1. Shards \in SUBSET Nat
    BY ShardAssumption
  <2>2. Elements(proofs') = Elements(proofs) /\ Distinct(proofs')
    BY <1>6, <2>1, Sorted DEF Sort
  <2> QED
    BY <1>6, <2>2 DEF Sort, clientVars, controllerVars, serviceVars
<1>7. CASE Return
  BY <1>7 DEF Return, clientVars, controllerVars, serviceVars
<1>8. CASE Waiting /\ Execute
  BY <1>8 DEF Execute, clientVars, controllerVars, serviceVars
<1>9. CASE Waiting /\ FinishExecution
  BY <1>9 DEF FinishExecution, clientVars, controllerVars, serviceVars
<1>10. CASE Waiting /\ FailExecution
  BY <1>10 DEF FailExecution, clientVars, controllerVars, serviceVars
<1>11. CASE Waiting /\ Serve
  BY <1>11 DEF Serve, clientVars, controllerVars, serviceVars
<1>12. CASE Waiting /\ Download
  BY <1>12 DEF Download, Failing, clientVars, controllerVars, serviceVars
<1>13. CASE Waiting /\ Trace
  BY <1>13 DEF Trace, Failing, clientVars, controllerVars, serviceVars
<1>14. CASE Waiting /\ Prove
  BY <1>14 DEF Prove, Failing, clientVars, controllerVars, serviceVars
<1>15. CASE Waiting /\ Upload
  BY <1>15 DEF Upload, Failing, clientVars, controllerVars, serviceVars
<1>16. CASE Waiting /\ CleanUp
  BY <1>16 DEF CleanUp, clientVars, controllerVars, serviceVars
<1>17. CASE Waiting /\ JoinUpload
  BY <1>17 DEF JoinUpload, Failing, clientVars, controllerVars, serviceVars
<1>18. CASE Waiting /\ Report
  <2>1. \A s \in Elements(proofs) : s # serving
    BY <1>18 DEF Report, TaskOnce
  <2> QED
    BY <1>18, <2>1 DEF Report, clientVars, controllerVars, serviceVars
<1>19. CASE Waiting /\ \E s \in Shards : RequestShard(s)
  <2>1. \A s \in Elements(proofs) : s \in requested
    BY DEF TaskOnce
  <2> QED
    BY <1>19, <2>1 DEF RequestShard, clientVars, controllerVars, serviceVars
<1>20. CASE Waiting /\ \E s \in Shards : Announce(s)
  <2> PICK s \in Shards : Announce(s)
    BY <1>20
  <2>1. s \notin Elements(messages) /\ s \notin Elements(proofs) /\ s # collector
    BY ShardAssumption DEF Announce
  <2>2. Elements(messages') = Elements(messages) \cup {s} /\ Distinct(messages')
    BY <2>1, Appended DEF Announce
  <2> QED
    BY <2>1, <2>2, ShardAssumption DEF Announce, clientVars, controllerVars, serviceVars
<1>21. CASE Waiting /\ \E c \in Core : UploadEvents(c)
  BY <1>21 DEF UploadEvents, clientVars, controllerVars, serviceVars
<1>22. CASE Waiting /\ \E c \in Core : CompleteMarker(c)
  BY <1>22 DEF CompleteMarker, clientVars, controllerVars, serviceVars
<1>23. CASE UNCHANGED vars
  BY <1>23 DEF vars, clientVars, controllerVars, serviceVars
<1> QED
  BY <1>1, <1>2, <1>3, <1>4, <1>5, <1>6, <1>7, <1>8, <1>9, <1>10, <1>11, <1>12, <1>13,
     <1>14, <1>15, <1>16, <1>17, <1>18, <1>19, <1>20, <1>21, <1>22, <1>23
  DEF Next, Client, Controller, Service, Deferred, Returned

(* Both halves before an answer.                                           *)
LEMMA HalvesStep ==
  ASSUME IInv, [Next]_vars
  PROVE  Halves'
<1> USE DEF IInv, TypeOK, Lists, Halves
<1>1. CASE Prepare
  BY <1>1 DEF Prepare, clientVars, controllerVars, serviceVars
<1>2. CASE Submit
  BY <1>2 DEF Submit, clientVars, controllerVars, serviceVars
<1>3. CASE WaitExecutor
  BY <1>3 DEF WaitExecutor, clientVars, controllerVars, serviceVars
<1>4. CASE Receive
  BY <1>4 DEF Receive, clientVars, controllerVars, serviceVars
<1>5. CASE Collect
  BY <1>5 DEF Collect, clientVars, controllerVars, serviceVars
<1>6. CASE Sort
  <2>1. Increasing(proofs')
    BY <1>6, Sorted, ShardAssumption DEF Sort, AnnouncedOnce
  <2> QED
    BY <1>6, <2>1 DEF Sort, clientVars, controllerVars, serviceVars
<1>7. CASE Return
  BY <1>7 DEF Return, clientVars, controllerVars, serviceVars
<1>8. CASE Waiting /\ Execute
  BY <1>8 DEF Execute, clientVars, controllerVars, serviceVars
<1>9. CASE Waiting /\ FinishExecution
  BY <1>9 DEF FinishExecution, clientVars, controllerVars, serviceVars
<1>10. CASE Waiting /\ FailExecution
  BY <1>10 DEF FailExecution, clientVars, controllerVars, serviceVars
<1>11. CASE Waiting /\ Serve
  BY <1>11 DEF Serve, clientVars, controllerVars, serviceVars
<1>12. CASE Waiting /\ Download
  BY <1>12 DEF Download, clientVars, controllerVars, serviceVars
<1>13. CASE Waiting /\ Trace
  BY <1>13 DEF Trace, clientVars, controllerVars, serviceVars
<1>14. CASE Waiting /\ Prove
  BY <1>14 DEF Prove, clientVars, controllerVars, serviceVars
<1>15. CASE Waiting /\ Upload
  BY <1>15 DEF Upload, clientVars, controllerVars, serviceVars
<1>16. CASE Waiting /\ CleanUp
  BY <1>16 DEF CleanUp, clientVars, controllerVars, serviceVars
<1>17. CASE Waiting /\ JoinUpload
  BY <1>17 DEF JoinUpload, clientVars, controllerVars, serviceVars
<1>18. CASE Waiting /\ Report
  BY <1>18 DEF Report, clientVars, controllerVars, serviceVars
<1>19. CASE Waiting /\ \E s \in Shards : RequestShard(s)
  BY <1>19 DEF RequestShard, clientVars, controllerVars, serviceVars
<1>20. CASE Waiting /\ \E s \in Shards : Announce(s)
  BY <1>20 DEF Announce, clientVars, controllerVars, serviceVars
<1>21. CASE Waiting /\ \E c \in Core : UploadEvents(c)
  BY <1>21 DEF UploadEvents, clientVars, controllerVars, serviceVars
<1>22. CASE Waiting /\ \E c \in Core : CompleteMarker(c)
  BY <1>22 DEF CompleteMarker, clientVars, controllerVars, serviceVars
<1>23. CASE UNCHANGED vars
  BY <1>23 DEF vars, clientVars, controllerVars, serviceVars
<1> QED
  BY <1>1, <1>2, <1>3, <1>4, <1>5, <1>6, <1>7, <1>8, <1>9, <1>10, <1>11, <1>12, <1>13,
     <1>14, <1>15, <1>16, <1>17, <1>18, <1>19, <1>20, <1>21, <1>22, <1>23
  DEF Next, Client, Controller, Service, Deferred, Returned

(* What every task reads.                                                  *)
LEMMA InputsKeptStep ==
  ASSUME IInv, [Next]_vars
  PROVE  InputsKept'
<1> USE DEF IInv, TypeOK, Lists, InputsKept
<1>1. CASE Prepare
  <2>1. artifacts \subseteq artifacts' /\ main' # "joined"
    BY <1>1 DEF Prepare
  <2> QED
    BY <1>1, <2>1 DEF Prepare, Unread, controllerVars, serviceVars
<1>2. CASE Submit
  <2>1. {Elf, CommonInput} \subseteq Elements(INPUTS)
    BY DEF Elements, INPUTS
  <2> QED
    BY <1>2, <2>1 DEF Submit, Unread, controllerVars, serviceVars
<1>3. CASE WaitExecutor
  BY <1>3 DEF WaitExecutor, Unread, clientVars, controllerVars, serviceVars
<1>4. CASE Receive
  BY <1>4 DEF Receive, Unread, clientVars, controllerVars, serviceVars
<1>5. CASE Collect
  BY <1>5 DEF Collect, Unread, clientVars, controllerVars, serviceVars
<1>6. CASE Sort
  BY <1>6 DEF Sort, Unread, clientVars, controllerVars, serviceVars
<1>7. CASE Return
  <2>1. Elements(INPUTS) = {INPUTS[1], INPUTS[2], INPUTS[3]}
    BY DEF Elements, INPUTS
  <2>2. \A n \in 0 .. Len(INPUTS) : Elements(SubSeq(INPUTS, 1, n)) \subseteq Elements(INPUTS)
    BY DEF Elements, INPUTS
  <2>3. \A s \in Shards : Record(s) \notin Elements(INPUTS) \cup {ExecutionOutput}
    BY <2>1 DEF INPUTS, Elf, CommonInput, ExecutionOutput, Record
  <2>4. main' # "joined" /\ \A s \in Shards : Record(s) \in artifacts => Record(s) \in artifacts'
    BY <1>7, <2>2, <2>3 DEF Return
  <2> QED
    BY <1>7, <2>4 DEF Return, Unread, controllerVars, serviceVars
<1>8. CASE Waiting /\ Execute
  BY <1>8 DEF Execute, Unread, clientVars, controllerVars, serviceVars
<1>9. CASE Waiting /\ FinishExecution
  BY <1>9 DEF FinishExecution, Unread, clientVars, controllerVars, serviceVars
<1>10. CASE Waiting /\ FailExecution
  BY <1>10 DEF FailExecution, Unread, clientVars, controllerVars, serviceVars
<1>11. CASE Waiting /\ Serve
  BY <1>11, FirstTaken DEF Serve, Unread, clientVars, controllerVars, serviceVars
<1>12. CASE Waiting /\ Download
  BY <1>12 DEF Download, Unread, Failing, clientVars, controllerVars, serviceVars
<1>13. CASE Waiting /\ Trace
  BY <1>13 DEF Trace, Unread, Failing, clientVars, controllerVars, serviceVars
<1>14. CASE Waiting /\ Prove
  BY <1>14 DEF Prove, Unread, Failing, clientVars, controllerVars, serviceVars
<1>15. CASE Waiting /\ Upload
  <2>1. artifacts \subseteq artifacts'
    BY <1>15 DEF Upload
  <2> QED
    BY <1>15, <2>1 DEF Upload, Unread, Failing, clientVars, controllerVars
<1>16. CASE Waiting /\ CleanUp
  <2>0. \A e \in {Elf, CommonInput} : e # Record(serving) /\ \A c \in Core : e # Events(c)
    BY DEF Elf, CommonInput, Record, Events
  <2>1. \A e \in {Elf, CommonInput} : e \in artifacts => e \in artifacts'
    BY <1>16, <2>0 DEF CleanUp
  <2>2. \A s \in Shards \ {serving} : Record(s) \in artifacts => Record(s) \in artifacts'
    BY <1>16 DEF CleanUp, Record, Events
  <2>3. \A s \in requested : Unread(s)' => s # serving /\ Unread(s)
    BY <1>16 DEF CleanUp, TaskOnce, Unread, controllerVars
  <2> QED
    BY <1>16, <2>1, <2>2, <2>3 DEF CleanUp, clientVars, controllerVars
<1>17. CASE Waiting /\ JoinUpload
  BY <1>17 DEF JoinUpload, Unread, Failing, clientVars, controllerVars, serviceVars
<1>18. CASE Waiting /\ Report
  BY <1>18 DEF Report, Unread, clientVars, controllerVars, serviceVars
<1>19. CASE Waiting /\ \E s \in Shards : RequestShard(s)
  <2> PICK s \in Shards : RequestShard(s)
    BY <1>19
  <2>1. Elements(queue') = Elements(queue) \cup {s}
    BY Appended DEF RequestShard
  <2> QED
    BY <2>1 DEF RequestShard, Unread, clientVars
<1>20. CASE Waiting /\ \E s \in Shards : Announce(s)
  BY <1>20 DEF Announce, Unread, clientVars, controllerVars, serviceVars
<1>21. CASE Waiting /\ \E c \in Core : UploadEvents(c)
  BY <1>21 DEF UploadEvents, Unread, clientVars, controllerVars, serviceVars
<1>22. CASE Waiting /\ \E c \in Core : CompleteMarker(c)
  BY <1>22 DEF CompleteMarker, Unread, clientVars, controllerVars, serviceVars
<1>23. CASE UNCHANGED vars
  BY <1>23 DEF vars, Unread, clientVars, controllerVars, serviceVars
<1> QED
  BY <1>1, <1>2, <1>3, <1>4, <1>5, <1>6, <1>7, <1>8, <1>9, <1>10, <1>11, <1>12, <1>13,
     <1>14, <1>15, <1>16, <1>17, <1>18, <1>19, <1>20, <1>21, <1>22, <1>23
  DEF Next, Client, Controller, Service, Deferred, Returned

(* What a shard of deferred events reads.                                  *)
LEMMA EventsKeptStep ==
  ASSUME IInv, [Next]_vars
  PROVE  EventsKept'
<1> USE DEF IInv, TypeOK, Lists, EventsKept
<1>1. CASE Prepare
  <2>1. artifacts \subseteq artifacts'
    BY <1>1 DEF Prepare
  <2> QED
    BY <1>1, <2>1 DEF Prepare, Unread, Split, Marked, controllerVars, serviceVars
<1>2. CASE Submit
  <2>1. artifacts \subseteq artifacts'
    BY <1>2 DEF Submit
  <2> QED
    BY <1>2, <2>1 DEF Submit, Unread, Split, Marked, controllerVars, serviceVars
<1>3. CASE WaitExecutor
  BY <1>3 DEF WaitExecutor, Unread, Split, Marked, clientVars, controllerVars, serviceVars
<1>4. CASE Receive
  BY <1>4 DEF Receive, Unread, Split, Marked, clientVars, controllerVars, serviceVars
<1>5. CASE Collect
  BY <1>5 DEF Collect, Unread, Split, Marked, clientVars, controllerVars, serviceVars
<1>6. CASE Sort
  BY <1>6 DEF Sort, Unread, Split, Marked, clientVars, controllerVars, serviceVars
<1>7. CASE Return
  <2>1. Elements(INPUTS) = {INPUTS[1], INPUTS[2], INPUTS[3]}
    BY DEF Elements, INPUTS
  <2>2. \A n \in 0 .. Len(INPUTS) : Elements(SubSeq(INPUTS, 1, n)) \subseteq Elements(INPUTS)
    BY DEF Elements, INPUTS
  <2>3. \A c \in Core : Events(c) \notin Elements(INPUTS) \cup {ExecutionOutput}
    BY <2>1 DEF INPUTS, Elf, CommonInput, ExecutionOutput, Events
  <2>4. \A c \in Core : Events(c) \in artifacts => Events(c) \in artifacts'
    BY <1>7, <2>2, <2>3 DEF Return
  <2> QED
    BY <1>7, <2>4 DEF Return, Unread, Split, Marked, controllerVars, serviceVars
<1>8. CASE Waiting /\ Execute
  BY <1>8 DEF Execute, Unread, Split, Marked, clientVars, controllerVars, serviceVars
<1>9. CASE Waiting /\ FinishExecution
  <2>1. artifacts \subseteq artifacts'
    BY <1>9 DEF FinishExecution
  <2> QED
    BY <1>9, <2>1 DEF FinishExecution, Unread, Split, Marked, clientVars, serviceVars
<1>10. CASE Waiting /\ FailExecution
  BY <1>10 DEF FailExecution, Unread, Split, Marked, clientVars, controllerVars, serviceVars
<1>11. CASE Waiting /\ Serve
  <2>1. /\ Elements(queue') \cup {serving'} = Elements(queue)
        /\ serving' \notin Elements(queue')
    BY <1>11, FirstTaken DEF Serve, TaskOnce
  <2>2. \A s \in Shards : Unread(s)' <=> Unread(s)
    BY <1>11, <2>1 DEF Serve, Unread, controllerVars
  <2>3. UNCHANGED <<requested, refs, artifacts, deferring>>
    BY <1>11 DEF Serve, controllerVars
  <2> QED
    BY <1>11, <2>1, <2>2, <2>3 DEF Split, Marked, Shards
<1>12. CASE Waiting /\ Download
  BY <1>12 DEF Download, Failing, Unread, Split, Marked, clientVars, controllerVars, serviceVars
<1>13. CASE Waiting /\ Trace
  <2>1. UNCHANGED <<requested, refs, artifacts, queue, serving>> /\ \A s \in Shards : Unread(s)' => Unread(s)
    BY <1>13 DEF Trace, Failing, Unread, controllerVars
  <2>2. CASE UNCHANGED deferring
    BY <1>13, <2>1, <2>2 DEF Trace, Failing, Split, Marked, Shards
  <2>3. CASE deferring' # deferring
    <3>1. /\ at = "trace" /\ at' = "prove" /\ serving \in Core
          /\ deferring' = [deferring EXCEPT ![serving] = "uploading"] /\ deferring[serving] = "none"
      BY <1>13, <2>3 DEF Trace, Failing
    <3>2. ~Split
      BY <3>1 DEF Marked
    <3>3. serving \in requested \ Elements(queue)
      BY <3>1 DEF TaskOnce, Shards
    <3> QED
      BY <2>1, <3>1, <3>2, <3>3 DEF Split
  <2> QED
    BY <2>2, <2>3
<1>14. CASE Waiting /\ Prove
  BY <1>14 DEF Prove, Failing, Unread, Split, Marked, clientVars, controllerVars, serviceVars
<1>15. CASE Waiting /\ Upload
  <2>1. artifacts \subseteq artifacts' /\ \A s \in Shards : Unread(s)' => Unread(s)
    BY <1>15 DEF Upload, Failing, Unread, controllerVars
  <2> QED
    BY <1>15, <2>1 DEF Upload, Failing, Split, Marked, Shards, controllerVars
<1>16. CASE Waiting /\ CleanUp
  <2>1. refs' = refs \ (Core \X {serving}) /\ serving \in Shards
        /\ UNCHANGED <<requested, queue, serving, deferring>>
    BY <1>16 DEF CleanUp, controllerVars
  <2>2. \A s \in Shards : Unread(s)' => Unread(s) /\ s # serving
    BY <1>16, <2>1 DEF CleanUp, TaskOnce, Unread
  <2>3. ASSUME NEW c \in Core, Events(c) \in artifacts, Events(c) \notin artifacts'
        PROVE  <<c, serving>> \in refs /\ ~\E s \in Shards : <<c, s>> \in refs'
    <3>1. Events(c) # Record(serving) /\ \A b \in Core : Events(c) = Events(b) => c = b
      BY DEF Events, Record
    <3> QED
      BY <1>16, <2>3, <3>1 DEF CleanUp
  <2>4. Split' <=> Split
    BY <2>1 DEF Split
  <2>5. IF Split' THEN Marked' /\ \A c \in Core, s \in Precompile : Unread(s)' => <<c, s>> \in refs'
        ELSE refs' = {}
    <3>1. CASE Split
      BY <2>1, <2>2, <2>4, <3>1 DEF Marked, Shards
    <3>2. CASE ~Split
      BY <2>1, <2>4, <3>2
    <3> QED
      BY <3>1, <3>2
  <2>6. ASSUME NEW c \in Core, deferring'[c] \in {"uploaded", "marked"},
               Split' => \E s \in Precompile : <<c, s>> \in refs'
        PROVE  Events(c) \in artifacts'
    <3>1. Split => \E s \in Precompile : <<c, s>> \in refs
      BY <2>1, <2>4, <2>6
    <3>2. Events(c) \in artifacts
      BY <2>1, <2>6, <3>1
    <3>3. CASE Split
      BY <2>3, <2>4, <2>6, <3>2, <3>3 DEF Shards
    <3>4. CASE ~Split
      BY <2>3, <3>2, <3>4
    <3> QED
      BY <3>3, <3>4
  <2>7. at = "cleanup" /\ at' = "join"
    BY <1>16 DEF CleanUp
  <2> QED
    BY <2>1, <2>5, <2>6, <2>7
<1>17. CASE Waiting /\ JoinUpload
  BY <1>17 DEF JoinUpload, Failing, Unread, Split, Marked, clientVars, controllerVars, serviceVars
<1>18. CASE Waiting /\ Report
  <2>1. UNCHANGED <<requested, refs, artifacts, queue, deferring>>
        /\ serving' = None /\ at' = "idle" /\ \A s \in Shards : Unread(s)' => Unread(s)
    BY <1>18, ShardAssumption DEF Report, Unread, controllerVars
  <2> QED
    BY <2>1, ShardAssumption DEF Split, Marked, Shards
<1>19. CASE Waiting /\ \E s \in Shards : RequestShard(s)
  <2> PICK s \in Shards : RequestShard(s)
    BY <1>19
  <2>1. /\ s \notin requested /\ requested' = requested \cup {s} /\ UNCHANGED <<serving, at, deferring>>
        /\ Elements(queue') = Elements(queue) \cup {s} /\ artifacts \subseteq artifacts'
    BY Appended DEF RequestShard
  <2>2. \A t \in Shards : Unread(t)' => Unread(t)
    BY <2>1 DEF Unread
  <2>3. CASE Split
    <3>1. Split' /\ refs' = refs
      BY <2>1, <2>3 DEF Split, RequestShard
    <3> QED
      BY <2>1, <2>2, <2>3, <3>1 DEF Marked, Shards
  <2>4. CASE ~Split /\ s \in Precompile
    <3>1. s \notin Core \cup Memory
      BY <2>4, ShardAssumption
    <3>2. Marked /\ refs' = Core \X Precompile /\ Split'
      BY <2>1, <2>4, <3>1 DEF RequestShard, Cut, Split
    <3>3. \A c \in Core : Events(c) \in artifacts
      BY <2>4, <3>2 DEF Marked
    <3> QED
      BY <2>1, <3>2, <3>3 DEF Marked, Shards
  <2>5. CASE ~Split /\ s \notin Precompile
    <3>1. ~Split' /\ refs' = refs
      BY <2>1, <2>5 DEF Split, RequestShard
    <3> QED
      BY <2>1, <2>5, <3>1 DEF Shards
  <2> QED
    BY <2>3, <2>4, <2>5
<1>20. CASE Waiting /\ \E s \in Shards : Announce(s)
  BY <1>20 DEF Announce, Unread, Split, Marked, clientVars, controllerVars, serviceVars
<1>21. CASE Waiting /\ \E c \in Core : UploadEvents(c)
  <2> PICK c \in Core : UploadEvents(c)
    BY <1>21
  <2>1. artifacts \subseteq artifacts' /\ ~Split
        /\ UNCHANGED <<requested, refs, queue, serving, at>> /\ deferring[c] = "uploading"
    BY DEF UploadEvents, Marked, controllerVars, serviceVars
  <2>2. \/ deferring' = [deferring EXCEPT ![c] = "uploaded"] /\ Events(c) \in artifacts'
        \/ deferring' = [deferring EXCEPT ![c] = "failed"]
    BY DEF UploadEvents
  <2> QED
    BY <2>1, <2>2 DEF Split
<1>22. CASE Waiting /\ \E c \in Core : CompleteMarker(c)
  <2> PICK c \in Core : CompleteMarker(c)
    BY <1>22
  <2>1. ~Split /\ UNCHANGED <<requested, refs, queue, serving, at, artifacts>> /\ deferring[c] = "uploaded"
    BY DEF CompleteMarker, Marked, controllerVars, serviceVars
  <2>2. \E state \in {"marked", "failed"} : deferring' = [deferring EXCEPT ![c] = state]
    BY DEF CompleteMarker
  <2> QED
    BY <2>1, <2>2 DEF Split
<1>23. CASE UNCHANGED vars
  BY <1>23 DEF vars, Unread, Split, Marked, clientVars, controllerVars, serviceVars
<1> QED
  BY <1>1, <1>2, <1>3, <1>4, <1>5, <1>6, <1>7, <1>8, <1>9, <1>10, <1>11, <1>12, <1>13,
     <1>14, <1>15, <1>16, <1>17, <1>18, <1>19, <1>20, <1>21, <1>22, <1>23
  DEF Next, Client, Controller, Service, Deferred, Returned
-----------------------------------------------------------------------------
LEMMA Initially == Init => IInv
<1> SUFFICES ASSUME Init PROVE IInv
  OBVIOUS
<1> USE DEF Init
<1>1. Elements(<< >>) = {} /\ << >> \in Seq(Shards) /\ Distinct(<< >>)
  BY DEF Elements, Distinct
<1>2. TypeOK /\ Lists /\ TaskOnce /\ AnnouncedOnce
  BY <1>1, ShardAssumption DEF TypeOK, Lists, TaskOnce, AnnouncedOnce, ENDED
<1>3. Halves /\ InputsKept
  BY DEF Halves, InputsKept
<1>4. EventsKept
  BY DEF EventsKept, Split, Shards
<1> QED
  BY <1>2, <1>3, <1>4 DEF IInv

LEMMA Stepwise == IInv /\ [Next]_vars => IInv'
  BY TypesStep, TaskOnceStep, AnnouncedOnceStep, HalvesStep, InputsKeptStep, EventsKeptStep DEF IInv

LEMMA Invariant == Spec => []IInv
  BY Initially, Stepwise, PTL DEF Spec

(* An answer with proofs has them all.                                     *)
LEMMA AnswerComplete ==
  ASSUME IInv, waited, collected
  PROVE  proofs = Promise!InOrder /\ \A s \in Shards : task[s] = "Succeeded"
<1>1. announced = Shards /\ Elements(messages) = {} /\ collector = None /\ Increasing(proofs)
  BY DEF IInv, Halves, Elements
<1>2. Elements(proofs) = Shards
  BY <1>1 DEF IInv, AnnouncedOnce
<1>3. proofs = Promise!InOrder
  BY <1>1, <1>2, AnswerInOrder DEF IInv, Lists, AnnouncedOnce
<1> QED
  BY <1>2, <1>3 DEF IInv, AnnouncedOnce

(* Every part of a call keeps a value of its kind: a status is reported    *)
(* once the service is done with a task, and nothing is announced that was *)
(* not asked for.                                                          *)
THEOREM TypeCorrect == Spec => []TypeOK
<1>1. IInv => TypeOK
  BY DEF IInv
<1> QED
  BY <1>1, Invariant, PTL

(* A ProveShard task of a call that goes on finds the program, the common  *)
(* input, its record and the events it reads, and when prove_core returns  *)
(* proofs no task is left that would look for what it deletes.             *)
THEOREM InputsFound == Spec => []TasksFindTheirInputs
<1>1. ASSUME IInv, main = "joined", at = "download" PROVE Needed(serving) \subseteq artifacts
  <2>1. serving \in Shards /\ serving \in requested /\ Unread(serving)
    BY <1>1 DEF IInv, TypeOK, TaskOnce, Unread
  <2>2. {Elf, CommonInput, Record(serving)} \subseteq artifacts
    BY <1>1, <2>1 DEF IInv, InputsKept
  <2>3. CASE serving \in Precompile
    <3>1. Split
      BY <2>1, <2>3 DEF Split
    <3>2. \A c \in Core : deferring[c] = "marked" /\ <<c, serving>> \in refs
      BY <1>1, <2>1, <2>3, <3>1 DEF IInv, EventsKept, Marked
    <3>3. \A c \in Core : Events(c) \in artifacts
      BY <1>1, <2>3, <3>2 DEF IInv, EventsKept
    <3> QED
      BY <2>2, <3>3 DEF Needed
  <2> QED
    BY <2>2, <2>3 DEF Needed
<1>2. ASSUME IInv, main = "ok" PROVE at = "idle" /\ queue = << >>
  <2>1. \A s \in Shards : task[s] = "Succeeded"
    BY <1>2, AnswerComplete DEF IInv, Halves
  <2>2. serving = None /\ Elements(queue) = {}
    BY <1>2, <2>1 DEF IInv, TypeOK, TaskOnce
  <2>3. queue \in Seq(Shards) /\ (queue # << >> => Head(queue) \in Elements(queue))
    BY <1>2, FirstTaken DEF IInv, Lists
  <2> QED
    BY <1>2, <2>2, <2>3 DEF IInv, TypeOK
<1>3. IInv => TasksFindTheirInputs
  BY <1>1, <1>2 DEF TasksFindTheirInputs
<1> QED
  BY <1>3, Invariant, PTL

(* The call implements what its caller is promised: every step either      *)
(* leaves it unanswered or gives its one answer, an error or the proofs of *)
(* all shards in the order of their ranges, and no answer is taken back.   *)
THEOREM AnswersWhole == Spec => OneWholeAnswer
<1>1. Init => Promise!Init
  BY DEF Init, Promise!Init
<1>2. IInv /\ IInv' /\ [Next]_vars => [Promise!Next]_Promise!vars
  <2> SUFFICES ASSUME IInv, IInv', [Next]_vars
               PROVE  Promise!Next \/ UNCHANGED Promise!vars
    OBVIOUS
  <2> USE DEF Promise!Next, Promise!Answer, Promise!Fail, Promise!vars
  <2>1. CASE main \in {"ok", "error"}
    <3>1. UNCHANGED vars
      BY <2>1 DEF Next, Client, Controller, Service, Deferred, Returned, Waiting, Prepare, Submit,
                  WaitExecutor, Receive, Collect, Sort, Return
    <3> QED
      BY <3>1 DEF vars, clientVars
  <2>2. CASE main \notin {"ok", "error"} /\ main' \notin {"ok", "error"}
    BY <2>2
  <2>3. CASE main \notin {"ok", "error"} /\ main' = "error"
    BY <2>3
  <2>4. CASE main \notin {"ok", "error"} /\ main' = "ok"
    <3>1. proofs' = Promise!InOrder
      <4>1. waited' /\ collected'
        BY <2>4 DEF IInv, Halves
      <4>2. (proofs = Promise!InOrder)'
        BY <4>1, AnswerComplete, PTL
      <4> QED
        BY <4>2
    <3> QED
      BY <2>4, <3>1
  <2> QED
    BY <2>1, <2>2, <2>3, <2>4 DEF IInv, TypeOK
<1> QED
  BY <1>1, <1>2, Invariant, PTL DEF Spec, OneWholeAnswer, Promise!OneAnswer
=============================================================================
