----------------------- MODULE AttestationHostProofs -----------------------
(***************************************************************************)
(* For any number of runs and inputs: a Groth16 retry that got past its    *)
(* wrap bundle leaves it readable, a fixture that describes the saved      *)
(* bundle vouches for the key next to it, and a retry that fails of itself *)
(* met a file that was never finished.                                     *)
(*                                                                         *)
(* All need to know what a run has still to write.  While the last part    *)
(* of main runs, todo is the rest of Publish(p), n writes into it, for a   *)
(* proof p that carries the number of the run: no file of an earlier run   *)
(* can hold it.  While a development build runs, it is the rest of that.   *)
(***************************************************************************)
EXTENDS AttestationHost, TLAPS

Marked    == {None, Torn}
Content   == {Torn} \cup Proofs \cup 0 .. MaxRuns
Arguments == [kind : Kinds, dev : BOOLEAN, bundle : Proofs]
Stages    == {"idle", "verify", "prove", "ensure", "groth16", "finish"} \cup Retries

(* TypeOK, in parts, and todo as a sequence.                               *)
Counters == input \in 1 .. MaxInput /\ runs \in 0 .. MaxRuns /\ MaxRuns \in Nat /\ MaxInput \in Nat
DiskType == DOMAIN disk = Files /\ \A f \in Files : disk[f] \in Marked \cup Contents(f)
RunType  == /\ at \in Stages
            /\ IF at = "idle" THEN run = None /\ todo = << >> ELSE run \in Arguments /\ runs >= 1
            /\ at = "verify" => todo = << >>
TodoType == /\ todo \in Seq(Files \X Content)
            /\ \A i \in DOMAIN todo : todo[i][2] \in {Torn} \cup Contents(todo[i][1])
Types    == Counters /\ DiskType /\ RunType /\ TodoType

(* A run of the stages before the last part knows its kind.                *)
Kinded ==
  /\ at \in {"verify"} \cup Retries => run.kind = at
  /\ at \in {"ensure", "groth16"} => run.kind \in Retries
  /\ at = "prove" => run.kind \in {"execute"} \cup Plain
                     /\ run.bundle.via = run.kind /\ run.bundle.no = runs

(* The wrap bundle is being written, or is whole and left alone.           *)
WrapWritten ==
  /\ at \in {"groth16", "finish"} => \A i \in DOMAIN todo : todo[i][1] # "wrap"
  /\ at \in {"prove"} \cup Retries => todo = << >>
  /\ run # None /\ run.kind \in Retries =>
       /\ at = "ensure" => \/ todo = << >> /\ Whole("wrap")
                           \/ Len(todo) \in {1, 2} /\ todo[Len(todo)][1] = "wrap"
                              /\ todo[Len(todo)][2] \notin Marked
       /\ at \in {"groth16", "finish"} => Whole("wrap")
-----------------------------------------------------------------------------
Described == {"groth16", "fixture_groth16"}
Known     == \A f \in Described : Whole(f) => disk[f].no <= runs
Earlier(f) == Whole(f) => disk[f].no < runs

Quiet == \A i \in DOMAIN todo : todo[i][1] \notin Described \cup {"checked_vk"}

(* What is left of Publish(p) after n writes.                              *)
Length(p) == IF p.via \in Retries THEN 8 ELSE 6
Left(p, n) ==
  /\ n \in 0 .. Length(p) /\ Len(todo) = Length(p) - n
  /\ \A i \in 1 .. Len(todo) : todo[i] = Publish(p)[n + i]

Publishing(p, n) ==
  /\ p.via \in {"groth16"} \cup Retries /\ p.no = runs /\ p \notin Marked
  /\ Left(p, n)
  /\ n <= 2 => Earlier("groth16")
  /\ n = 3 => disk["groth16"] = Torn
  /\ n >= 4 => disk["groth16"] = p
  /\ n < Length(p) => Earlier("fixture_groth16")
  /\ n = Length(p) => disk["fixture_groth16"] = p
  /\ p.via \in Retries /\ n >= 6 => disk["checked_vk"] = p.key

(* The files of a development build, of which the proving key is the last: *)
(* while there is one, the others are of its build.                        *)
Together ==
  disk["pk"] # None =>
    /\ disk["constraints"] # None /\ disk["witness"] # None
    /\ Whole("vk") /\ disk["circuit"] = disk["vk"] /\ disk["pk"] \in {Torn, disk["vk"]}

(* What is left of a build after n writes.                                 *)
BuildPlan(k) == Put("constraints", k) \o Put("witness", k) \o Put("circuit", k)
                  \o Put("vk", k) \o Put("pk", k)
Building(n) ==
  /\ Len(todo) = 10 - n /\ \A i \in 1 .. Len(todo) : todo[i] = BuildPlan(runs)[n + i]
  /\ disk["pk"] = IF n <= 8 THEN None ELSE Torn
  /\ n >= 1 => disk["constraints"] # None
  /\ n >= 3 => disk["witness"] # None
  /\ n >= 6 => disk["circuit"] = runs
  /\ n >= 8 => disk["vk"] = runs

Elsewhere == \A i \in DOMAIN todo : todo[i][1] \notin BuildFiles
Built ==
  /\ Together
  /\ at # "groth16" => Elsewhere
  /\ at = "groth16" => \/ todo = << >> /\ (run.dev => disk["pk"] # None)
                       \/ run.dev /\ \E n \in 0 .. 9 : Building(n)

Published ==
  /\ Known
  /\ at \in {"prove", "ensure", "groth16"} \cup Retries =>
       Earlier("groth16") /\ Earlier("fixture_groth16") /\ Quiet
  /\ at = "finish" => Quiet \/ \E p \in Proofs : \E n \in 0 .. 8 : Publishing(p, n)
  /\ FixtureVouchesForKey

IInv == Types /\ Kinded /\ WrapWritten /\ Published /\ Built
-----------------------------------------------------------------------------
(* The pairs of writes a run can plan.                                     *)
LEMMA PutShape ==
  ASSUME NEW f \in Files, NEW c \in Contents(f)
  PROVE  /\ Put(f, c) \in Seq(Files \X Content) /\ Len(Put(f, c)) = 2
         /\ Put(f, c)[1] = <<f, Torn>> /\ Put(f, c)[2] = <<f, c>>
         /\ c \in Content
<1>1. c \in Content BY DEF Contents, Content
<1>2. Torn \in Content BY DEF Content
<1> QED BY <1>1, <1>2 DEF Put

(* Sequences of such writes.                                               *)
Planned(s) ==
  /\ s \in Seq(Files \X Content)
  /\ \A i \in 1 .. Len(s) : s[i][2] \in {Torn} \cup Contents(s[i][1])

LEMMA PutPlanned ==
  ASSUME NEW f \in Files, NEW c \in Contents(f)
  PROVE  Planned(Put(f, c)) /\ \A i \in 1 .. Len(Put(f, c)) : Put(f, c)[i][1] = f
<1>1. /\ Put(f, c) \in Seq(Files \X Content) /\ Len(Put(f, c)) = 2
      /\ Put(f, c)[1] = <<f, Torn>> /\ Put(f, c)[2] = <<f, c>>
  BY PutShape
<1> QED BY <1>1 DEF Planned

LEMMA EmptyPlanned == Planned(<< >>) /\ Len(<< >>) = 0
BY DEF Planned

LEMMA JoinPlanned ==
  ASSUME NEW s, NEW t, Planned(s), Planned(t)
  PROVE  /\ Planned(s \o t)
         /\ Len(s) \in Nat /\ Len(t) \in Nat /\ Len(s \o t) = Len(s) + Len(t)
         /\ \A i \in 1 .. Len(s) : (s \o t)[i] = s[i]
         /\ \A i \in 1 .. Len(t) : (s \o t)[Len(s) + i] = t[i]
         /\ \A i \in 1 .. Len(s \o t) :
              (\E j \in 1 .. Len(s) : (s \o t)[i] = s[j]) \/ (\E j \in 1 .. Len(t) : (s \o t)[i] = t[j])
<1>1. s \in Seq(Files \X Content) /\ t \in Seq(Files \X Content) BY DEF Planned
<1>2. /\ s \o t \in Seq(Files \X Content)
      /\ Len(s) \in Nat /\ Len(t) \in Nat /\ Len(s \o t) = Len(s) + Len(t)
      /\ \A i \in 1 .. Len(s) : (s \o t)[i] = s[i]
      /\ \A i \in 1 .. Len(t) : (s \o t)[Len(s) + i] = t[i]
  BY <1>1
<1>3. ASSUME NEW i \in 1 .. Len(s \o t)
      PROVE  (\E j \in 1 .. Len(s) : (s \o t)[i] = s[j]) \/ (\E j \in 1 .. Len(t) : (s \o t)[i] = t[j])
  <2>1. CASE i <= Len(s) BY <2>1, <1>2
  <2>2. CASE ~(i <= Len(s))
    <3>1. i - Len(s) \in 1 .. Len(t) /\ Len(s) + (i - Len(s)) = i BY <2>2, <1>2
    <3>2. (s \o t)[i] = t[i - Len(s)] BY <3>1, <1>2
    <3> QED BY <3>1, <3>2
  <2> QED BY <2>1, <2>2
<1>4. Planned(s \o t) BY <1>2, <1>3 DEF Planned
<1> QED BY <1>2, <1>3, <1>4

(* What Publish plans: a Groth16 proof's files in this order, and none of  *)
(* them for the other proofs.                                              *)
LEMMA PublishShape ==
  ASSUME NEW p \in Proofs, p.via \in Plain \cup Retries
  PROVE  /\ Planned(Publish(p))
         /\ \A i \in 1 .. Len(Publish(p)) : Publish(p)[i][1] \notin BuildFiles \cup {"wrap"}
         /\ p.via \in {"core", "compressed"} =>
              \A i \in 1 .. Len(Publish(p)) : Publish(p)[i][1] \notin Described \cup {"checked_vk"}
         /\ p.via \in {"groth16"} \cup Retries =>
              /\ Len(Publish(p)) = Length(p)
              /\ Publish(p)[1][1] = "public_values" /\ Publish(p)[2][1] = "public_values"
              /\ Publish(p)[3] = <<"groth16", Torn>> /\ Publish(p)[4] = <<"groth16", p>>
         /\ p.via = "groth16" =>
              Publish(p)[5] = <<"fixture_groth16", Torn>> /\ Publish(p)[6] = <<"fixture_groth16", p>>
         /\ p.via \in Retries =>
              /\ Publish(p)[5] = <<"checked_vk", Torn>> /\ Publish(p)[6] = <<"checked_vk", p.key>>
              /\ Publish(p)[7] = <<"fixture_groth16", Torn>> /\ Publish(p)[8] = <<"fixture_groth16", p>>
<1> DEFINE a == Put("public_values", p)
           b == IF p.via = "core" THEN << >> ELSE Put(Bundle(p.via), p)
           c == IF p.via \in Retries THEN Put("checked_vk", p.key) ELSE << >>
           d == Put(Fixture(p.via), p)
<1>1. /\ "public_values" \in Files /\ p \in Contents("public_values")
      /\ Bundle(p.via) \in Files /\ p \in Contents(Bundle(p.via)) /\ Bundle(p.via) # "wrap"
      /\ "checked_vk" \in Files /\ p.key \in Contents("checked_vk")
      /\ Fixture(p.via) \in Files /\ p \in Contents(Fixture(p.via)) /\ Fixture(p.via) # "wrap"
  BY DEF Files, BuildFiles, Keys, Contents, Bundle, Fixture, Proofs
<1>2. /\ Planned(a) /\ Len(a) = 2 /\ a[1] = <<"public_values", Torn>> /\ a[2] = <<"public_values", p>>
      /\ \A i \in 1 .. Len(a) : a[i][1] = "public_values"
  BY <1>1, PutShape, PutPlanned
<1>3. Planned(b) /\ \A i \in 1 .. Len(b) : b[i][1] = Bundle(p.via) BY <1>1, PutPlanned, EmptyPlanned
<1>4. Planned(c) /\ \A i \in 1 .. Len(c) : c[i][1] = "checked_vk" BY <1>1, PutPlanned, EmptyPlanned
<1>5. Planned(d) /\ \A i \in 1 .. Len(d) : d[i][1] = Fixture(p.via) BY <1>1, PutPlanned
<1>6. p.via # "core" =>
        Len(b) = 2 /\ b[1] = <<Bundle(p.via), Torn>> /\ b[2] = <<Bundle(p.via), p>>
  BY <1>1, PutShape
<1>7. Len(c) = IF p.via \in Retries THEN 2 ELSE 0
  <2>1. CASE p.via \in Retries
    <3>1. Len(Put("checked_vk", p.key)) = 2 BY <1>1, PutShape
    <3> QED BY <2>1, <3>1
  <2>2. CASE p.via \notin Retries BY <2>2, EmptyPlanned
  <2> QED BY <2>1, <2>2
<1>8. p.via \in Retries => c[1] = <<"checked_vk", Torn>> /\ c[2] = <<"checked_vk", p.key>>
  BY <1>1, PutShape
<1>9. Len(d) = 2 /\ d[1] = <<Fixture(p.via), Torn>> /\ d[2] = <<Fixture(p.via), p>> BY <1>1, PutShape
<1>10. Publish(p) = a \o b \o c \o d BY DEF Publish
<1> HIDE DEF a, b, c, d
<1>11. /\ Planned(a \o b) /\ Len(a \o b) = Len(a) + Len(b)
       /\ \A i \in 1 .. Len(a) : (a \o b)[i] = a[i]
       /\ \A i \in 1 .. Len(b) : (a \o b)[Len(a) + i] = b[i]
       /\ \A i \in 1 .. Len(a \o b) :
            (\E j \in 1 .. Len(a) : (a \o b)[i] = a[j]) \/ (\E j \in 1 .. Len(b) : (a \o b)[i] = b[j])
  <2>1. Planned(a) /\ Planned(b) BY <1>2, <1>3
  <2> QED BY ONLY <2>1, JoinPlanned
<1> DEFINE ab == a \o b
<1> HIDE DEF ab
<1>12. /\ Planned(ab \o c) /\ Len(ab \o c) = Len(ab) + Len(c)
       /\ \A i \in 1 .. Len(ab) : (ab \o c)[i] = ab[i]
       /\ \A i \in 1 .. Len(c) : (ab \o c)[Len(ab) + i] = c[i]
       /\ \A i \in 1 .. Len(ab \o c) :
            (\E j \in 1 .. Len(ab) : (ab \o c)[i] = ab[j]) \/ (\E j \in 1 .. Len(c) : (ab \o c)[i] = c[j])
  BY <1>4, <1>11, JoinPlanned DEF ab
<1> DEFINE abc == ab \o c
<1> HIDE DEF abc
<1>13. /\ Planned(abc \o d) /\ Len(abc \o d) = Len(abc) + Len(d)
       /\ \A i \in 1 .. Len(abc) : (abc \o d)[i] = abc[i]
       /\ \A i \in 1 .. Len(d) : (abc \o d)[Len(abc) + i] = d[i]
       /\ \A i \in 1 .. Len(abc \o d) :
            (\E j \in 1 .. Len(abc) : (abc \o d)[i] = abc[j]) \/ (\E j \in 1 .. Len(d) : (abc \o d)[i] = d[j])
  BY <1>5, <1>12, JoinPlanned DEF abc
<1>14. Publish(p) = abc \o d BY <1>10 DEF ab, abc
<1>15. \A i \in 1 .. Len(Publish(p)) :
         Publish(p)[i][1] \in {"public_values", "checked_vk", Fixture(p.via)}
           \/ (Len(b) > 0 /\ Publish(p)[i][1] = Bundle(p.via))
           \/ (Len(b) = 0 /\ FALSE)
  <2>1. \A i \in 1 .. Len(ab) : ab[i][1] = "public_values" \/ (Len(b) > 0 /\ ab[i][1] = Bundle(p.via))
    <3>1. Len(b) \in Nat BY <1>3 DEF Planned
    <3> QED BY <3>1, <1>2, <1>3, <1>11 DEF ab
  <2>2. \A i \in 1 .. Len(abc) : abc[i][1] \in {"public_values", "checked_vk"}
                                  \/ (Len(b) > 0 /\ abc[i][1] = Bundle(p.via))
    BY <2>1, <1>4, <1>12 DEF abc
  <2> QED BY <2>2, <1>5, <1>13, <1>14
<1>16. p.via \in {"core", "compressed"} =>
         \A i \in 1 .. Len(Publish(p)) : Publish(p)[i][1] \notin Described \cup {"checked_vk"}
  <2> SUFFICES ASSUME p.via \in {"core", "compressed"}, NEW i \in 1 .. Len(Publish(p))
               PROVE  Publish(p)[i][1] \notin Described \cup {"checked_vk"}
    OBVIOUS
  <2>1. Len(c) = 0 BY <1>7 DEF Retries
  <2>2. p.via = "core" => Len(b) = 0 BY EmptyPlanned DEF b
  <2>3. Fixture(p.via) \notin Described /\ (p.via = "compressed" => Bundle(p.via) \notin Described)
    BY DEF Fixture, Bundle, Described
  <2>4. \A j \in 1 .. Len(ab) : ab[j][1] = "public_values" \/ (Len(b) > 0 /\ ab[j][1] = Bundle(p.via))
    <3>1. Len(b) \in Nat BY <1>3 DEF Planned
    <3> QED BY <3>1, <1>2, <1>3, <1>11 DEF ab
  <2>5. \A j \in 1 .. Len(abc) : abc[j][1] = "public_values" \/ (Len(b) > 0 /\ abc[j][1] = Bundle(p.via))
    BY <2>1, <2>4, <1>12 DEF abc
  <2>6. Publish(p)[i][1] \in {"public_values", Fixture(p.via)}
        \/ (Len(b) > 0 /\ Publish(p)[i][1] = Bundle(p.via))
    BY <2>5, <1>5, <1>13, <1>14
  <2>7. Publish(p)[i][1] # "checked_vk" BY <2>6 DEF Fixture, Bundle
  <2> QED BY <2>2, <2>3, <2>6, <2>7 DEF Described
<1>17. ASSUME p.via \in {"groth16"} \cup Retries
       PROVE  /\ Bundle(p.via) = "groth16" /\ Fixture(p.via) = "fixture_groth16" /\ p.via # "core"
              /\ Len(ab) = 4 /\ ab[1] = a[1] /\ ab[2] = a[2] /\ ab[3] = b[1] /\ ab[4] = b[2]
  <2>1. Bundle(p.via) = "groth16" /\ Fixture(p.via) = "fixture_groth16" /\ p.via # "core"
    BY <1>17 DEF Bundle, Fixture, Retries
  <2>2. Len(a) = 2 /\ Len(b) = 2 BY <2>1, <1>2, <1>6
  <2>3. 1 \in 1 .. 2 /\ 2 \in 1 .. 2 /\ 2 + 1 = 3 /\ 2 + 2 = 4 OBVIOUS
  <2> QED BY <2>1, <2>2, <2>3, <1>11 DEF ab
<1>18. ASSUME p.via = "groth16"
       PROVE  /\ Len(Publish(p)) = 6
              /\ Publish(p)[1] = a[1] /\ Publish(p)[2] = a[2] /\ Publish(p)[3] = b[1]
              /\ Publish(p)[4] = b[2] /\ Publish(p)[5] = d[1] /\ Publish(p)[6] = d[2]
  <2>1. Len(ab) = 4 /\ Len(c) = 0 BY <1>17, <1>18, <1>7 DEF Retries
  <2>2. Len(abc) = 4 /\ \A i \in 1 .. 4 : abc[i] = ab[i] BY <2>1, <1>12 DEF abc
  <2>3. Len(abc \o d) = 6 /\ (\A i \in 1 .. 4 : (abc \o d)[i] = abc[i])
        /\ (abc \o d)[4 + 1] = d[1] /\ (abc \o d)[4 + 2] = d[2]
    BY <2>2, <1>9, <1>13
  <2> QED BY <2>2, <2>3, <1>14, <1>17, <1>18
<1>19. ASSUME p.via \in Retries
       PROVE  /\ Len(Publish(p)) = 8
              /\ Publish(p)[1] = a[1] /\ Publish(p)[2] = a[2] /\ Publish(p)[3] = b[1]
              /\ Publish(p)[4] = b[2] /\ Publish(p)[5] = c[1] /\ Publish(p)[6] = c[2]
              /\ Publish(p)[7] = d[1] /\ Publish(p)[8] = d[2]
  <2>1. Len(ab) = 4 /\ Len(c) = 2 BY <1>17, <1>19, <1>7
  <2>2. Len(abc) = 6 /\ (\A i \in 1 .. 4 : abc[i] = ab[i]) /\ abc[4 + 1] = c[1] /\ abc[4 + 2] = c[2]
    BY <2>1, <1>12 DEF abc
  <2>3. Len(abc \o d) = 8 /\ (\A i \in 1 .. 6 : (abc \o d)[i] = abc[i])
        /\ (abc \o d)[6 + 1] = d[1] /\ (abc \o d)[6 + 2] = d[2]
    BY <2>2, <1>9, <1>13
  <2>4. /\ \A i \in 1 .. 4 : (abc \o d)[i] = ab[i]
        /\ (abc \o d)[5] = c[1] /\ (abc \o d)[6] = c[2]
        /\ (abc \o d)[7] = d[1] /\ (abc \o d)[8] = d[2]
    BY <2>2, <2>3
  <2>5. 1 \in 1 .. 4 /\ 2 \in 1 .. 4 /\ 3 \in 1 .. 4 /\ 4 \in 1 .. 4 OBVIOUS
  <2> QED BY <2>3, <2>4, <2>5, <1>14, <1>17, <1>19
<1>20. "groth16" \notin Retries BY DEF Retries
<1>21. Planned(Publish(p)) BY <1>13, <1>14
<1>22. \A i \in 1 .. Len(Publish(p)) : Publish(p)[i][1] \notin BuildFiles \cup {"wrap"}
  <2>1. {"public_values", "checked_vk", Fixture(p.via), Bundle(p.via)} \cap BuildFiles = {}
    BY DEF BuildFiles, Keys, Fixture, Bundle
  <2> QED BY <2>1, <1>1, <1>15
<1> QED BY <1>2, <1>6, <1>8, <1>9, <1>16, <1>17, <1>18, <1>19, <1>20, <1>21, <1>22 DEF Length
-----------------------------------------------------------------------------
(* Writes that stay within a set of files.                                 *)
Within(s, S) == Planned(s) /\ \A i \in 1 .. Len(s) : s[i][1] \in S

LEMMA PutWithin ==
  ASSUME NEW S, NEW f \in S \cap Files, NEW c \in Contents(f)
  PROVE  Within(Put(f, c), S)
BY PutPlanned DEF Within

LEMMA JoinWithin ==
  ASSUME NEW S, NEW s, NEW t, Within(s, S), Within(t, S)
  PROVE  Within(s \o t, S)
<1>1. Planned(s) /\ Planned(t) BY DEF Within
<1>2. /\ Planned(s \o t)
      /\ \A i \in 1 .. Len(s \o t) :
           (\E j \in 1 .. Len(s) : (s \o t)[i] = s[j]) \/ (\E j \in 1 .. Len(t) : (s \o t)[i] = t[j])
  BY ONLY <1>1, JoinPlanned
<1>3. ASSUME NEW i \in 1 .. Len(s \o t) PROVE (s \o t)[i][1] \in S
  BY <1>2 DEF Within
<1> QED BY <1>2, <1>3 DEF Within

(* The development build writes its five files and no other.               *)
LEMMA BuildPlanned ==
  ASSUME NEW k \in 0 .. MaxRuns
  PROVE  Within(BuildPlan(k), BuildFiles)
<1>1. \A f \in BuildFiles : f \in BuildFiles \cap Files /\ k \in Contents(f) BY DEF Files, Contents
<1>2. {"constraints", "witness", "circuit", "vk", "pk"} \subseteq BuildFiles BY DEF BuildFiles, Keys
<1>3. \A f \in BuildFiles : Within(Put(f, k), BuildFiles)
  <2> TAKE f \in BuildFiles
  <2>1. f \in BuildFiles \cap Files /\ k \in Contents(f) BY <1>1
  <2> QED BY ONLY <2>1, PutWithin
<1> DEFINE a == Put("constraints", k)
           b == Put("witness", k)
           c == Put("circuit", k)
           d == Put("vk", k)
           e == Put("pk", k)
<1>4. Within(a, BuildFiles) /\ Within(b, BuildFiles) /\ Within(c, BuildFiles)
      /\ Within(d, BuildFiles) /\ Within(e, BuildFiles)
  BY <1>2, <1>3
<1> HIDE DEF a, b, c, d, e
<1>5. Within(a \o b, BuildFiles) BY ONLY <1>4, JoinWithin
<1>6. Within(a \o b \o c, BuildFiles) BY ONLY <1>4, <1>5, JoinWithin
<1>7. Within(a \o b \o c \o d, BuildFiles) BY ONLY <1>4, <1>6, JoinWithin
<1>8. Within(a \o b \o c \o d \o e, BuildFiles) BY ONLY <1>4, <1>7, JoinWithin
<1> QED BY <1>8 DEF a, b, c, d, e, BuildPlan
-----------------------------------------------------------------------------
(* One write: it takes the first of the plan to its file.                  *)
LEMMA WriteEffect ==
  ASSUME Types, Write
  PROVE  /\ Len(todo) \in Nat \ {0} /\ Len(todo') = Len(todo) - 1
         /\ \A i \in 1 .. Len(todo') : todo'[i] = todo[i + 1]
         /\ Planned(todo')
         /\ todo[1][1] \in Files /\ todo[1][2] \in {Torn} \cup Contents(todo[1][1])
         /\ DOMAIN disk' = Files /\ disk'[todo[1][1]] = todo[1][2]
         /\ \A f \in Files \ {todo[1][1]} : disk'[f] = disk[f]
         /\ UNCHANGED <<input, runs, run, at, last>>
<1>1. todo \in Seq(Files \X Content) /\ todo # << >> BY DEF Types, TodoType, Write
<1>2. Len(todo) \in Nat \ {0} /\ DOMAIN todo = 1 .. Len(todo) /\ Head(todo) = todo[1] BY <1>1
<1>3. 1 \in 1 .. Len(todo) BY <1>2
<1>4. todo[1] \in Files \X Content BY <1>1, <1>3
<1>5. todo[1][1] \in Files /\ todo[1][2] \in {Torn} \cup Contents(todo[1][1])
  BY <1>2, <1>3, <1>4 DEF Types, TodoType
<1>6. /\ todo' = Tail(todo)
      /\ disk' = [disk EXCEPT ![todo[1][1]] = todo[1][2]]
      /\ UNCHANGED <<input, runs, run, at, last>>
  BY <1>2 DEF Write
<1>7. /\ Len(todo') = Len(todo) - 1 /\ todo' \in Seq(Files \X Content)
      /\ \A i \in 1 .. Len(todo') : todo'[i] = todo[i + 1] /\ i + 1 \in 1 .. Len(todo)
  BY <1>1, <1>2, <1>6
<1>8. Planned(todo') BY <1>2, <1>7 DEF Planned, Types, TodoType
<1>9. DOMAIN disk = Files BY DEF Types, DiskType
<1> QED BY <1>2, <1>5, <1>6, <1>7, <1>8, <1>9

LEMMA PlannedType == ASSUME Planned(todo') PROVE TodoType'
BY DEF Planned, TodoType

(* The steps that end a run, and those that only plan writes.              *)
Stops == /\ at' = "idle" /\ run' = None /\ todo' = << >> /\ UNCHANGED <<input, disk, runs>>

LEMMA StepKinds ==
  ASSUME Next
  PROVE  \/ NewInput \/ (\E kind \in Kinds, dev \in BOOLEAN : Start(kind, dev)) \/ Write \/ Stops
         \/ Execute \/ ProveInput \/ ShrinkWrap \/ LoadWrap \/ EnsureBuildDir \/ Groth16
BY DEF Next, Finish, Kill, LoadFails, Groth16Fails, Verify, End, Stops

(* What a planning step has loaded or made is a proof.                     *)
LEMMA LoadedProof ==
  ASSUME Types, NEW f \in {"wrap", "compressed"}, Whole(f)
  PROVE  disk[f] \in Proofs
<1>1. f \in Files /\ Contents(f) = Proofs BY DEF Files, BuildFiles, Keys, Contents
<1> QED BY <1>1 DEF Types, DiskType, Whole, Marked

LEMMA MadeProof ==
  ASSUME Types, Kinded, Groth16
  PROVE  \E p \in Proofs : p.via = run.kind /\ p.via \in Retries /\ p.no = runs /\ todo' = Publish(p)
<1> DEFINE p == [input |-> run.bundle.input, no |-> runs, via |-> run.kind,
                 key |-> IF run.dev THEN disk["vk"] ELSE Release]
<1>1. at = "groth16" /\ todo' = Publish(p) /\ Usable BY DEF Groth16, Ready
<1>2. run \in Arguments /\ runs \in 1 .. MaxRuns /\ MaxRuns \in Nat
  BY <1>1 DEF Types, RunType, Counters
<1>3. run.bundle.input \in 1 .. MaxInput /\ run.kind \in Kinds /\ run.dev \in BOOLEAN
  BY <1>2 DEF Arguments, Proofs
<1>4. run.dev => disk["vk"] \in 0 .. MaxRuns
  <2>1. "vk" \in Keys /\ "vk" \in Files /\ Contents("vk") = 0 .. MaxRuns
    BY DEF Files, BuildFiles, Keys, Contents
  <2> QED BY <1>1, <2>1 DEF Types, DiskType, Usable, Whole, Marked
<1>5. p \in Proofs BY <1>2, <1>3, <1>4 DEF Proofs, Release
<1>6. p.via = run.kind /\ p.no = runs OBVIOUS
<1>7. run.kind \in Retries BY <1>1 DEF Kinded
<1> QED BY <1>1, <1>5, <1>6, <1>7
-----------------------------------------------------------------------------
LEMMA InitIInv == Init => IInv
<1> SUFFICES ASSUME Init PROVE IInv OBVIOUS
<1>1. Types BY BoundAssumption DEF Init, Types, Counters, DiskType, RunType, TodoType, Marked, Stages
<1>2. Kinded BY DEF Init, Kinded, Retries
<1>3. WrapWritten BY DEF Init, WrapWritten, Retries
<1>4. \A f \in Files : ~Whole(f) BY DEF Init, Whole
<1>5. "groth16" \in Files /\ "fixture_groth16" \in Files BY DEF Files
<1>6. Built BY DEF Init, Built, Together, Elsewhere, Files, BuildFiles, Keys
<1>7. Published BY <1>4, <1>5 DEF Init, Published, Known, Described, Retries, FixtureVouchesForKey, Vouched
<1> QED BY <1>1, <1>2, <1>3, <1>6, <1>7 DEF IInv

LEMMA TypesStep == ASSUME Types, Kinded, Next PROVE Types'
<1> USE DEF Types
<1>1. CASE NewInput
  BY <1>1 DEF NewInput, Counters, DiskType, RunType, TodoType
<1>2. ASSUME NEW kind \in Kinds, NEW dev \in BOOLEAN, Start(kind, dev) PROVE Types'
  <2>1. at = "idle" /\ run = None /\ todo = << >> BY <1>2 DEF Start, RunType
  <2>2. Counters' /\ runs' \in 1 .. MaxRuns BY <1>2 DEF Start, Counters
  <2>3. run' \in Arguments
    BY <1>2, <2>2 DEF Start, Arguments, Proofs, Release, Counters
  <2>4. at' \in Stages /\ at' # "idle"
    BY <1>2 DEF Start, Stages, Kinds, Plain, Retries
  <2>5. RunType' BY <1>2, <2>1, <2>2, <2>3, <2>4 DEF Start, RunType
  <2> QED BY <1>2, <2>2, <2>5 DEF Start, DiskType, TodoType
<1>3. CASE Write
  <2>1. /\ Planned(todo') /\ todo[1][1] \in Files /\ todo[1][2] \in {Torn} \cup Contents(todo[1][1])
        /\ DOMAIN disk' = Files /\ disk'[todo[1][1]] = todo[1][2]
        /\ \A f \in Files \ {todo[1][1]} : disk'[f] = disk[f]
        /\ UNCHANGED <<input, runs, run, at, last>>
    BY <1>3, WriteEffect
  <2>2. TodoType' BY <2>1, PlannedType
  <2>3. DiskType' BY <2>1 DEF DiskType, Marked
  <2>4. todo # << >> BY <1>3 DEF Write
  <2> QED BY <2>1, <2>2, <2>3, <2>4 DEF Counters, RunType
<1>4. CASE Stops
  BY <1>4 DEF Stops, Counters, DiskType, RunType, TodoType, Stages
<1>5. CASE Execute
  <2>1. /\ at = "prove" /\ at' = "finish" /\ UNCHANGED <<input, disk, runs, run>>
        /\ run \in Arguments /\ run.bundle \in Proofs
    BY <1>5 DEF Execute, Ready, RunType, Arguments
  <2>2. PICK x \in {<< >>, Put("fixture_core", run.bundle)} : todo' = Put("public_values", run.bundle) \o x
    BY <1>5 DEF Execute
  <2>3. /\ "public_values" \in Files /\ run.bundle \in Contents("public_values")
        /\ "fixture_core" \in Files /\ run.bundle \in Contents("fixture_core")
    BY <2>1 DEF Files, BuildFiles, Keys, Contents
  <2>4. Planned(Put("public_values", run.bundle)) /\ Planned(x)
    BY <2>3, PutPlanned, EmptyPlanned
  <2>5. Planned(todo') BY ONLY <2>2, <2>4, JoinPlanned
  <2>6. TodoType' BY <2>5, PlannedType
  <2> QED BY <2>1, <2>6 DEF Counters, DiskType, RunType, Stages
<1>6. CASE ProveInput
  <2>1. /\ at = "prove" /\ at' = "finish" /\ UNCHANGED <<input, disk, runs, run>>
        /\ run.kind \in Plain /\ todo' = Publish(run.bundle)
    BY <1>6 DEF ProveInput, Ready
  <2>2. run.bundle \in Proofs /\ run.bundle.via \in Plain \cup Retries
    BY <2>1 DEF RunType, Arguments, Kinded
  <2>3. Planned(todo') BY <2>1, <2>2, PublishShape
  <2>4. TodoType' BY <2>3, PlannedType
  <2> QED BY <2>1, <2>4 DEF Counters, DiskType, RunType, Stages
<1>7. CASE ShrinkWrap
  <2>1. /\ at = "from_compressed" /\ Whole("compressed") /\ at' = "ensure"
        /\ run' = [run EXCEPT !.bundle = disk["compressed"]] /\ UNCHANGED <<input, disk, runs>>
        /\ todo' = Put("wrap", disk["compressed"])
    BY <1>7 DEF ShrinkWrap, Ready
  <2>2. disk["compressed"] \in Proofs BY <2>1, LoadedProof
  <2>3. run \in Arguments /\ run' \in Arguments BY <2>1, <2>2 DEF RunType, Arguments
  <2>4. "wrap" \in Files /\ disk["compressed"] \in Contents("wrap")
    BY <2>2 DEF Files, BuildFiles, Keys, Contents
  <2>5. TodoType' BY <2>1, <2>4, PutPlanned, PlannedType
  <2> QED BY <2>1, <2>3, <2>5 DEF Counters, DiskType, RunType, Stages
<1>8. CASE LoadWrap
  <2>1. /\ at = "from_wrap" /\ Whole("wrap") /\ at' = "ensure"
        /\ run' = [run EXCEPT !.bundle = disk["wrap"]] /\ UNCHANGED <<input, disk, runs, todo>>
    BY <1>8 DEF LoadWrap, Ready
  <2>2. disk["wrap"] \in Proofs BY <2>1, LoadedProof
  <2>3. run \in Arguments /\ run' \in Arguments BY <2>1, <2>2 DEF RunType, Arguments
  <2> QED BY <2>1, <2>3 DEF Counters, DiskType, RunType, TodoType, Stages
<1>9. CASE EnsureBuildDir
  <2>1. at = "ensure" /\ at' = "groth16" /\ UNCHANGED <<input, disk, runs, run>>
    BY <1>9 DEF EnsureBuildDir, Ready
  <2>2. runs \in 0 .. MaxRuns BY DEF Counters
  <2>3. Planned(todo') BY <1>9, <2>2, BuildPlanned, EmptyPlanned DEF EnsureBuildDir, BuildPlan, Within
  <2>4. TodoType' BY <2>3, PlannedType
  <2> QED BY <2>1, <2>4 DEF Counters, DiskType, RunType, Stages
<1>10. CASE Groth16
  <2>1. at = "groth16" /\ at' = "finish" /\ UNCHANGED <<input, disk, runs, run>>
    BY <1>10 DEF Groth16, Ready
  <2>2. Planned(todo') BY <1>10, MadeProof, PublishShape
  <2>3. TodoType' BY <2>2, PlannedType
  <2> QED BY <2>1, <2>3 DEF Counters, DiskType, RunType, Stages
<1> QED BY <1>1, <1>2, <1>3, <1>4, <1>5, <1>6, <1>7, <1>8, <1>9, <1>10, StepKinds

LEMMA KindedStep == ASSUME Types, Kinded, Next PROVE Kinded'
<1>1. ASSUME NEW kind \in Kinds, NEW dev \in BOOLEAN, Start(kind, dev) PROVE Kinded'
  <2>1. kind \in {"execute"} \cup Plain => kind \notin Retries BY DEF Plain, Retries
  <2>2. kind \notin {"ensure", "groth16", "prove"} \/ kind = "groth16" BY DEF Kinds, Plain, Retries
  <2>3. at' = (IF kind \in {"execute"} \cup Plain THEN "prove" ELSE kind)
        /\ run'.kind = kind /\ run'.bundle.via = kind /\ run'.bundle.no = runs'
    BY <1>1 DEF Start
  <2>4. CASE kind \in {"execute"} \cup Plain BY <2>1, <2>3, <2>4 DEF Kinded, Retries
  <2>5. CASE kind \notin {"execute"} \cup Plain
    <3>1. kind # "groth16" BY <2>5 DEF Plain
    <3> QED BY <2>2, <2>3, <2>5, <3>1 DEF Kinded, Retries
  <2> QED BY <2>4, <2>5
<1>2. CASE Write BY <1>2 DEF Write, Kinded
<1>3. CASE NewInput BY <1>3 DEF NewInput, Kinded
<1>4. CASE Stops BY <1>4 DEF Stops, Kinded, Retries
<1>5. CASE Execute \/ ProveInput \/ Groth16
  BY <1>5 DEF Execute, ProveInput, Groth16, Kinded, Retries
<1>6. CASE ShrinkWrap \/ LoadWrap
  <2>1. at \in Retries /\ at' = "ensure" /\ run \in Arguments
    BY <1>6 DEF ShrinkWrap, LoadWrap, Ready, Types, RunType, Retries
  <2>2. run'.kind = run.kind BY <1>6, <2>1 DEF ShrinkWrap, LoadWrap, Arguments
  <2> QED BY <2>1, <2>2 DEF Kinded, Retries
<1>7. CASE EnsureBuildDir BY <1>7 DEF EnsureBuildDir, Ready, Kinded, Retries
<1> QED BY <1>1, <1>2, <1>3, <1>4, <1>5, <1>6, <1>7, StepKinds

LEMMA WrapStep == ASSUME Types, Kinded, WrapWritten, Next PROVE WrapWritten'
<1>1. CASE NewInput BY <1>1 DEF NewInput, WrapWritten, Whole
<1>2. ASSUME NEW kind \in Kinds, NEW dev \in BOOLEAN, Start(kind, dev) PROVE WrapWritten'
  <2>1. at' \notin {"ensure", "groth16", "finish"} /\ todo' = << >>
    BY <1>2 DEF Start, Types, RunType, Kinds, Plain, Retries
  <2> QED BY <2>1 DEF WrapWritten
<1>3. CASE Write
  <2>1. /\ Len(todo) \in Nat \ {0} /\ Len(todo') = Len(todo) - 1
        /\ \A i \in 1 .. Len(todo') : todo'[i] = todo[i + 1]
        /\ todo \in Seq(Files \X Content) /\ todo' \in Seq(Files \X Content)
        /\ todo[1][1] \in Files /\ disk'[todo[1][1]] = todo[1][2]
        /\ \A f \in Files \ {todo[1][1]} : disk'[f] = disk[f]
        /\ UNCHANGED <<input, runs, run, at, last>>
    BY <1>3, WriteEffect DEF Planned, Types, TodoType
  <2>2. "wrap" \in Files BY DEF Files
  <2>3. at \notin {"prove"} \cup Retries BY <2>1 DEF WrapWritten
  <2>4. CASE at \in {"groth16", "finish"}
    <3>1. todo[1][1] # "wrap" BY <2>1, <2>4 DEF WrapWritten
    <3>2. disk'["wrap"] = disk["wrap"] BY <2>1, <2>2, <3>1
    <3>3. ASSUME NEW i \in DOMAIN todo' PROVE todo'[i][1] # "wrap"
      <4>1. i \in 1 .. Len(todo') /\ i + 1 \in DOMAIN todo BY <2>1
      <4> QED BY <4>1, <2>1, <2>4 DEF WrapWritten
    <3> QED BY <2>1, <2>4, <3>2, <3>3 DEF WrapWritten, Whole, Retries
  <2>5. CASE at = "ensure" /\ run # None /\ run.kind \in Retries
    <3>1. /\ Len(todo) \in {1, 2} /\ todo[Len(todo)][1] = "wrap" /\ todo[Len(todo)][2] \notin Marked
      BY <2>1, <2>5 DEF WrapWritten
    <3>2. CASE Len(todo) = 1
      <4>1. todo' = << >> BY <2>1, <3>2
      <4>2. disk'["wrap"] \notin Marked BY <2>1, <3>1, <3>2
      <4> QED BY <2>1, <2>3, <2>5, <4>1, <4>2 DEF WrapWritten, Whole, Marked, Retries
    <3>3. CASE Len(todo) = 2
      <4>1. Len(todo') = 1 /\ todo'[1] = todo[2] BY <2>1, <3>3
      <4> QED BY <2>1, <2>3, <2>5, <3>1, <3>3, <4>1 DEF WrapWritten, Retries
    <3> QED BY <3>1, <3>2, <3>3
  <2>6. CASE at \notin {"groth16", "finish"} /\ ~(at = "ensure" /\ run # None /\ run.kind \in Retries)
    BY <2>1, <2>3, <2>6 DEF WrapWritten
  <2> QED BY <2>4, <2>5, <2>6
<1>4. CASE Stops BY <1>4 DEF Stops, WrapWritten, Retries
<1>5. CASE Execute
  <2>1. at = "prove" /\ at' = "finish" /\ run' = run /\ run \in Arguments /\ run.bundle \in Proofs
    BY <1>5 DEF Execute, Ready, Types, RunType, Arguments
  <2>2. run.kind \notin Retries BY <1>5 DEF Execute, Retries
  <2>3. PICK x \in {<< >>, Put("fixture_core", run.bundle)} : todo' = Put("public_values", run.bundle) \o x
    BY <1>5 DEF Execute
  <2> DEFINE S == {"public_values", "fixture_core"}
  <2>4. /\ "public_values" \in S \cap Files /\ run.bundle \in Contents("public_values")
        /\ "fixture_core" \in S \cap Files /\ run.bundle \in Contents("fixture_core")
    BY <2>1 DEF Files, BuildFiles, Keys, Contents
  <2>5. Within(Put("public_values", run.bundle), S) BY <2>4, PutWithin
  <2>6. Within(x, S)
    <3>1. Within(Put("fixture_core", run.bundle), S) BY <2>4, PutWithin
    <3>2. Within(<< >>, S) BY EmptyPlanned DEF Within
    <3> QED BY <3>1, <3>2
  <2>7. Within(todo', S) BY ONLY <2>3, <2>5, <2>6, JoinWithin
  <2>8. \A i \in DOMAIN todo' : todo'[i][1] # "wrap" BY <2>7 DEF Within, Planned
  <2> QED BY <2>1, <2>2, <2>8 DEF WrapWritten, Retries
<1>6. CASE ProveInput
  <2>1. /\ at = "prove" /\ at' = "finish" /\ run' = run /\ run.kind \in Plain
        /\ todo' = Publish(run.bundle)
    BY <1>6 DEF ProveInput, Ready
  <2>2. run.bundle \in Proofs /\ run.bundle.via \in Plain \cup Retries
    BY <2>1 DEF Types, RunType, Arguments, Kinded
  <2>3. \A i \in DOMAIN todo' : todo'[i][1] # "wrap" BY <2>1, <2>2, PublishShape DEF Planned
  <2> QED BY <2>1, <2>3 DEF WrapWritten, Retries, Plain
<1>7. CASE ShrinkWrap
  <2>1. Whole("compressed") /\ at' = "ensure" /\ todo' = Put("wrap", disk["compressed"])
    BY <1>7 DEF ShrinkWrap
  <2>2. disk["compressed"] \in Proofs BY <2>1, LoadedProof
  <2>3. "wrap" \in Files /\ disk["compressed"] \in Contents("wrap")
    BY <2>2 DEF Files, BuildFiles, Keys, Contents
  <2>4. Len(todo') = 2 /\ todo'[2] = <<"wrap", disk["compressed"]>> BY <2>1, <2>3, PutShape
  <2>5. disk["compressed"] \notin Marked BY <2>1 DEF Whole, Marked
  <2> QED BY <2>1, <2>4, <2>5 DEF WrapWritten, Retries
<1>8. CASE LoadWrap
  BY <1>8 DEF LoadWrap, Ready, Whole, WrapWritten, Retries
<1>9. CASE EnsureBuildDir
  <2>1. at = "ensure" /\ todo = << >> /\ at' = "groth16" /\ UNCHANGED <<disk, runs, run>>
    BY <1>9 DEF EnsureBuildDir, Ready
  <2>2. run # None /\ run.kind \in Retries => Whole("wrap") BY <2>1 DEF WrapWritten
  <2>3. runs \in 0 .. MaxRuns BY DEF Types, Counters
  <2>4. Within(todo', BuildFiles)
    <3>1. Within(<< >>, BuildFiles) BY EmptyPlanned DEF Within
    <3> QED BY <1>9, <2>3, <3>1, BuildPlanned DEF EnsureBuildDir, BuildPlan
  <2>5. "wrap" \notin BuildFiles BY DEF BuildFiles, Keys
  <2>6. \A i \in DOMAIN todo' : todo'[i][1] # "wrap" BY <2>4, <2>5 DEF Within, Planned
  <2> QED BY <2>1, <2>2, <2>6 DEF WrapWritten, Whole, Retries
<1>10. CASE Groth16
  <2>1. at' = "finish" /\ Whole("wrap") /\ UNCHANGED <<disk, run>> BY <1>10 DEF Groth16
  <2>2. \A i \in DOMAIN todo' : todo'[i][1] # "wrap" BY <1>10, MadeProof, PublishShape DEF Planned
  <2> QED BY <2>1, <2>2 DEF WrapWritten, Whole, Retries
<1> QED BY <1>1, <1>2, <1>3, <1>4, <1>5, <1>6, <1>7, <1>8, <1>9, <1>10, StepKinds
-----------------------------------------------------------------------------
(* A run that starts to publish has the highest number yet.                *)
LEMMA PublishStart ==
  ASSUME NEW p \in Proofs, p.via \in {"groth16"} \cup Retries, p.no = runs,
         UNCHANGED <<disk, runs>>, todo' = Publish(p), Earlier("groth16"), Earlier("fixture_groth16")
  PROVE  Publishing(p, 0)'
<1>1. p.via \in Plain \cup Retries BY DEF Plain
<1>2. Len(Publish(p)) = Length(p) /\ Length(p) \in {6, 8} BY <1>1, PublishShape DEF Length
<1>3. Left(p, 0)' BY <1>2 DEF Left
<1>4. p \notin Marked BY MarkAssumption DEF Marked
<1>5. Earlier("groth16")' /\ Earlier("fixture_groth16")' BY DEF Earlier, Whole
<1> QED BY <1>2, <1>3, <1>4, <1>5 DEF Publishing

(* One more write of it.                                                   *)
LEMMA PublishOn ==
  ASSUME Types, Write, FixtureVouchesForKey, NEW p \in Proofs, NEW n \in 0 .. 8, Publishing(p, n)
  PROVE  n + 1 \in 0 .. 8 /\ Publishing(p, n + 1)' /\ FixtureVouchesForKey'
         /\ \A f \in Described : disk'[f] \in {disk[f], Torn, p}
<1> DEFINE w == Publish(p)[n + 1]
<1>1. /\ Len(todo) \in Nat \ {0} /\ Len(todo') = Len(todo) - 1
      /\ \A i \in 1 .. Len(todo') : todo'[i] = todo[i + 1]
      /\ todo[1][1] \in Files /\ disk'[todo[1][1]] = todo[1][2]
      /\ \A f \in Files \ {todo[1][1]} : disk'[f] = disk[f]
      /\ UNCHANGED <<input, runs, run, at, last>>
  BY WriteEffect
<1>2. /\ p.via \in {"groth16"} \cup Retries /\ p.no = runs /\ p \notin Marked
      /\ Length(p) \in {6, 8} /\ Left(p, n)
  BY DEF Publishing, Length
<1>3. n + 1 \in 0 .. Length(p) /\ n + 1 \in 0 .. 8 /\ todo[1] = w BY <1>1, <1>2 DEF Left
<1>4. Left(p, n + 1)'
  <2>1. Len(todo') = Length(p) - (n + 1) BY <1>1, <1>2 DEF Left
  <2>2. ASSUME NEW i \in 1 .. Len(todo') PROVE todo'[i] = Publish(p)[(n + 1) + i]
    <3>1. i + 1 \in 1 .. Len(todo) /\ n + (i + 1) = (n + 1) + i BY <1>1
    <3>2. todo[i + 1] = Publish(p)[n + (i + 1)] BY <3>1, <1>2 DEF Left
    <3> QED BY <3>1, <3>2, <1>1
  <2> QED BY <2>1, <2>2, <1>3 DEF Left
<1>5. "groth16" \in Files /\ "fixture_groth16" \in Files /\ "checked_vk" \in Files BY DEF Files
<1>6. p.via \in Plain \cup Retries /\ "groth16" \notin Retries BY <1>2 DEF Plain, Retries
<1>7. p.via = "groth16" => Length(p) = 6 BY <1>6 DEF Length
<1>8. p.via \in Retries => Length(p) = 8 BY DEF Length
<1>9. /\ Publish(p)[1][1] = "public_values" /\ Publish(p)[2][1] = "public_values"
      /\ Publish(p)[3] = <<"groth16", Torn>> /\ Publish(p)[4] = <<"groth16", p>>
  BY <1>2, <1>6, PublishShape
<1>10. p.via = "groth16" =>
         Publish(p)[5] = <<"fixture_groth16", Torn>> /\ Publish(p)[6] = <<"fixture_groth16", p>>
  BY <1>6, PublishShape
<1>11. p.via \in Retries =>
         /\ Publish(p)[5] = <<"checked_vk", Torn>> /\ Publish(p)[6] = <<"checked_vk", p.key>>
         /\ Publish(p)[7] = <<"fixture_groth16", Torn>> /\ Publish(p)[8] = <<"fixture_groth16", p>>
  BY <1>6, PublishShape
<1> HIDE DEF w
<1>12. /\ n <= 2 => Earlier("groth16")
       /\ n = 3 => disk["groth16"] = Torn
       /\ n >= 4 => disk["groth16"] = p
       /\ n < Length(p) => Earlier("fixture_groth16")
       /\ p.via \in Retries /\ n >= 6 => disk["checked_vk"] = p.key
  BY DEF Publishing
(* The three files after the write.                                        *)
<1>13. /\ disk'["groth16"] = IF n = 2 THEN Torn ELSE IF n = 3 THEN p ELSE disk["groth16"]
       /\ disk'["fixture_groth16"] = IF n = Length(p) - 2 THEN Torn
                                     ELSE IF n = Length(p) - 1 THEN p ELSE disk["fixture_groth16"]
       /\ disk'["checked_vk"] = IF p.via \in Retries /\ n = 4 THEN Torn
                                ELSE IF p.via \in Retries /\ n = 5 THEN p.key ELSE disk["checked_vk"]
  <2>1. todo[1] = Publish(p)[n + 1] BY <1>3 DEF w
  <2>2. CASE n = 0 BY <2>1, <2>2, <1>1, <1>2, <1>5, <1>9
  <2>3. CASE n = 1 BY <2>1, <2>3, <1>1, <1>2, <1>5, <1>9
  <2>4. CASE n = 2 BY <2>1, <2>4, <1>1, <1>2, <1>5, <1>9
  <2>5. CASE n = 3 BY <2>1, <2>5, <1>1, <1>2, <1>5, <1>9
  <2>6. CASE n \in 4 .. 5 /\ p.via = "groth16"
    BY <2>1, <2>6, <1>1, <1>5, <1>6, <1>7, <1>10
  <2>7. CASE n \in 4 .. 7 /\ p.via \in Retries
    <3>1. n = 4 \/ n = 5 \/ n = 6 \/ n = 7 BY <2>7
    <3> QED BY <2>1, <2>7, <3>1, <1>1, <1>5, <1>8, <1>11
  <2>8. n \in 0 .. 7 /\ (p.via = "groth16" => n <= 5) BY <1>3, <1>7
  <2>9. n = 0 \/ n = 1 \/ n = 2 \/ n = 3 \/ n \in 4 .. 7 BY <2>8
  <2> QED BY <2>2, <2>3, <2>4, <2>5, <2>6, <2>7, <2>8, <2>9, <1>2
<1>14. Torn \in Marked /\ (\A f \in Files : disk'[f] = Torn => Earlier(f)') BY DEF Marked, Earlier, Whole
<1>15. \A f \in Files : disk'[f] = disk[f] /\ Earlier(f) => Earlier(f)' BY <1>1 DEF Earlier, Whole
<1>16. Publishing(p, n + 1)'
  <2>1. n + 1 <= 2 => Earlier("groth16")' BY <1>12, <1>13, <1>15, <1>5
  <2>2. n + 1 = 3 => disk'["groth16"] = Torn BY <1>13
  <2>3. n + 1 >= 4 => disk'["groth16"] = p BY <1>12, <1>13
  <2>4. n + 1 < Length(p) => Earlier("fixture_groth16")' BY <1>2, <1>12, <1>13, <1>14, <1>15, <1>5
  <2>5. n + 1 = Length(p) => disk'["fixture_groth16"] = p BY <1>2, <1>13
  <2>6. p.via \in Retries /\ n + 1 >= 6 => disk'["checked_vk"] = p.key BY <1>12, <1>13
  <2>7. p.no = runs' BY <1>1, <1>2
  <2> QED BY <2>1, <2>2, <2>3, <2>4, <2>5, <2>6, <2>7, <1>2, <1>4 DEF Publishing
<1>17. FixtureVouchesForKey'
  <2>1. CASE n <= 1
    <3>1. disk'["groth16"] = disk["groth16"] /\ disk'["fixture_groth16"] = disk["fixture_groth16"]
          /\ disk'["checked_vk"] = disk["checked_vk"]
      BY <2>1, <1>2, <1>13
    <3> QED BY <3>1 DEF FixtureVouchesForKey, Vouched, Whole
  <2>2. CASE n = 2
    BY <2>2, <1>13 DEF FixtureVouchesForKey, Vouched, Whole
  <2>3. CASE n >= 3 /\ n + 1 < Length(p)
    <3>1. disk'["groth16"] = p /\ Earlier("fixture_groth16")' BY <2>3, <1>16 DEF Publishing
    <3>2. p.no = runs' /\ runs' \in Nat BY <1>1, <1>2 DEF Types, Counters
    <3> QED BY <3>1, <3>2 DEF FixtureVouchesForKey, Vouched, Earlier
  <2>4. CASE n >= 3 /\ n + 1 = Length(p)
    <3>1. disk'["groth16"] = p BY <2>4, <1>16 DEF Publishing
    <3>2. p.via \in Retries => disk'["checked_vk"] = p.key BY <2>4, <1>8, <1>16 DEF Publishing
    <3> QED BY <3>1, <3>2 DEF FixtureVouchesForKey
  <2> QED BY <2>1, <2>2, <2>3, <2>4, <1>2, <1>3
<1>18. \A f \in Described : disk'[f] \in {disk[f], Torn, p} BY <1>13 DEF Described
<1> QED BY <1>3, <1>16, <1>17, <1>18

LEMMA PublishedStep == ASSUME Types, Kinded, WrapWritten, Published, Next PROVE Published'
<1> DEFINE Guarded == Described \cup {"checked_vk"}
<1>1. Known /\ FixtureVouchesForKey /\ runs \in Nat BY DEF Published, Types, Counters
<1>2. /\ at \in {"prove", "ensure", "groth16"} \cup Retries =>
           Earlier("groth16") /\ Earlier("fixture_groth16") /\ Quiet
      /\ at = "finish" => Quiet \/ \E p \in Proofs : \E n \in 0 .. 8 : Publishing(p, n)
  BY DEF Published
(* The steps that leave the files alone.                                   *)
<1>3. UNCHANGED disk => FixtureVouchesForKey' BY <1>1 DEF FixtureVouchesForKey, Vouched, Whole
<1>4. UNCHANGED <<disk, runs>> => Known' BY <1>1 DEF Known, Whole
<1>5. UNCHANGED <<disk, runs>> =>
        \A f \in Files : Earlier(f) => Earlier(f)'
  BY DEF Earlier, Whole
<1>6. "groth16" \in Files /\ "fixture_groth16" \in Files /\ Guarded \subseteq Files
      /\ "groth16" \in Described /\ "fixture_groth16" \in Described
  BY DEF Files, Described
<1>7. CASE NewInput
  <2>1. UNCHANGED <<disk, runs, at, todo>> BY <1>7 DEF NewInput
  <2>2. Quiet => Quiet' BY <2>1 DEF Quiet
  <2>3. ASSUME NEW p \in Proofs, NEW n \in 0 .. 8, Publishing(p, n) PROVE Publishing(p, n)'
    BY <2>1, <2>3 DEF Publishing, Left, Earlier, Whole
  <2> QED BY <2>1, <2>2, <2>3, <1>2, <1>3, <1>4, <1>5, <1>6 DEF Published
<1>8. ASSUME NEW kind \in Kinds, NEW dev \in BOOLEAN, Start(kind, dev) PROVE Published'
  <2>1. disk' = disk /\ runs' = runs + 1 /\ todo' = << >>
    BY <1>8 DEF Start, Types, RunType
  <2>2. at' # "finish" BY <1>8 DEF Start, Kinds, Plain, Retries
  <2>3. Quiet' BY <2>1 DEF Quiet
  <2>4. \A f \in Described : Whole(f)' => Whole(f) /\ disk[f].no <= runs
    BY <2>1, <1>1 DEF Known, Whole
  <2>5. \A f \in Described : Whole(f) => disk[f] \in Proofs
    <3>1. \A f \in Described : f \in Files /\ Contents(f) = Proofs
      BY DEF Described, Files, BuildFiles, Keys, Contents
    <3> QED BY <3>1 DEF Types, DiskType, Whole, Marked
  <2>6. \A f \in Described : Whole(f)' => disk'[f].no \in Nat /\ disk'[f].no < runs'
    BY <2>1, <2>4, <2>5, <1>1, BoundAssumption DEF Proofs
  <2>7. Known' /\ Earlier("groth16")' /\ Earlier("fixture_groth16")'
    BY <2>1, <2>6, <1>1 DEF Known, Earlier, Described, Whole
  <2> QED BY <2>1, <2>2, <2>3, <2>7, <1>3 DEF Published
<1>9. CASE Write
  <2>1. /\ Len(todo) \in Nat \ {0} /\ Len(todo') = Len(todo) - 1
        /\ \A i \in 1 .. Len(todo') : todo'[i] = todo[i + 1]
        /\ todo \in Seq(Files \X Content) /\ todo' \in Seq(Files \X Content)
        /\ todo[1][1] \in Files /\ disk'[todo[1][1]] = todo[1][2]
        /\ \A f \in Files \ {todo[1][1]} : disk'[f] = disk[f]
        /\ UNCHANGED <<input, runs, run, at, last>>
    BY <1>9, WriteEffect DEF Planned, Types, TodoType
  <2>2. todo # << >> BY <1>9 DEF Write
  <2>3. at \in Stages /\ at \notin {"idle", "verify"} BY <2>2 DEF Types, RunType
  <2>4. CASE Quiet
    <3>1. todo[1][1] \notin Guarded BY <2>1, <2>4 DEF Quiet
    <3>2. \A f \in Guarded : disk'[f] = disk[f] BY <2>1, <3>1, <1>6
    <3>3. ASSUME NEW i \in DOMAIN todo' PROVE todo'[i][1] \notin Guarded
      <4>1. i \in 1 .. Len(todo') /\ i + 1 \in DOMAIN todo BY <2>1
      <4> QED BY <4>1, <2>1, <2>4 DEF Quiet
    <3>4. Quiet' BY <3>3 DEF Quiet
    <3>5. Known' /\ FixtureVouchesForKey'
      BY <3>2, <2>1, <1>1 DEF Known, FixtureVouchesForKey, Vouched, Whole, Described
    <3>6. \A f \in Described : Earlier(f) => Earlier(f)' BY <3>2, <2>1 DEF Earlier, Whole
    <3> QED BY <3>4, <3>5, <3>6, <2>1, <1>2, <1>6 DEF Published
  <2>5. CASE ~Quiet
    <3>1. at = "finish" BY <2>3, <2>5, <1>2 DEF Stages
    <3>2. PICK p \in Proofs, n \in 0 .. 8 : Publishing(p, n) BY <3>1, <2>5, <1>2
    <3>3. n + 1 \in 0 .. 8 /\ Publishing(p, n + 1)' /\ FixtureVouchesForKey'
          /\ \A f \in Described : disk'[f] \in {disk[f], Torn, p}
      BY <3>2, <1>1, <1>9, PublishOn
    <3>4. Known'
      <4>1. p.no = runs BY <3>2 DEF Publishing
      <4> QED BY <4>1, <3>3, <2>1, <1>1 DEF Known, Whole
    <3> QED BY <3>1, <3>3, <3>4, <2>1 DEF Published, Retries
  <2> QED BY <2>4, <2>5
<1>10. CASE Stops
  BY <1>10, <1>3, <1>4 DEF Stops, Published, Retries
<1>11. CASE Execute
  <2>1. at = "prove" /\ at' = "finish" /\ UNCHANGED <<disk, runs, run>> /\ run.bundle \in Proofs
    BY <1>11 DEF Execute, Ready, Types, RunType, Arguments
  <2>2. PICK x \in {<< >>, Put("fixture_core", run.bundle)} : todo' = Put("public_values", run.bundle) \o x
    BY <1>11 DEF Execute
  <2> DEFINE S == {"public_values", "fixture_core"}
  <2>3. /\ "public_values" \in S \cap Files /\ run.bundle \in Contents("public_values")
        /\ "fixture_core" \in S \cap Files /\ run.bundle \in Contents("fixture_core")
    BY <2>1 DEF Files, BuildFiles, Keys, Contents
  <2>4. Within(Put("public_values", run.bundle), S) BY <2>3, PutWithin
  <2>5. Within(x, S)
    <3>1. Within(Put("fixture_core", run.bundle), S) BY <2>3, PutWithin
    <3>2. Within(<< >>, S) BY EmptyPlanned DEF Within
    <3> QED BY <3>1, <3>2
  <2>6. Within(todo', S) BY ONLY <2>2, <2>4, <2>5, JoinWithin
  <2>7. Quiet' BY <2>6 DEF Within, Planned, Quiet, Described
  <2> QED BY <2>1, <2>7, <1>3, <1>4 DEF Published, Retries
<1>12. CASE ProveInput
  <2>1. /\ at = "prove" /\ at' = "finish" /\ UNCHANGED <<disk, runs, run>> /\ run.kind \in Plain
        /\ todo' = Publish(run.bundle)
    BY <1>12 DEF ProveInput, Ready
  <2>2. /\ run.bundle \in Proofs /\ run.bundle.via = run.kind /\ run.bundle.no = runs
        /\ run.bundle.via \in Plain \cup Retries
    BY <2>1 DEF Types, RunType, Arguments, Kinded
  <2>3. CASE run.kind \in {"core", "compressed"}
    <3>1. Quiet' BY <2>1, <2>2, <2>3, PublishShape DEF Planned, Quiet
    <3> QED BY <3>1, <2>1, <1>3, <1>4 DEF Published, Retries
  <2>4. CASE run.kind = "groth16"
    <3>1. \E p \in Proofs : Publishing(p, 0)'
      <4>1. PICK p \in Proofs : p = run.bundle BY <2>2
      <4>2. p.via \in {"groth16"} \cup Retries /\ p.no = runs /\ todo' = Publish(p)
        BY <4>1, <2>1, <2>2, <2>4
      <4>3. Publishing(p, 0)' BY <4>2, <2>1, <1>2, PublishStart
      <4> QED BY <4>3
    <3>2. 0 \in 0 .. 8 OBVIOUS
    <3> QED BY <3>1, <3>2, <2>1, <1>3, <1>4 DEF Published, Retries
  <2> QED BY <2>1, <2>3, <2>4 DEF Plain
<1>13. CASE ShrinkWrap
  <2>1. /\ at = "from_compressed" /\ at' = "ensure" /\ UNCHANGED <<disk, runs>>
        /\ Whole("compressed") /\ todo' = Put("wrap", disk["compressed"])
    BY <1>13 DEF ShrinkWrap, Ready
  <2>2. disk["compressed"] \in Proofs BY <2>1, LoadedProof
  <2>3. "wrap" \in {"wrap"} \cap Files /\ disk["compressed"] \in Contents("wrap")
    BY <2>2 DEF Files, BuildFiles, Keys, Contents
  <2>4. Within(todo', {"wrap"}) BY <2>1, <2>3, PutWithin
  <2>5. Quiet' BY <2>4 DEF Within, Planned, Quiet, Described
  <2>6. Earlier("groth16")' /\ Earlier("fixture_groth16")' BY <2>1, <1>2, <1>5, <1>6 DEF Retries
  <2> QED BY <2>1, <2>5, <2>6, <1>3, <1>4 DEF Published
<1>14. CASE LoadWrap
  <2>1. at = "from_wrap" /\ at' = "ensure" /\ UNCHANGED <<disk, runs, todo>>
    BY <1>14 DEF LoadWrap, Ready
  <2>2. Quiet' BY <2>1, <1>2 DEF Quiet, Retries
  <2>3. Earlier("groth16")' /\ Earlier("fixture_groth16")' BY <2>1, <1>2, <1>5, <1>6 DEF Retries
  <2> QED BY <2>1, <2>2, <2>3, <1>3, <1>4 DEF Published
<1>15. CASE EnsureBuildDir
  <2>1. at = "ensure" /\ at' = "groth16" /\ UNCHANGED <<disk, runs>>
    BY <1>15 DEF EnsureBuildDir, Ready
  <2>2. runs \in 0 .. MaxRuns BY DEF Types, Counters
  <2>3. Within(todo', BuildFiles)
    <3>1. Within(<< >>, BuildFiles) BY EmptyPlanned DEF Within
    <3> QED BY <1>15, <2>2, <3>1, BuildPlanned DEF EnsureBuildDir, BuildPlan
  <2>4. \A f \in BuildFiles : f \notin Guarded BY DEF BuildFiles, Keys, Described
  <2>5. Quiet' BY <2>3, <2>4 DEF Within, Planned, Quiet
  <2>6. Earlier("groth16")' /\ Earlier("fixture_groth16")' BY <2>1, <1>2, <1>5, <1>6
  <2> QED BY <2>1, <2>5, <2>6, <1>3, <1>4 DEF Published
<1>16. CASE Groth16
  <2>1. at = "groth16" /\ at' = "finish" /\ UNCHANGED <<disk, runs, run>>
    BY <1>16 DEF Groth16, Ready
  <2>2. PICK p \in Proofs : p.via \in Retries /\ p.no = runs /\ todo' = Publish(p)
    BY <1>16, MadeProof
  <2>3. Publishing(p, 0)' BY <2>1, <2>2, <1>2, PublishStart
  <2>4. 0 \in 0 .. 8 OBVIOUS
  <2> QED BY <2>1, <2>3, <2>4, <1>3, <1>4 DEF Published, Retries
<1> QED BY <1>7, <1>8, <1>9, <1>10, <1>11, <1>12, <1>13, <1>14, <1>15, <1>16, StepKinds
-----------------------------------------------------------------------------
(* The writes of a build: each file is truncated, then filled.             *)
LEMMA BuildShape ==
  ASSUME NEW k \in 0 .. MaxRuns
  PROVE  /\ Len(BuildPlan(k)) = 10
         /\ BuildPlan(k)[1] = <<"constraints", Torn>> /\ BuildPlan(k)[2] = <<"constraints", k>>
         /\ BuildPlan(k)[3] = <<"witness", Torn>> /\ BuildPlan(k)[4] = <<"witness", k>>
         /\ BuildPlan(k)[5] = <<"circuit", Torn>> /\ BuildPlan(k)[6] = <<"circuit", k>>
         /\ BuildPlan(k)[7] = <<"vk", Torn>> /\ BuildPlan(k)[8] = <<"vk", k>>
         /\ BuildPlan(k)[9] = <<"pk", Torn>> /\ BuildPlan(k)[10] = <<"pk", k>>
BY DEF BuildPlan, Put

(* A build that starts finds no proving key.                               *)
LEMMA BuildStart ==
  ASSUME Types, Together, EnsureBuildDir
  PROVE  \/ todo' = << >> /\ (run.dev => disk["pk"] # None)
         \/ run.dev /\ Building(0)'
<1>1. UNCHANGED <<disk, runs, run>> /\ runs \in 0 .. MaxRuns BY DEF EnsureBuildDir, Types, Counters
<1>2. CASE run.dev /\ ~Complete
  <2>1. disk["pk"] = None
    BY <1>2, MarkAssumption DEF Together, Complete, BuildFiles, Keys, Whole
  <2>2. todo' = BuildPlan(runs) /\ Len(todo') = 10
    BY <1>1, <1>2, BuildShape DEF EnsureBuildDir, BuildPlan
  <2>3. Building(0)' BY <1>1, <2>1, <2>2 DEF Building
  <2> QED BY <1>2, <2>3
<1>3. CASE ~(run.dev /\ ~Complete)
  <2>1. todo' = << >> BY <1>3 DEF EnsureBuildDir
  <2> QED BY <1>3, <2>1 DEF Complete, BuildFiles, Keys
<1> QED BY <1>2, <1>3

(* One more write of it.                                                   *)
LEMMA BuildOn ==
  ASSUME Types, Together, Write, NEW n \in 0 .. 9, Building(n)
  PROVE  /\ Together'
         /\ \/ n = 9 /\ todo' = << >> /\ disk'["pk"] # None
            \/ n + 1 \in 0 .. 9 /\ Building(n + 1)'
<1>1. /\ Len(todo) \in Nat \ {0} /\ Len(todo') = Len(todo) - 1
      /\ \A i \in 1 .. Len(todo') : todo'[i] = todo[i + 1]
      /\ disk'[todo[1][1]] = todo[1][2]
      /\ \A f \in Files \ {todo[1][1]} : disk'[f] = disk[f]
      /\ UNCHANGED <<input, runs, run, at, last>> /\ Planned(todo')
  BY WriteEffect
<1>2. BuildFiles \subseteq Files /\ BuildFiles = {"constraints", "witness", "circuit", "vk", "pk"}
  BY DEF Files, BuildFiles, Keys
<1>3. runs \in 0 .. MaxRuns /\ runs \notin Marked /\ Torn # None
  BY MarkAssumption DEF Types, Counters, Marked
<1>4. todo[1] = BuildPlan(runs)[n + 1] BY <1>1 DEF Building
<1>5. Len(todo') = 10 - (n + 1) /\ \A i \in 1 .. Len(todo') : todo'[i] = BuildPlan(runs')[(n + 1) + i]
  <2>1. ASSUME NEW i \in 1 .. Len(todo') PROVE todo'[i] = BuildPlan(runs)[(n + 1) + i]
    <3>1. i + 1 \in 1 .. Len(todo) /\ n + (i + 1) = (n + 1) + i BY <1>1
    <3>2. todo[i + 1] = BuildPlan(runs)[n + (i + 1)] BY <3>1 DEF Building
    <3> QED BY <3>1, <3>2, <1>1
  <2> QED BY <2>1, <1>1 DEF Building
<1> DEFINE F(i) == IF i <= 1 THEN "constraints" ELSE IF i <= 3 THEN "witness"
                   ELSE IF i <= 5 THEN "circuit" ELSE IF i <= 7 THEN "vk" ELSE "pk"
<1>6. todo[1][1] = F(n) /\ todo[1][2] = IF n \in {0, 2, 4, 6, 8} THEN Torn ELSE runs
  <2>1. n \in {0, 1, 2, 3, 4, 5, 6, 7, 8, 9} OBVIOUS
  <2> QED BY <2>1, <1>3, <1>4, BuildShape
<1>7. \A f \in BuildFiles :
        disk'[f] = IF f # F(n) THEN disk[f] ELSE IF n \in {0, 2, 4, 6, 8} THEN Torn ELSE runs
  BY <1>1, <1>2, <1>6
<1> HIDE DEF F
<1>8. /\ disk["pk"] = IF n <= 8 THEN None ELSE Torn
      /\ n >= 1 => disk["constraints"] # None
      /\ n >= 3 => disk["witness"] # None
      /\ n >= 6 => disk["circuit"] = runs
      /\ n >= 8 => disk["vk"] = runs
  BY DEF Building
<1>9. /\ disk'["pk"] = IF n <= 7 THEN None ELSE IF n = 8 THEN Torn ELSE runs
      /\ disk'["constraints"] # None
      /\ n >= 2 => disk'["witness"] # None
      /\ n >= 5 => disk'["circuit"] = runs
      /\ n >= 7 => disk'["vk"] = runs
  <2>1. runs # None BY <1>3 DEF Marked
  <2> QED BY <1>2, <1>3, <1>7, <1>8, <2>1 DEF F
<1>10. Together' BY <1>1, <1>3, <1>9 DEF Together, Whole, Marked
<1>11. CASE n = 9
  <2>1. Len(todo') = 0 BY <1>5, <1>11
  <2>2. todo' = << >> BY <1>1, <2>1 DEF Planned
  <2> QED BY <1>3, <1>9, <1>10, <1>11, <2>2 DEF Marked
<1>12. CASE n <= 8
  <2>1. n + 1 \in 0 .. 9 BY <1>12
  <2>2. Building(n + 1)' BY <1>1, <1>5, <1>9, <1>12 DEF Building
  <2> QED BY <1>10, <2>1, <2>2
<1> QED BY <1>11, <1>12

LEMMA BuiltStep == ASSUME Types, Kinded, WrapWritten, Built, Next PROVE Built'
<1>1. Together /\ (at # "groth16" => Elsewhere) BY DEF Built
<1>2. BuildFiles \subseteq Files /\ "pk" \in BuildFiles
      /\ \A f \in {"public_values", "fixture_core", "wrap"} : f \in Files /\ f \notin BuildFiles
  BY DEF Files, BuildFiles, Keys
<1>3. UNCHANGED disk => Together' BY <1>1 DEF Together, Whole
<1>4. CASE NewInput
  BY <1>4 DEF NewInput, Built, Together, Elsewhere, Building, Whole
<1>5. ASSUME NEW kind \in Kinds, NEW dev \in BOOLEAN, Start(kind, dev) PROVE Built'
  <2>1. at' # "groth16" /\ todo' = << >> /\ UNCHANGED disk
    BY <1>5 DEF Start, Types, RunType, Kinds, Plain, Retries
  <2> QED BY <2>1, <1>3 DEF Built, Elsewhere
<1>6. CASE Write
  <2>1. /\ Len(todo) \in Nat \ {0} /\ Len(todo') = Len(todo) - 1
        /\ \A i \in 1 .. Len(todo') : todo'[i] = todo[i + 1]
        /\ todo \in Seq(Files \X Content) /\ todo' \in Seq(Files \X Content)
        /\ \A f \in Files \ {todo[1][1]} : disk'[f] = disk[f]
        /\ UNCHANGED <<input, runs, run, at, last>>
    BY <1>6, WriteEffect DEF Planned, Types, TodoType
  <2>2. CASE at # "groth16"
    <3>1. todo[1][1] \notin BuildFiles BY <2>1, <2>2, <1>1 DEF Elsewhere
    <3>2. \A f \in BuildFiles : disk'[f] = disk[f] BY <2>1, <3>1, <1>2
    <3>3. Together' BY <3>2, <1>1 DEF Together, Whole, BuildFiles, Keys
    <3>4. ASSUME NEW i \in DOMAIN todo' PROVE todo'[i][1] \notin BuildFiles
      <4>1. i \in 1 .. Len(todo') /\ i + 1 \in DOMAIN todo BY <2>1
      <4> QED BY <4>1, <2>1, <2>2, <1>1 DEF Elsewhere
    <3> QED BY <2>1, <2>2, <3>3, <3>4 DEF Built, Elsewhere
  <2>3. CASE at = "groth16"
    <3>1. todo # << >> BY <1>6 DEF Write
    <3>2. PICK n \in 0 .. 9 : Building(n) BY <2>3, <3>1 DEF Built
    <3>3. run.dev BY <2>3, <3>1 DEF Built
    <3>4. /\ Together'
          /\ \/ n = 9 /\ todo' = << >> /\ disk'["pk"] # None
             \/ n + 1 \in 0 .. 9 /\ Building(n + 1)'
      BY <1>1, <1>6, <3>2, BuildOn
    <3> QED BY <2>1, <2>3, <3>3, <3>4 DEF Built
  <2> QED BY <2>2, <2>3
<1>7. CASE Stops BY <1>7, <1>3 DEF Stops, Built, Elsewhere
<1>8. CASE Execute
  <2>1. at' = "finish" /\ UNCHANGED disk /\ run.bundle \in Proofs
    BY <1>8 DEF Execute, Ready, Types, RunType, Arguments
  <2>2. PICK x \in {<< >>, Put("fixture_core", run.bundle)} : todo' = Put("public_values", run.bundle) \o x
    BY <1>8 DEF Execute
  <2> DEFINE S == {"public_values", "fixture_core"}
  <2>3. /\ "public_values" \in S \cap Files /\ run.bundle \in Contents("public_values")
        /\ "fixture_core" \in S \cap Files /\ run.bundle \in Contents("fixture_core")
    BY <2>1 DEF Files, BuildFiles, Keys, Contents
  <2>4. Within(Put("public_values", run.bundle), S) BY <2>3, PutWithin
  <2>5. Within(x, S)
    <3>1. Within(Put("fixture_core", run.bundle), S) BY <2>3, PutWithin
    <3>2. Within(<< >>, S) BY EmptyPlanned DEF Within
    <3> QED BY <3>1, <3>2
  <2>6. Within(todo', S) BY ONLY <2>2, <2>4, <2>5, JoinWithin
  <2>7. Elsewhere' BY <2>6, <1>2 DEF Within, Planned, Elsewhere
  <2> QED BY <2>1, <2>7, <1>3 DEF Built
<1>9. CASE ProveInput
  <2>1. /\ at' = "finish" /\ UNCHANGED disk /\ run.kind \in Plain /\ at = "prove"
        /\ todo' = Publish(run.bundle)
    BY <1>9 DEF ProveInput, Ready
  <2>2. run.bundle \in Proofs /\ run.bundle.via \in Plain \cup Retries
    BY <2>1 DEF Types, RunType, Arguments, Kinded
  <2>3. Elsewhere' BY <2>1, <2>2, PublishShape DEF Planned, Elsewhere
  <2> QED BY <2>1, <2>3, <1>3 DEF Built
<1>10. CASE ShrinkWrap
  <2>1. at' = "ensure" /\ UNCHANGED disk /\ Whole("compressed") /\ todo' = Put("wrap", disk["compressed"])
    BY <1>10 DEF ShrinkWrap, Ready
  <2>2. disk["compressed"] \in Proofs BY <2>1, LoadedProof
  <2>3. "wrap" \in {"wrap"} \cap Files /\ disk["compressed"] \in Contents("wrap")
    BY <2>2 DEF Files, BuildFiles, Keys, Contents
  <2>4. Within(todo', {"wrap"}) BY <2>1, <2>3, PutWithin
  <2>5. Elsewhere' BY <2>4, <1>2 DEF Within, Planned, Elsewhere
  <2> QED BY <2>1, <2>5, <1>3 DEF Built
<1>11. CASE LoadWrap
  <2>1. at = "from_wrap" /\ at' = "ensure" /\ UNCHANGED <<disk, todo>>
    BY <1>11 DEF LoadWrap, Ready
  <2>2. Elsewhere' BY <2>1, <1>1 DEF Elsewhere
  <2> QED BY <2>1, <2>2, <1>3 DEF Built
<1>12. CASE EnsureBuildDir
  <2>1. at' = "groth16" /\ UNCHANGED <<disk, run>> BY <1>12 DEF EnsureBuildDir
  <2>2. \/ todo' = << >> /\ (run.dev => disk["pk"] # None)
        \/ run.dev /\ Building(0)'
    BY <1>1, <1>12, BuildStart
  <2>3. 0 \in 0 .. 9 OBVIOUS
  <2> QED BY <2>1, <2>2, <2>3, <1>3 DEF Built
<1>13. CASE Groth16
  <2>1. at' = "finish" /\ UNCHANGED disk BY <1>13 DEF Groth16
  <2>2. Elsewhere' BY <1>13, MadeProof, PublishShape DEF Planned, Elsewhere
  <2> QED BY <2>1, <2>2, <1>3 DEF Built
<1> QED BY <1>4, <1>5, <1>6, <1>7, <1>8, <1>9, <1>10, <1>11, <1>12, <1>13, StepKinds
-----------------------------------------------------------------------------
LEMMA InvariantIInv == Spec => []IInv
<1>1. IInv /\ [Next]_vars => IInv'
  <2> SUFFICES ASSUME IInv, [Next]_vars PROVE IInv' OBVIOUS
  <2>1. CASE Next BY <2>1, TypesStep, KindedStep, WrapStep, PublishedStep, BuiltStep DEF IInv
  <2>2. CASE UNCHANGED vars
    <3> USE <2>2 DEF vars
    <3>1. Types' BY DEF IInv, Types, Counters, DiskType, RunType, TodoType
    <3>2. Kinded' BY DEF IInv, Kinded
    <3>3. WrapWritten' BY DEF IInv, WrapWritten, Whole
    <3>4. Known' /\ FixtureVouchesForKey'
      BY DEF IInv, Published, Known, FixtureVouchesForKey, Vouched, Whole
    <3>5. (Quiet => Quiet') /\ \A f \in Described : Earlier(f) => Earlier(f)'
      BY DEF Quiet, Earlier, Whole
    <3>6. ASSUME NEW p \in Proofs, NEW n \in 0 .. 8, Publishing(p, n) PROVE Publishing(p, n)'
      BY <3>6 DEF Publishing, Left, Earlier, Whole
    <3>7. "groth16" \in Described /\ "fixture_groth16" \in Described BY DEF Described
    <3>8. Published' BY <3>4, <3>5, <3>6, <3>7 DEF IInv, Published
    <3>9. Built' BY DEF IInv, Built, Together, Elsewhere, Building, Whole
    <3> QED BY <3>1, <3>2, <3>3, <3>8, <3>9 DEF IInv
  <2> QED BY <2>1, <2>2
<1> QED BY InitIInv, <1>1, PTL DEF Spec

(* Every file, every planned write and the arguments of the run keep their *)
(* types, whatever is killed.                                              *)
THEOREM HostTypes == Spec => []TypeOK
<1>1. IInv => TypeOK
  <2> SUFFICES ASSUME Types PROVE TypeOK BY DEF IInv
  <2>1. \A i \in DOMAIN todo : todo[i][1] \in Files /\ todo[i][2] \in {Torn} \cup Contents(todo[i][1])
    BY DEF Types, TodoType
  <2>2. None \notin Arguments BY MarkAssumption DEF Arguments
  <2>3. (run = None) = (at = "idle") BY <2>2 DEF Types, RunType
  <2> QED BY <2>1, <2>3 DEF TypeOK, Types, Counters, DiskType, RunType, Marked, Arguments, Stages
<1> QED BY InvariantIInv, <1>1, PTL

(* main.rs saves the wrap bundle before it looks for the Groth16 circuits: *)
(* from there to its end, a retry leaves a bundle that the next can load.  *)
THEOREM WrapStays == Spec => []WrapIsCached
<1>1. IInv => WrapIsCached
  <2> SUFFICES ASSUME WrapWritten, run # None, run.kind \in Retries,
                      Ready("ensure") \/ at \in {"groth16", "finish"}
               PROVE  Whole("wrap")
    BY DEF IInv, WrapIsCached
  <2>1. CASE Ready("ensure")
    <3>1. at = "ensure" /\ todo = << >> /\ Len(todo) = 0 BY <2>1 DEF Ready
    <3> QED BY <3>1 DEF WrapWritten
  <2>2. CASE at \in {"groth16", "finish"} BY <2>2 DEF WrapWritten
  <2> QED BY <2>1, <2>2
<1> QED BY InvariantIInv, <1>1, PTL

(* The order of the writes at the end of main: a fixture that describes    *)
(* the saved bundle was written after the key next to it.                  *)
THEOREM FixtureVouches == Spec => []FixtureVouchesForKey
<1>1. IInv => FixtureVouchesForKey BY DEF IInv, Published
<1> QED BY InvariantIInv, <1>1, PTL

(* The order of the five writes of a development build, and the wrap bundle *)
(* saved before it: a retry that fails of itself had a bundle, or a proving *)
(* key, whose writer was killed; every other kill is made good.             *)
THEOREM RetriesRepeat == Spec => RetriesFailOnlyOnTornFiles
<1> DEFINE Excused == \/ at = run.kind /\ ~Whole(IF at = "from_wrap" THEN "wrap" ELSE "compressed")
                      \/ run.dev /\ disk["pk"] = Torn
           Fails == at # "idle" /\ run.kind \in Retries /\ at' = "idle" /\ last'.result = "failed"
<1>1. ASSUME IInv, Next, Fails PROVE Excused
  <2>1. CASE LoadFails
    <3>1. at \in Retries /\ ~Whole(IF at = "from_wrap" THEN "wrap" ELSE "compressed")
      BY <2>1 DEF LoadFails, Ready, Retries
    <3> QED BY <3>1, <1>1 DEF IInv, Kinded
  <2>2. CASE Groth16Fails
    <3>1. at = "groth16" /\ todo = << >> /\ ~(Usable /\ Whole("wrap"))
      BY <2>2 DEF Groth16Fails, Ready
    <3>2. run # None BY <1>1, MarkAssumption DEF IInv, Types, RunType, Arguments
    <3>3. Whole("wrap") BY <1>1, <3>1, <3>2 DEF IInv, WrapWritten
    <3>4. run.dev /\ ~(\A f \in Keys : Whole(f) /\ disk[f] = disk["vk"])
      BY <3>1, <3>3 DEF Usable
    <3>5. disk["pk"] # None
      <4>1. ASSUME NEW n \in 0 .. 9, Building(n) PROVE FALSE
        <5>1. Len(todo) = 10 - n /\ Len(todo) = 0 BY <3>1, <4>1 DEF Building
        <5> QED BY <5>1
      <4> QED BY <1>1, <3>1, <3>4, <4>1 DEF IInv, Built
    <3>6. Whole("vk") /\ disk["circuit"] = disk["vk"] /\ disk["pk"] \in {Torn, disk["vk"]}
      BY <1>1, <3>5 DEF IInv, Built, Together
    <3>7. disk["pk"] = Torn BY <3>4, <3>6 DEF Keys, Whole
    <3> QED BY <3>4, <3>7
  <2>3. CASE Kill \/ Finish
    <3>1. last'.result # "failed" BY <2>3 DEF Kill, Finish, End
    <3> QED BY <3>1, <1>1
  <2>4. CASE Verify
    <3>1. run.kind = "verify" BY <2>4, <1>1 DEF Verify, Ready, IInv, Kinded
    <3> QED BY <3>1, <1>1 DEF Retries
  <2>5. CASE NewInput \/ Write BY <2>5, <1>1 DEF NewInput, Write
  <2>6. ASSUME NEW kind \in Kinds, NEW dev \in BOOLEAN, Start(kind, dev) PROVE FALSE
    BY <2>6, <1>1 DEF Start
  <2>7. CASE Execute \/ ProveInput \/ ShrinkWrap \/ LoadWrap \/ EnsureBuildDir \/ Groth16
    BY <2>7, <1>1 DEF Execute, ProveInput, ShrinkWrap, LoadWrap, EnsureBuildDir, Groth16
  <2> QED BY <1>1, <2>1, <2>2, <2>3, <2>4, <2>5, <2>6, <2>7 DEF Next
<1>2. IInv /\ [Next]_vars => [Fails => Excused]_vars BY <1>1
<1> QED BY InvariantIInv, <1>2, PTL DEF Spec, RetriesFailOnlyOnTornFiles
=============================================================================
