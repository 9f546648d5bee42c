--------------------------- MODULE AttestationHost ---------------------------
(***************************************************************************)
(* The attestation host program (script/src/bin/main.rs, wrap_only.rs): a  *)
(* series of runs over one output directory and one directory of Groth16   *)
(* development artifacts.  A file is written by truncating it and filling  *)
(* it; a run may be killed at any point, which leaves a file torn.         *)
(*                                                                         *)
(* A proof is the input it attests, the run that made it, the way it was   *)
(* made, and the Groth16 key it verifies under.  Plonk runs are plain      *)
(* Groth16 runs over files of their own and are left out.                  *)
(***************************************************************************)
EXTENDS Naturals, Sequences

CONSTANTS
  None,      \* no such file
  Torn,      \* a file whose writer was killed
  MaxInput,  \* bound: versions of the attestation input
  MaxRuns    \* bound: runs of the program

ASSUME BoundAssumption == MaxInput \in Nat \ {0} /\ MaxRuns \in Nat

VARIABLES
  input,  \* the version in zkp_attestation_input.json
  disk,   \* content of the files
  runs,   \* runs started
  run,    \* arguments of the run in progress, and the bundle it has loaded
  at,     \* what the run does once todo is empty
  todo,   \* what is still to be written, in order
  last    \* how the last run ended

vars == <<input, disk, runs, run, at, todo, last>>

Retries == {"from_compressed", "from_wrap"}
Plain == {"core", "compressed", "groth16"}
Kinds == {"execute", "verify"} \cup Plain \cup Retries
Release == 0  \* the installed key; a development build makes a key of its own

Keys == {"circuit", "vk", "pk"}
BuildFiles == {"constraints", "witness"} \cup Keys
Files == BuildFiles \cup {"public_values", "compressed", "wrap", "groth16", "checked_vk",
           "fixture_core", "fixture_compressed", "fixture_groth16"}

Proofs == [input : 1 .. MaxInput, no : 1 .. MaxRuns, via : Kinds, key : 0 .. MaxRuns]
Contents(f) == IF f \in BuildFiles \cup {"checked_vk"} THEN 0 .. MaxRuns ELSE Proofs

ASSUME MarkAssumption ==
  /\ None # Torn /\ None \notin 0 .. MaxRuns /\ Torn \notin 0 .. MaxRuns
  /\ None \notin Proofs /\ Torn \notin Proofs
  /\ None \notin [kind : Kinds, dev : BOOLEAN, bundle : Proofs]

Whole(file) == disk[file] \notin {None, Torn}

Init ==
  /\ input = 1 /\ disk = [f \in Files |-> None]
  /\ runs = 0 /\ run = None /\ at = "idle" /\ todo = << >> /\ last = None
-----------------------------------------------------------------------------
Put(file, content) == << <<file, Torn>>, <<file, content>> >>

(* The system of a run, for the names of its bundle and its fixture.       *)
Fixture(kind) ==
  IF kind \in {"core", "execute"} THEN "fixture_core"
  ELSE IF kind = "compressed" THEN "fixture_compressed" ELSE "fixture_groth16"
Bundle(kind) == IF kind = "compressed" THEN "compressed" ELSE "groth16"

(* Fault: the verifier key is copied before the bundle is saved. *)
PublishKeyFirst(proof) ==
  Put("public_values", proof)
    \o (IF proof.via \in Retries THEN Put("checked_vk", proof.key) ELSE << >>)
    \o (IF proof.via = "core" THEN << >> ELSE Put(Bundle(proof.via), proof))
    \o Put(Fixture(proof.via), proof)

(* The last part of main: public values, bundle, verifier key, fixture.    *)
Publish(proof) ==
  Put("public_values", proof)
    \o (IF proof.via = "core" THEN << >> ELSE Put(Bundle(proof.via), proof))
    \o (IF proof.via \in Retries THEN Put("checked_vk", proof.key) ELSE << >>)
    \o Put(Fixture(proof.via), proof)
-----------------------------------------------------------------------------
NewInput == input < MaxInput /\ input' = input + 1 /\ UNCHANGED <<disk, runs, run, at, todo, last>>

(* The arguments, the environment (SP1_CIRCUIT_MODE) and the input, which  *)
(* the runs that start from a bundle do not read.  What SP1 itself does in  *)
(* development mode is left out.                                           *)
Start(kind, dev) ==
  /\ dev => kind \in {"verify"} \cup Retries
  /\ at = "idle" /\ runs < MaxRuns /\ runs' = runs + 1
  /\ run' = [kind |-> kind, dev |-> dev,
             bundle |-> [input |-> input, no |-> runs', via |-> kind, key |-> Release]]
  /\ at' = IF kind \in {"execute"} \cup Plain THEN "prove" ELSE kind
  /\ UNCHANGED <<input, disk, todo, last>>

Ready(where) == at = where /\ todo = << >>
End(result) ==
  /\ at' = "idle" /\ run' = None /\ todo' = << >>
  /\ last' = [kind |-> run.kind, result |-> result]

Write ==
  /\ todo # << >> /\ todo' = Tail(todo)
  /\ disk' = [disk EXCEPT ![Head(todo)[1]] = Head(todo)[2]]
  /\ UNCHANGED <<input, runs, run, at, last>>
Finish == Ready("finish") /\ End("done") /\ UNCHANGED <<input, disk, runs>>
Kill == at # "idle" /\ End("killed") /\ UNCHANGED <<input, disk, runs>>

(* --execute; --write-core-fixture is optional.                            *)
Execute ==
  /\ Ready("prove") /\ run.kind = "execute" /\ at' = "finish"
  /\ \E fixture \in {<< >>, Put("fixture_core", run.bundle)} :
       todo' = Put("public_values", run.bundle) \o fixture
  /\ UNCHANGED <<input, disk, runs, run, last>>
(* --prove from the input; the proof is verified before it is published.   *)
ProveInput ==
  /\ Ready("prove") /\ run.kind \in Plain
  /\ at' = "finish" /\ todo' = Publish(run.bundle)
  /\ UNCHANGED <<input, disk, runs, run, last>>

(* Fault: the wrap bundle is left for later. *)
ShrinkWrapUnsaved ==
  /\ Ready("from_compressed") /\ Whole("compressed")
  /\ run' = [run EXCEPT !.bundle = disk["compressed"]] /\ at' = "ensure"
  /\ UNCHANGED <<input, disk, runs, todo, last>>
(* Fault: a bundle that does not load is used all the same. *)
ShrinkWrapUnchecked ==
  /\ Ready("from_compressed") /\ disk["compressed"] # None
  /\ run' = [run EXCEPT !.bundle = disk["compressed"]] /\ at' = "ensure"
  /\ todo' = Put("wrap", disk["compressed"])
  /\ UNCHANGED <<input, disk, runs, last>>
(* groth16_from_compressed_bundle as far as the saving of the wrap bundle. *)
ShrinkWrap ==
  /\ Ready("from_compressed") /\ Whole("compressed")
  /\ run' = [run EXCEPT !.bundle = disk["compressed"]] /\ at' = "ensure"
  /\ todo' = Put("wrap", disk["compressed"])
  /\ UNCHANGED <<input, disk, runs, last>>
LoadWrap ==
  /\ Ready("from_wrap") /\ Whole("wrap")
  /\ run' = [run EXCEPT !.bundle = disk["wrap"]] /\ at' = "ensure"
  /\ UNCHANGED <<input, disk, runs, todo, last>>
LoadFails ==
  /\ \/ Ready("from_compressed") /\ ~Whole("compressed")
     \/ Ready("from_wrap") /\ ~Whole("wrap")
  /\ End("failed") /\ UNCHANGED <<input, disk, runs>>

(* Fault: one of the files is not looked for. *)
CompleteButKey == \A f \in BuildFiles \ {"pk"} : disk[f] # None
(* groth16_artifacts_complete looks whether the files are there.           *)
Complete == \A f \in BuildFiles : disk[f] # None
EnsureBuildDir ==
  /\ Ready("ensure") /\ at' = "groth16"
  /\ todo' = IF run.dev /\ ~Complete
             THEN Put("constraints", runs) \o Put("witness", runs) \o Put("circuit", runs)
                    \o Put("vk", runs) \o Put("pk", runs)
             ELSE << >>
  /\ UNCHANGED <<input, disk, runs, run, last>>

(* groth16_from_wrap_bundle from the proof on.  The verifier key is        *)
(* looked up again through the wrap bundle on disk.                        *)
Usable == run.dev => \A f \in Keys : Whole(f) /\ disk[f] = disk["vk"]
Groth16 ==
  /\ Ready("groth16") /\ Usable /\ Whole("wrap") /\ at' = "finish"
  /\ todo' = Publish([input |-> run.bundle.input, no |-> runs, via |-> run.kind,
                      key |-> IF run.dev THEN disk["vk"] ELSE Release])
  /\ UNCHANGED <<input, disk, runs, run, last>>
Groth16Fails ==
  /\ Ready("groth16") /\ ~(Usable /\ Whole("wrap"))
  /\ End("failed") /\ UNCHANGED <<input, disk, runs>>

(* --verify-proof-input: a key next to the bundle is taken first, then the *)
(* development artifacts, then the installed ones.                         *)
VerifierKey ==
  IF disk["checked_vk"] # None THEN disk["checked_vk"]
  ELSE IF run.dev THEN disk["vk"] ELSE Release
Verify ==
  /\ Ready("verify")
  /\ IF Whole("groth16") /\ VerifierKey = disk["groth16"].key THEN End("done") ELSE End("failed")
  /\ UNCHANGED <<input, disk, runs>>

Next ==
  \/ NewInput
  \/ \E kind \in Kinds, dev \in BOOLEAN : Start(kind, dev)
  \/ Write \/ Finish \/ Kill
  \/ Execute \/ ProveInput
  \/ ShrinkWrap \/ LoadWrap \/ LoadFails \/ EnsureBuildDir \/ Groth16 \/ Groth16Fails
  \/ Verify

Spec == Init /\ [][Next]_vars
-----------------------------------------------------------------------------
TypeOK ==
  /\ input \in 1 .. MaxInput /\ runs \in 0 .. MaxRuns
  /\ DOMAIN disk = Files /\ \A f \in Files : disk[f] \in {None, Torn} \cup Contents(f)
  /\ run = None \/ run \in [kind : Kinds, dev : BOOLEAN, bundle : Proofs]
  /\ (run = None) = (at = "idle") /\ (at = "idle" => todo = << >>)
  /\ at \in {"idle", "verify", "prove", "ensure", "groth16", "finish"} \cup Retries
  /\ \A i \in DOMAIN todo : todo[i][1] \in Files /\ todo[i][2] \in {Torn} \cup Contents(todo[i][1])

(* "Once shrink_wrap has completed" its result is on disk: whatever ends a  *)
(* Groth16 retry from there on, the next one can start from the wrap bundle.*)
WrapIsCached == run # None /\ run.kind \in Retries /\ (Ready("ensure") \/ at \in {"groth16", "finish"})
                  => Whole("wrap")

(* The fixture of a Groth16 retry is its last file: while it describes the  *)
(* saved bundle, the key next to the bundle is the one the bundle needs,    *)
(* whatever runs were killed since.                                         *)
Vouched == Whole("fixture_groth16") /\ disk["fixture_groth16"] = disk["groth16"]
FixtureVouchesForKey ==
  Vouched /\ disk["groth16"].via \in Retries => disk["checked_vk"] = disk["groth16"].key

(* A retry that fails of itself was given a bundle that was never finished, *)
(* or development artifacts whose last file, the proving key, is torn: a    *)
(* build killed anywhere else is repeated.                                  *)
RetriesFailOnlyOnTornFiles ==
  [][at # "idle" /\ run.kind \in Retries /\ at' = "idle" /\ last'.result = "failed" =>
       \/ at = run.kind /\ ~Whole(IF at = "from_wrap" THEN "wrap" ELSE "compressed")
       \/ run.dev /\ disk["pk"] = Torn]_vars

(* compiler_verification_project/README.md: "Finished proof bundles can     *)
(* also be re-verified cheaply with --verify-proof-input" (here, with the   *)
(* installed circuits, which plain Groth16 runs use as well).               *)
FinishedBundlesVerify ==
  [][at = "verify" /\ ~run.dev /\ Vouched /\ disk["checked_vk"] # Torn /\ at' = "idle" => last'.result # "failed"]_vars
=============================================================================
