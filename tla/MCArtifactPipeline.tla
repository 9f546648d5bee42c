------------------------- MODULE MCArtifactPipeline -------------------------
(***************************************************************************)
(* Two commands, one edit and one fault, in any order.  The faults are a   *)
(* deleted file of every kind (a payload, the recorded results, a file     *)
(* only the research pass writes, a summary) and a kill before a step, or  *)
(* after its first writes: the second and the third of the research pass   *)
(* are the contract and the folded scaffold, the 29th of the build is the  *)
(* estimator's results.  A test asks for the summary of the whole          *)
(* repository, of verify.py, or of the comparison.                         *)
(***************************************************************************)
EXTENDS ArtifactPipeline

AllCommands == {"build", "verify", "verify_all", "refresh", "compare", "run_tests", "run_serial"}
SomeTargets == {"repo_verification_summary", "verification_summary", "cain_2026_integration_summary"}
SomeFiles   == {"family_frontier", Results, ContractFile, "cain_2026_integration_summary"}
SomeParts   == {"circuits", "leaf_text", "contract"}
SomeCuts    == {0, 1, 2, 28}
=============================================================================
