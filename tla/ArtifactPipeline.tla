-------------------------- MODULE ArtifactPipeline --------------------------
(***************************************************************************)
(* The commands that generate and check the files of the repository        *)
(* (scripts/refresh_repo.py, verify_all.py, compare_cain_2026.py,          *)
(* run_tests.py, the compiler project's build.py and verify.py), run one   *)
(* at a time over one working tree that keeps whatever an edit of the      *)
(* sources, a deleted file or a command that stopped half-way left in it.  *)
(***************************************************************************)
EXTENDS IntegrityReport

CONSTANTS Commands,                  \* the commands a user runs
          TestTargets,               \* the summaries that tests ask for
          Removable,                 \* files a user may delete
          Editable,                  \* parts of the sources a user may edit
          Cuts,                      \* after how many writes of a step a command may be killed
          MaxRuns, MaxEdits, MaxFaults

ASSUME PipelineAssumption ==
  /\ Commands \subseteq {"build", "verify", "verify_all", "refresh", "compare", "run_tests", "run_serial"}
  /\ TestTargets \subseteq {"repo_verification_summary", "cain_2026_integration_summary", "build_summary",
                            "verification_summary"}
  /\ Removable \subseteq Files /\ Editable \subseteq Parts /\ Cuts \subseteq Nat

VARIABLES todo,             \* the steps left of the running command
          command,          \* the last command, and how it ended
          finished,         \* the step that has just ended
          wedged,           \* did the command start on a tree no refresh can repair?
          refreshes,        \* refreshes since the last edit or fault, up to 2
          tests,            \* progress of the test run
          proofManifest,    \* artifacts/proof_manifest.json: the files it hashes
          manifest,         \* MANIFEST.sha256
          spent             \* runs, edits and faults so far

tree == <<source, qsharp, disk>>
vars == <<source, qsharp, disk, todo, command, finished, wedged, refreshes, tests, proofManifest, manifest, spent>>
-----------------------------------------------------------------------------
ProofListed ==
  (Required \ {"canonical_public_point", "streamed_lookup_tail_leaf", "streamed_lookup_tail_leaf_equivalence",
               "streamed_lookup_tail_leaf_slot_allocation", "streamed_lookup_table_multiplier_resource",
               "module_library", "table_manifests", "logical_resource_ledger", "full_attack_inventory"})
  \cup ToSet(ProjectionOrder)
  \cup {"claim_boundary_matrix", "optimization_frontier_estimates", "verifier_rebuild_summary",
        "lookup_contract_summary", "figures", "verification_summary", "zkp_attestation_input"}

RepositoryFiles == Files \ {"repo_verification_summary"}       \* _skip_manifest_relpath

(* What each builder makes of the files d.                                 *)
Projection(d)         == {Stamp("circuits")} \cup ReadFrom(d, {ContractFile, FoldedScaffold})
DominantCost(d)       == ReadFrom(d, {"resource_projection"})
FoldedSchedule(d)     == {Stamp("circuits")} \cup ReadFrom(d, {ContractFile})
FoldingAudit(d)       == {Stamp("circuits")} \cup ReadFrom(d, {ContractFile})
FoldedProjection(d)   == ReadFrom(d, {"resource_projection"})
LiteratureScenarios(d) ==
  ReadFrom(d, {"dominant_cost_breakdown", "resource_projection", "lookup_folded_projection"})
FrontierEstimates(d)  == ReadFrom(d, {"resource_projection", "lookup_folded_projection"})
ResearchSummary(d) ==
  ReadFrom(d, {"dominant_cost_breakdown", ContractFile, FoldedScaffold, "lookup_signed_fold_summary",
               "lookup_folded_projection", "optimization_frontier_estimates"})
ContractAudit(d) ==
  {Stamp("contract")} \cup ReadFrom(d, {ContractFile, "lookup_signed_fold_summary"})
ClaimBoundary(d)      == ReadFrom(d, {"resource_projection"})
QubitBreakthrough(d)  == Computed(d, Compiled) \cup ReadFrom(d, {"resource_projection"})
LogicalCounts(d)      == ReadFrom(d, {"family_frontier"})
CainTransfer(d)       == ReadFrom(d, {"family_frontier"})
EstimatorTargets(d)   == ReadFrom(d, {Counts})
AttestationInput(d)   == Computed(d, Parts)
Verification(d) ==
  {<<"verdict", IF AllChecksPass(d) THEN "pass" ELSE "fail">>} \cup ReadFrom(d, Required)
CainSummary(d)        == ReadFrom(d, {"family_frontier", "cain_exact_transfer"})
RepositorySummary(d) ==
  {Stamp("circuits")} \cup ReadFrom(d, Summarised \cup {"lookup_contract_summary"})

(* What a step that writes the file f next makes of them.                  *)
Content(d, f) ==
  CASE f \in ToSet(ProjectionOrder)             -> Projection(d)
    [] f = "verifier_rebuild_summary"           -> {Stamp("circuits")}
    [] f = "dominant_cost_breakdown"            -> DominantCost(d)
    [] f = ContractFile                         -> {Stamp("contract")}
    [] f = FoldedScaffold                       -> FoldedSchedule(d)
    [] f = "lookup_signed_fold_summary"         -> FoldingAudit(d)
    [] f = "lookup_folded_projection"           -> FoldedProjection(d)
    [] f = "literature_projection_scenarios"    -> LiteratureScenarios(d)
    [] f = "optimization_frontier_estimates"    -> FrontierEstimates(d)
    [] f = "research_pass_summary"              -> ResearchSummary(d)
    [] f = "lookup_contract_summary"            -> ContractAudit(d)
    [] f = "claim_boundary_matrix"              -> ClaimBoundary(d)
    [] f = "qubit_breakthrough_analysis"        -> QubitBreakthrough(d)
    [] f = Counts                               -> LogicalCounts(d)
    [] f = "cain_exact_transfer"                -> CainTransfer(d)
    [] f = Targets                              -> EstimatorTargets(d)
    [] f = Results                              -> EstimatorResults(d)
    [] f = "zkp_attestation_input"              -> AttestationInput(d)
    [] f = "verification_summary"               -> Verification(d)
    [] f = "repo_verification_summary"          -> RepositorySummary(d)
    [] f = "cain_2026_integration_summary"      -> CainSummary(d)
    [] f = "figures"                            -> ReadFrom(d, Drawn)
    [] OTHER                                    -> Computed(d, PartsOf(f))

Rewrite(d, f) == [d EXCEPT ![f] = Whole(Content(d, f))]
Current(f)    == disk[f] = Whole(Content(disk, f))

(* The files after the writes of s, in order.                              *)
WriteAll(d, s) ==
  LET after[n \in 0 .. Len(s)] == IF n = 0 THEN d ELSE Rewrite(after[n - 1], s[n])
  IN  after[Len(s)]
-----------------------------------------------------------------------------
(* The steps of the commands: what each writes, and in which order, and    *)
(* what it reads and cannot do without.                                    *)
Writes == [
  projection |-> ProjectionOrder,  rebuild_summary |-> <<"verifier_rebuild_summary">>,
  research |-> ResearchOrder,      audits |-> AuditOrder,
  build |-> BuildOrder,            cain_transfer |-> <<"cain_exact_transfer">>,
  zkp_inputs |-> <<"zkp_attestation_input">>,
  verified |-> <<"verification_summary">>,
  repo_summary |-> <<"repo_verification_summary">>,
  cain_summary |-> <<"cain_2026_integration_summary">>,
  shown |-> <<>>,                  figures |-> <<"figures">>]

Reads(step) ==
  CASE step = "projection"   -> {ContractFile, FoldedScaffold}
    [] step \in {"research", "build"} -> {"resource_projection"}
    [] step = "audits"       -> {ContractFile, "resource_projection"}
    [] step = "verified"     -> Required \cup {ContractFile, "resource_projection"}
    [] step = "repo_summary" -> Summarised
    [] step = "cain_summary" -> {"family_frontier", "cain_exact_transfer"}
    [] step = "shown"        -> {"cain_2026_integration_summary"}
    [] step = "figures"      -> Drawn
    [] OTHER                 -> {}

(* The build needs the recorded results when there is no estimator: their  *)
(* families filter the counts, and they are the results.                   *)
Unreadable(d, step) ==
  \/ \E f \in Reads(step) : ~IsWhole(d, f)
  \/ step = "build" /\ d[ContractFile].is = "torn"
ResultsMissing(d) == ~qsharp /\ ~IsWhole(d, Results)
RaisesOnUnreadableOnly(d, step) == Unreadable(d, step)
Raises(d, step)   == Unreadable(d, step) \/ (step = "build" /\ ResultsMissing(d))

WrittenBefore(d, step) ==      \* by a step that raises
  CASE Unreadable(d, step)         -> <<>>
    [] d[Results].is = "torn"      -> Payloads
    [] OTHER                       -> Payloads \o <<Counts, Targets>>

Build     == <<"build", "cain_transfer", "zkp_inputs">>
Verify    == <<"load">>
VerifyAllOnTheOldProjection == <<"audits">> \o Build \o Verify \o <<"repo_summary">>
VerifyAll == <<"projection", "audits">> \o Build \o Verify \o <<"repo_summary">>
ManifestsSwapped == <<"projection", "rebuild_summary", "research">> \o Build \o Verify \o VerifyAll
                      \o <<"cain_summary", "figures", "repository_manifest", "proof_manifest">>
ResearchFirst == <<"research", "projection", "rebuild_summary">> \o Build \o Verify \o VerifyAll
                   \o <<"cain_summary", "figures", "proof_manifest", "repository_manifest">>
Refresh   == <<"projection", "rebuild_summary", "research">> \o Build \o Verify \o VerifyAll
               \o <<"cain_summary", "figures", "proof_manifest", "repository_manifest">>
Compare   == <<"compare">>
RunTests  == Refresh \o Compare \o <<"tests">>

Steps(c) ==
  CASE c = "build"      -> Build
    [] c = "verify"     -> Verify
    [] c = "verify_all" -> VerifyAll
    [] c = "refresh"    -> Refresh
    [] c = "compare"    -> Compare
    [] c = "run_tests"  -> RunTests         \* run_tests.py with several jobs
    [] c = "run_serial" -> <<"tests">>      \* run_tests.py --jobs 1

Producer(target) ==            \* tests/support.py
  CASE target = "repo_verification_summary"     -> VerifyAll
    [] target = "cain_2026_integration_summary" -> Compare
    [] target = "build_summary"                 -> Build
    [] target = "verification_summary"          -> Verify

Running(step) == todo # <<>> /\ Head(todo) = step

(* A tree on which write_resource_projection or the build raises, whatever *)
(* the refresh has rewritten before.                                       *)
Wedged == ~IsWhole(disk, ContractFile) \/ ~IsWhole(disk, FoldedScaffold) \/ ResultsMissing(disk)
-----------------------------------------------------------------------------
NoTests == [prepared |-> {}, research |-> 0, hashed |-> FALSE]
Recorded(files) == [f \in files |-> disk[f]]

Released ==
  WriteAll([f \in Files |-> IF f = Results THEN Whole({Stamp(p) : p \in Compiled}) ELSE Absent],
           <<ContractFile, FoldedScaffold>> \o ProjectionOrder \o ResearchOrder \o BuildOrder
             \o <<"verifier_rebuild_summary", "cain_exact_transfer", "zkp_attestation_input",
                  "verification_summary">>
             \o AuditOrder \o <<"repo_verification_summary", "cain_2026_integration_summary", "figures">>)

Init ==
  /\ source = [p \in Parts |-> 1]
  /\ qsharp \in BOOLEAN
  /\ disk = Released
  /\ todo = <<>>
  /\ command = [name |-> "none", outcome |-> "none"]
  /\ finished = "none"
  /\ wedged = FALSE
  /\ refreshes = 2
  /\ tests = NoTests
  /\ proofManifest = Recorded(ProofListed)
  /\ manifest = [files |-> Recorded(RepositoryFiles), proof |-> proofManifest]
  /\ spent = [runs |-> 0, edits |-> 0, faults |-> 0]

Start(c) ==
  /\ todo = <<>>
  /\ spent.runs < MaxRuns
  /\ todo' = Steps(c)
  /\ command' = [name |-> c, outcome |-> "running"]
  /\ finished' = "none"
  /\ wedged' = Wedged
  /\ spent' = [spent EXCEPT !.runs = @ + 1]
  /\ UNCHANGED <<tree, refreshes, tests, proofManifest, manifest>>

Finish ==
  /\ todo' = Tail(todo)
  /\ finished' = Head(todo)
  /\ command' = IF Len(todo) = 1 THEN [command EXCEPT !.outcome = "completed"] ELSE command

(* A step that writes files, or raises before it has written all.  In a    *)
(* test only the test fails.                                               *)
Perform ==
  /\ todo # <<>>
  /\ Head(todo) \in DOMAIN Writes
  /\ ~Raises(disk, Head(todo))
  /\ disk' = WriteAll(disk, Writes[Head(todo)])
  /\ Finish
  /\ UNCHANGED <<source, qsharp, wedged, refreshes, tests, proofManifest, manifest, spent>>

Raise ==
  /\ todo # <<>>
  /\ Head(todo) \in DOMAIN Writes
  /\ Raises(disk, Head(todo))
  /\ disk' = WriteAll(disk, WrittenBefore(disk, Head(todo)))
  /\ IF command.name = "run_serial"
     THEN todo' = <<"tests">> /\ UNCHANGED command
     ELSE todo' = <<>> /\ command' = [command EXCEPT !.outcome = "raised"]
  /\ finished' = "none"
  /\ UNCHANGED <<source, qsharp, wedged, refreshes, tests, proofManifest, manifest, spent>>

(* load_compiler_artifacts: any missing artifact rebuilds them all.        *)
Load ==
  /\ Running("load")
  /\ todo' = (IF \E f \in Required : disk[f].is = "absent"
              THEN <<"build", "cain_transfer", "verified">> ELSE <<"verified">>) \o Tail(todo)
  /\ finished' = "none"
  /\ UNCHANGED <<tree, command, wedged, refreshes, tests, proofManifest, manifest, spent>>

CompareCain ==
  /\ Running("compare")
  /\ todo' = (IF disk["cain_2026_integration_summary"].is = "absent"
              THEN <<"cain_summary", "shown">> ELSE <<"shown">>) \o Tail(todo)
  /\ finished' = "none"
  /\ UNCHANGED <<tree, command, wedged, refreshes, tests, proofManifest, manifest, spent>>

WriteProofManifest ==
  /\ Running("proof_manifest")
  /\ proofManifest' = Recorded(ProofListed)
  /\ Finish
  /\ UNCHANGED <<tree, wedged, refreshes, tests, manifest, spent>>

RepositoryManifest == [files |-> Recorded(RepositoryFiles), proof |-> proofManifest]

WriteRepositoryManifest ==
  /\ Running("repository_manifest")
  /\ manifest' = RepositoryManifest
  /\ refreshes' = IF refreshes = 2 THEN 2 ELSE refreshes + 1
  /\ Finish
  /\ UNCHANGED <<tree, wedged, tests, proofManifest, spent>>
-----------------------------------------------------------------------------
(* The tests: in parallel groups after run_tests.py has refreshed the tree, *)
(* or one after the other.                                                 *)
ReusesNothing(target) == FALSE
Reuses(target) == command.name = "run_tests" /\ disk[target].is # "absent"

(* A test that asks for a target (once; a process remembers it).           *)
EnsureTarget(target) ==
  /\ Running("tests")
  /\ target \notin tests.prepared
  /\ tests' = [tests EXCEPT !.prepared = @ \cup {target}]
  /\ todo' = IF Reuses(target) THEN todo ELSE Producer(target) \o todo
  /\ finished' = "none"
  /\ UNCHANGED <<tree, command, wedged, refreshes, proofManifest, manifest, spent>>

(* setUpClass of test_research_artifacts runs the research pass; in        *)
(* parallel, every file is truncated, then written, while the tests of the *)
(* other groups go on.                                                     *)
ResearchDone == 2 * Len(ResearchOrder)

SerialResearchTest ==
  /\ Running("tests")
  /\ command.name = "run_serial"
  /\ tests.research = 0
  /\ tests' = [tests EXCEPT !.research = ResearchDone]
  /\ todo' = <<"research">> \o todo
  /\ finished' = "none"
  /\ UNCHANGED <<tree, command, wedged, refreshes, proofManifest, manifest, spent>>

ParallelResearchTest ==
  /\ Running("tests")
  /\ command.name = "run_tests"
  /\ tests.research < ResearchDone
  /\ tests.research = 0 => ~Raises(disk, "research")
  /\ LET f == ResearchOrder[tests.research \div 2 + 1]
     IN  disk' = IF tests.research % 2 = 0 THEN [disk EXCEPT ![f] = Torn] ELSE Rewrite(disk, f)
  /\ tests' = [tests EXCEPT !.research = @ + 1]
  /\ finished' = "none"
  /\ UNCHANGED <<source, qsharp, todo, command, wedged, refreshes, proofManifest, manifest, spent>>

ManifestTest ==
  /\ Running("tests")
  /\ ~tests.hashed
  /\ tests' = [tests EXCEPT !.hashed = TRUE]
  /\ manifest' = RepositoryManifest
  /\ finished' = "none"
  /\ UNCHANGED <<tree, todo, command, wedged, refreshes, proofManifest, spent>>

EndTests ==
  /\ Running("tests")
  /\ tests.research \in {0, ResearchDone}
  /\ tests' = NoTests
  /\ Finish
  /\ UNCHANGED <<tree, wedged, refreshes, proofManifest, manifest, spent>>
-----------------------------------------------------------------------------
(* The command is killed after n writes of a step, perhaps inside the next. *)
Crash(n, torn) ==
  /\ todo # <<>>
  /\ spent.faults < MaxFaults
  /\ IF Head(todo) \in DOMAIN Writes /\ ~Raises(disk, Head(todo))
     THEN /\ n < Len(Writes[Head(todo)])
          /\ LET done == WriteAll(disk, SubSeq(Writes[Head(todo)], 1, n))
             IN  disk' = IF torn THEN [done EXCEPT ![Writes[Head(todo)][n + 1]] = Torn] ELSE done
     ELSE n = 0 /\ ~torn /\ UNCHANGED disk
  /\ todo' = <<>>
  /\ command' = [command EXCEPT !.outcome = "crashed"]
  /\ finished' = "none"
  /\ refreshes' = 0
  /\ tests' = NoTests
  /\ spent' = [spent EXCEPT !.faults = @ + 1]
  /\ UNCHANGED <<source, qsharp, wedged, proofManifest, manifest>>

Edit(p) ==
  /\ todo = <<>>
  /\ spent.edits < MaxEdits
  /\ source' = [source EXCEPT ![p] = @ + 1]
  /\ command' = [command EXCEPT !.outcome = "none"]
  /\ finished' = "none"
  /\ refreshes' = 0
  /\ spent' = [spent EXCEPT !.edits = @ + 1]
  /\ UNCHANGED <<qsharp, disk, todo, wedged, tests, proofManifest, manifest>>

Delete(f) ==
  /\ todo = <<>>
  /\ spent.faults < MaxFaults
  /\ IsWhole(disk, f)
  /\ disk' = [disk EXCEPT ![f] = Absent]
  /\ command' = [command EXCEPT !.outcome = "none"]
  /\ finished' = "none"
  /\ refreshes' = 0
  /\ spent' = [spent EXCEPT !.faults = @ + 1]
  /\ UNCHANGED <<source, qsharp, todo, wedged, tests, proofManifest, manifest>>

Next ==
  \/ \E c \in Commands : Start(c)
  \/ Perform \/ Raise \/ Load \/ CompareCain \/ WriteProofManifest \/ WriteRepositoryManifest
  \/ \E t \in TestTargets : EnsureTarget(t)
  \/ SerialResearchTest \/ ParallelResearchTest \/ ManifestTest \/ EndTests
  \/ \E n \in Cuts, torn \in BOOLEAN : Crash(n, torn)
  \/ \E p \in Editable : Edit(p)
  \/ \E f \in Removable : Delete(f)

Spec == Init /\ [][Next]_vars
-----------------------------------------------------------------------------
(* When verify.py has just written a summary in which every check passes,  *)
(* every artifact it loads is what the code makes from the lookup contract *)
(* and the projection on disk: also after a build that was killed, a       *)
(* deleted file, or an edit that was not built.  Except the four leaf      *)
(* files, which no check compares, and results recorded by the estimator   *)
(* where it cannot be run (they are compared with themselves).             *)
Unchecked == {"lookup_fed_leaf", "lookup_fed_leaf_equivalence", "streamed_lookup_tail_leaf",
              "streamed_lookup_tail_leaf_equivalence"} \cup (IF qsharp THEN {} ELSE {Results})
VerdictVouches ==
  finished = "verified" /\ <<"verdict", "pass">> \in disk["verification_summary"].from
    => \A f \in Required \ Unchecked : Current(f)

(* A refresh that is not interrupted raises exactly when it starts on a    *)
(* tree without a readable lookup contract or folded scaffold (its first   *)
(* step reads what only a later one writes), or without recorded results   *)
(* where there is no estimator.  Whatever else is stale, torn or missing,  *)
(* it repairs.                                                             *)
RefreshFailsIffWedged ==
  command.name = "refresh" /\ command.outcome \in {"completed", "raised"}
    => (command.outcome = "raised" <=> wedged)

(* After one refresh since the last edit or fault every file is what its   *)
(* writer would make now, but for what the research pass derived from the  *)
(* projection before it wrote the new contract, and the figures of it;     *)
(* after two, every file is.                                               *)
FromProjection == {"dominant_cost_breakdown", "lookup_folded_projection", "literature_projection_scenarios",
                   "optimization_frontier_estimates", "research_pass_summary"}
RefreshSettles ==
  todo = <<>> =>
    /\ refreshes >= 1 => \A f \in Files \ (FromProjection \cup {"figures"}) : Current(f)
    /\ refreshes = 2  => \A f \in Files : Current(f)

(* When a refresh ends, both manifests record the files on disk, and the   *)
(* repository's also the proof manifest; when a parallel test run ends     *)
(* they still do, but for the files the research test rewrites.            *)
ManifestsRecordTheDisk ==
  command.outcome = "completed" /\ command.name \in {"refresh", "run_tests"} =>
    LET rewritten == IF command.name = "run_tests" THEN ToSet(ResearchOrder) ELSE {}
    IN  /\ \A f \in ProofListed \ rewritten : proofManifest[f] = disk[f]
        /\ \A f \in RepositoryFiles \ rewritten : manifest.files[f] = disk[f]
        /\ manifest.proof = proofManifest

(* While test groups run in parallel no test starts a command, and no file *)
(* changes but those of the research test and the repository manifest.     *)
ParallelTestsRebuildNothing ==
  [][Running("tests") /\ command.name = "run_tests" =>
       /\ todo' \in {todo, <<>>}
       /\ \A f \in Files \ ToSet(ResearchOrder) : disk'[f] = disk[f]]_vars

(* Recorded estimator results that are lost or torn are never made again   *)
(* without the estimator.                                                  *)
LostResultsStayLost == [][ResultsMissing(disk) => ResultsMissing(disk)']_vars
=============================================================================
