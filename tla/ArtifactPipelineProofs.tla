----------------------- MODULE ArtifactPipelineProofs -----------------------
(***************************************************************************)
(* What the commands keep, for every set of commands, tests, deletable     *)
(* files, edits and kills, and without a bound on them: lost results stay  *)
(* lost, a passing verdict vouches, a refresh raises exactly on a wedged   *)
(* tree, the manifests record the disk, parallel tests rebuild nothing,    *)
(* and two refreshes settle every file.                                    *)
(***************************************************************************)
EXTENDS ArtifactPipeline, ArithmeticLemmas

(***************************************************************************)
(* The files, and the orders in which they are written.                    *)
(***************************************************************************)
(* The files of a build up to the subcircuit witnesses.                    *)
PayloadFiles ==
  {"canonical_public_point", "full_raw32_oracle", "exact_leaf_slot_allocation", "lookup_fed_leaf",
   "lookup_fed_leaf_equivalence", "lookup_fed_leaf_slot_allocation", "streamed_lookup_tail_leaf",
   "streamed_lookup_tail_leaf_equivalence", "streamed_lookup_tail_leaf_slot_allocation",
   "arithmetic_lowerings", "streamed_lookup_table_multiplier_resource", "module_library",
   "primitive_multiplier_library", "phase_shell_lowerings", "phase_shell_families", "table_manifests",
   "lookup_lowerings", "generated_block_inventories", "ft_ir_compositions", "whole_oracle_recount",
   "family_frontier", "standard_qrom_lookup_assessment", "logical_resource_ledger",
   "qubit_breakthrough_analysis", "full_attack_inventory", "subcircuit_equivalence"}

(* What the build writes first.                                            *)
LEMMA PayloadsAre ==
  Payloads \in Seq(PayloadFiles) /\ ToSet(Payloads) = PayloadFiles
<1>1. Payloads \in Seq(PayloadFiles)
  <2>1. Payloads = [i \in 1 .. 26 |-> Payloads[i]] BY DEF Payloads
  <2> QED BY <2>1 DEF Payloads, PayloadFiles
<1>2. ToSet(Payloads) = PayloadFiles BY DEF ToSet, Payloads, PayloadFiles
<1> QED BY <1>1, <1>2

(* The elements of two sequences, one after the other.                     *)
LEMMA ToSetConcat ==
  ASSUME NEW S, NEW s \in Seq(S), NEW t \in Seq(S)
  PROVE  ToSet(s \o t) = ToSet(s) \cup ToSet(t)
<1>1. \A i \in 1 .. Len(s) : (s \o t)[i] = s[i] OBVIOUS
<1>2. \A i \in 1 .. Len(t) : (s \o t)[Len(s) + i] = t[i] OBVIOUS
<1>3. Len(s \o t) = Len(s) + Len(t) OBVIOUS
<1>4. \A i \in 1 .. Len(s) + Len(t) : i \in 1 .. Len(s) \/ \E k \in 1 .. Len(t) : i = Len(s) + k
  <2> SUFFICES ASSUME NEW i \in 1 .. Len(s) + Len(t), i \notin 1 .. Len(s)
               PROVE  \E k \in 1 .. Len(t) : i = Len(s) + k
    OBVIOUS
  <2>1. i - Len(s) \in 1 .. Len(t) /\ i = Len(s) + (i - Len(s)) OBVIOUS
  <2> QED BY <2>1
<1>5. DOMAIN s = 1 .. Len(s) /\ DOMAIN t = 1 .. Len(t) /\ DOMAIN (s \o t) = 1 .. Len(s) + Len(t)
  BY <1>3
<1>6. Len(s) \in Nat /\ Len(t) \in Nat OBVIOUS
<1>7. \A i \in 1 .. Len(s) : i \in 1 .. Len(s) + Len(t) BY <1>6
<1>8. \A i \in 1 .. Len(t) : Len(s) + i \in 1 .. Len(s) + Len(t) BY <1>6
<1> DEFINE u == s \o t
<1> HIDE DEF u
<1>9. ToSet(u) = ToSet(s) \cup ToSet(t)
  <2>1. DOMAIN u = 1 .. Len(s) + Len(t) BY <1>5 DEF u
  <2>2. \A i \in 1 .. Len(s) : u[i] = s[i] BY <1>1 DEF u
  <2>3. \A i \in 1 .. Len(t) : u[Len(s) + i] = t[i] BY <1>2 DEF u
  <2>4. ASSUME NEW x \in ToSet(u) PROVE x \in ToSet(s) \cup ToSet(t)
    <3>1. PICK i \in 1 .. Len(s) + Len(t) : x = u[i] BY <2>1 DEF ToSet
    <3> QED BY <3>1, <2>2, <2>3, <1>4, <1>5 DEF ToSet
  <2>5. ASSUME NEW x \in ToSet(s) PROVE x \in ToSet(u)
    BY <2>1, <2>2, <1>5, <1>7 DEF ToSet
  <2>6. ASSUME NEW x \in ToSet(t) PROVE x \in ToSet(u)
    BY <2>1, <2>3, <1>5, <1>8 DEF ToSet
  <2> QED BY <2>4, <2>5, <2>6
<1> QED BY <1>9 DEF u

(* The files each step writes, as sets.                                    *)
LEMMA OrdersAre ==
  /\ ToSet(BuildOrder) = PayloadFiles \cup {Counts, Targets, Results, "build_summary"}
  /\ ToSet(ProjectionOrder) = {"ecdlp_expanded_isa_optimized", "structural_accounting",
                               "backend_model_bundle", "resource_projection"}
  /\ ToSet(AuditOrder) = {"lookup_signed_fold_summary", "lookup_contract_summary", "claim_boundary_matrix"}
  /\ ToSet(ResearchOrder) = {"dominant_cost_breakdown", ContractFile, FoldedScaffold,
                             "lookup_signed_fold_summary", "lookup_folded_projection",
                             "literature_projection_scenarios", "optimization_frontier_estimates",
                             "research_pass_summary"}
  /\ Len(ResearchOrder) = 8
<1>1. ToSet(BuildOrder) = PayloadFiles \cup {Counts, Targets, Results, "build_summary"}
  <2> DEFINE t == <<Counts, Targets, Results, "build_summary">>
             S == PayloadFiles \cup {Counts, Targets, Results, "build_summary"}
  <2>1. t \in Seq(S) OBVIOUS
  <2>2. ToSet(t) = {Counts, Targets, Results, "build_summary"} BY DEF ToSet
  <2>3. Payloads \in Seq(S) BY PayloadsAre
  <2> HIDE DEF t, S
  <2>4. ToSet(Payloads \o t) = ToSet(Payloads) \cup ToSet(t) BY <2>1, <2>3, ToSetConcat
  <2> QED BY <2>2, <2>4, PayloadsAre DEF BuildOrder, t
<1>2. ToSet(ProjectionOrder) = {"ecdlp_expanded_isa_optimized", "structural_accounting",
                               "backend_model_bundle", "resource_projection"}
  BY DEF ToSet, ProjectionOrder
<1>3. ToSet(AuditOrder) = {"lookup_signed_fold_summary", "lookup_contract_summary", "claim_boundary_matrix"}
  BY DEF ToSet, AuditOrder
<1>4. ToSet(ResearchOrder) = {"dominant_cost_breakdown", ContractFile, FoldedScaffold,
                             "lookup_signed_fold_summary", "lookup_folded_projection",
                             "literature_projection_scenarios", "optimization_frontier_estimates",
                             "research_pass_summary"}
  BY DEF ToSet, ResearchOrder
<1>5. Len(ResearchOrder) = 8 BY DEF ResearchOrder
<1> QED BY <1>1, <1>2, <1>3, <1>4, <1>5
-----------------------------------------------------------------------------
(***************************************************************************)
(* A step writes one file after the other.                                 *)
(***************************************************************************)
(* The files after each write of s.                                        *)
Successive(h, d, s) == h[0] = d /\ \A i \in 1 .. Len(s) : h[i] = Rewrite(h[i - 1], s[i])

(* The files after the writes of s are the last of the successive ones.    *)
LEMMA WriteAllIs ==
  ASSUME NEW d, NEW s, Len(s) \in Nat
  PROVE  \E h : Successive(h, d, s) /\ WriteAll(d, s) = h[Len(s)]
<1> DEFINE Writ(n, h) == h = [i \in 0 .. n |-> IF i = 0 THEN d ELSE Rewrite(h[i - 1], s[i])]
           N == Len(s)
           S == {n \in Nat : \E h : Writ(n, h)}
           w == CHOOSE h : Writ(N, h)
<1>1. 0 \in S
  <2>1. Writ(0, [i \in 0 .. 0 |-> d]) OBVIOUS
  <2> QED BY <2>1
<1>2. ASSUME NEW n \in Nat, n \in S PROVE n + 1 \in S
  <2>1. PICK h : Writ(n, h) BY <1>2
  <2> DEFINE g == [i \in 0 .. n + 1 |-> IF i = n + 1 THEN Rewrite(h[n], s[n + 1]) ELSE h[i]]
  <2>2. \A i \in 0 .. n : g[i] = h[i] OBVIOUS
  <2>3. g[n + 1] = Rewrite(h[n], s[n + 1]) OBVIOUS
  <2>4. \A i \in 0 .. n : h[i] = IF i = 0 THEN d ELSE Rewrite(h[i - 1], s[i]) BY <2>1
  <2>5. ASSUME NEW i \in 0 .. n + 1 PROVE g[i] = IF i = 0 THEN d ELSE Rewrite(g[i - 1], s[i])
    <3>1. CASE i = 0
      <4>1. 0 \in 0 .. n OBVIOUS
      <4> QED BY <3>1, <4>1, <2>2, <2>4
    <3>2. CASE i \in 1 .. n
      <4>1. i \in 0 .. n /\ i - 1 \in 0 .. n /\ i # 0 BY <3>2
      <4>2. g[i] = h[i] /\ g[i - 1] = h[i - 1] BY <4>1, <2>2
      <4>3. h[i] = Rewrite(h[i - 1], s[i]) BY <4>1, <2>4
      <4> QED BY <4>1, <4>2, <4>3
    <3>3. CASE i = n + 1
      <4>1. n \in 0 .. n /\ (n + 1) - 1 = n /\ n + 1 # 0 OBVIOUS
      <4>2. g[n] = h[n] BY <4>1, <2>2
      <4> QED BY <3>3, <4>1, <4>2, <2>3
    <3> QED BY <3>1, <3>2, <3>3
  <2>6. g = [i \in 0 .. n + 1 |-> g[i]] OBVIOUS
  <2> HIDE DEF g
  <2>7. Writ(n + 1, g) BY <2>5, <2>6
  <2> QED BY <2>7
<1>3. N \in S
  <2> HIDE DEF S
  <2>1. Nat \subseteq S BY <1>1, <1>2, SetInduction
  <2> QED BY <2>1
<1>4. Writ(N, w) BY <1>3
<1>5. WriteAll(d, s) = w[N] BY DEF WriteAll
<1> HIDE DEF w, N
<1>6. \A i \in 0 .. N : w[i] = IF i = 0 THEN d ELSE Rewrite(w[i - 1], s[i]) BY <1>4
<1>7. N \in Nat BY DEF N
<1>8. 0 \in 0 .. N /\ \A i \in 1 .. N : i \in 0 .. N /\ i # 0 BY <1>7
<1>9. Successive(w, d, s) BY <1>6, <1>8 DEF Successive, N
<1> QED BY <1>5, <1>9 DEF N

(* A write of one file.                                                    *)
LEMMA WriteOne ==
  ASSUME NEW d, NEW f
  PROVE  WriteAll(d, <<f>>) = Rewrite(d, f)
<1> DEFINE s == <<f>>
<1>1. Len(s) = 1 /\ s[1] = f OBVIOUS
<1> HIDE DEF s
<1>2. PICK h : Successive(h, d, s) /\ WriteAll(d, s) = h[Len(s)]
  <2>1. Len(s) \in Nat BY <1>1
  <2> QED BY <2>1, WriteAllIs
<1>3. h[0] = d /\ \A i \in 1 .. 1 : h[i] = Rewrite(h[i - 1], s[i]) BY <1>1, <1>2 DEF Successive
<1>4. h[1] = Rewrite(h[0], s[1]) BY <1>3
<1> QED BY <1>1, <1>2, <1>3, <1>4 DEF s

(* No write.                                                               *)
LEMMA WriteNothing ==
  ASSUME NEW d
  PROVE  WriteAll(d, << >>) = d
<1> DEFINE s == << >>
<1>1. Len(s) = 0 OBVIOUS
<1> HIDE DEF s
<1>2. PICK h : Successive(h, d, s) /\ WriteAll(d, s) = h[Len(s)]
  <2>1. Len(s) \in Nat BY <1>1
  <2> QED BY <2>1, WriteAllIs
<1> QED BY <1>1, <1>2 DEF Successive, s

(* The generated files are there, each whole, absent or torn.              *)
Tree(d) ==
  /\ d = [f \in Files |-> d[f]]
  /\ \A f \in Files : d[f] = [is |-> d[f].is, from |-> d[f].from]

(* A write changes one file.                                               *)
LEMMA RewriteIs ==
  ASSUME NEW d, Tree(d), NEW f
  PROVE  /\ Tree(Rewrite(d, f))
         /\ \A g \in Files : g # f => Rewrite(d, f)[g] = d[g]
         /\ f \in Files => Rewrite(d, f)[f] = Whole(Content(d, f))
<1> DEFINE c == Whole(Content(d, f))
           e == Rewrite(d, f)
<1>1. DOMAIN d = Files BY DEF Tree
<1>2. e = [d EXCEPT ![f] = c] BY DEF Rewrite
<1>3. c = [is |-> c.is, from |-> c.from] BY DEF Whole
<1> HIDE DEF c, e
<1>4. e = [g \in Files |-> IF g = f THEN c ELSE d[g]] BY <1>1, <1>2
<1>5. \A g \in Files : e[g] = IF g = f THEN c ELSE d[g] BY <1>4
<1>6. \A g \in Files : e[g] = [is |-> e[g].is, from |-> e[g].from] BY <1>3, <1>5 DEF Tree
<1>7. e = [g \in Files |-> e[g]] BY <1>4
<1> QED BY <1>5, <1>6, <1>7 DEF Tree, e, c

(* Writing s changes the files of s, which are whole then, and no other.   *)
LEMMA WriteAllKeeps ==
  ASSUME NEW d, Tree(d), NEW S, NEW s \in Seq(S)
  PROVE  /\ Tree(WriteAll(d, s))
         /\ \A f \in Files : f \notin ToSet(s) => WriteAll(d, s)[f] = d[f]
         /\ \A f \in Files : f \in ToSet(s) => WriteAll(d, s)[f].is = "whole"
<1> DEFINE N == Len(s)
<1>1. N \in Nat /\ DOMAIN s = 1 .. N OBVIOUS
<1>2. PICK h : Successive(h, d, s) /\ WriteAll(d, s) = h[N] BY <1>1, WriteAllIs
<1> HIDE DEF N
<1>3. h[0] = d /\ \A i \in 1 .. N : h[i] = Rewrite(h[i - 1], s[i]) BY <1>2 DEF Successive, N
<1> DEFINE Good(i) == /\ Tree(h[i])
                      /\ \A f \in Files : (\A k \in 1 .. i : s[k] # f) => h[i][f] = d[f]
                      /\ \A f \in Files : (\E k \in 1 .. i : s[k] = f) => h[i][f].is = "whole"
           T == {i \in Nat : i <= N => Good(i)}
<1>4. 0 \in T BY <1>3
<1>5. ASSUME NEW i \in Nat, i \in T PROVE i + 1 \in T
  <2> SUFFICES ASSUME i + 1 <= N PROVE Good(i + 1) OBVIOUS
  <2>1. Good(i) /\ i + 1 \in 1 .. N /\ (i + 1) - 1 = i BY <1>1, <1>5
  <2>2. h[i + 1] = Rewrite(h[i], s[i + 1]) BY <2>1, <1>3
  <2>3. /\ Tree(h[i + 1])
        /\ \A g \in Files : g # s[i + 1] => h[i + 1][g] = h[i][g]
        /\ s[i + 1] \in Files => h[i + 1][s[i + 1]] = Whole(Content(h[i], s[i + 1]))
    BY <2>1, <2>2, RewriteIs
  <2>4. ASSUME NEW f \in Files, \A k \in 1 .. i + 1 : s[k] # f PROVE h[i + 1][f] = d[f]
    <3>1. i + 1 \in 1 .. i + 1 /\ \A k \in 1 .. i : k \in 1 .. i + 1 OBVIOUS
    <3> QED BY <2>1, <2>3, <2>4, <3>1
  <2>5. ASSUME NEW f \in Files, NEW k \in 1 .. i + 1, s[k] = f PROVE h[i + 1][f].is = "whole"
    <3>1. CASE s[i + 1] = f BY <2>3, <3>1 DEF Whole
    <3>2. CASE s[i + 1] # f
      <4>1. k \in 1 .. i BY <2>5, <3>2
      <4>2. h[i][f].is = "whole" BY <4>1, <2>1, <2>5
      <4> QED BY <4>2, <3>2, <2>3
    <3> QED BY <3>1, <3>2
  <2> QED BY <2>3, <2>4, <2>5
<1> HIDE DEF T
<1>6. Nat \subseteq T BY <1>4, <1>5, SetInduction
<1>7. Good(N) BY <1>1, <1>6 DEF T
<1>8. ToSet(s) = {s[k] : k \in 1 .. N} BY <1>1 DEF ToSet
<1> QED BY <1>2, <1>7, <1>8
-----------------------------------------------------------------------------
(***************************************************************************)
(* The steps of the commands.                                              *)
(***************************************************************************)
(* The steps, and those that write.                                        *)
StepNames ==
  {"projection", "rebuild_summary", "research", "audits", "build", "cain_transfer", "zkp_inputs",
   "verified", "repo_summary", "cain_summary", "shown", "figures",
   "load", "compare", "proof_manifest", "repository_manifest", "tests"}
Writers == StepNames \ {"load", "compare", "proof_manifest", "repository_manifest", "tests"}

(* The files of each step.                                                 *)
ProjectionFiles ==
  {"ecdlp_expanded_isa_optimized", "structural_accounting", "backend_model_bundle", "resource_projection"}
AuditFiles == {"lookup_signed_fold_summary", "lookup_contract_summary", "claim_boundary_matrix"}
ResearchFiles ==
  {"dominant_cost_breakdown", ContractFile, FoldedScaffold, "lookup_signed_fold_summary",
   "lookup_folded_projection", "literature_projection_scenarios", "optimization_frontier_estimates",
   "research_pass_summary"}
BuildFiles == PayloadFiles \cup {Counts, Targets, Results, "build_summary"}

(* The generated files, by the step that writes them.                      *)
LEMMA FilesAre ==
  Files = BuildFiles \cup {"cain_exact_transfer"} \cup ProjectionFiles \cup AuditFiles \cup ResearchFiles
            \cup {"verifier_rebuild_summary", "zkp_attestation_input", "verification_summary",
                  "repo_verification_summary", "cain_2026_integration_summary", "figures"}
BY OrdersAre DEF Files, Required, BuildFiles, ProjectionFiles, AuditFiles, ResearchFiles

(* The files a step writes.                                                *)
WrittenBy == [
  projection |-> ProjectionFiles, rebuild_summary |-> {"verifier_rebuild_summary"},
  research |-> ResearchFiles,     audits |-> AuditFiles,
  build |-> BuildFiles,           cain_transfer |-> {"cain_exact_transfer"},
  zkp_inputs |-> {"zkp_attestation_input"},
  verified |-> {"verification_summary"},
  repo_summary |-> {"repo_verification_summary"},
  cain_summary |-> {"cain_2026_integration_summary"},
  shown |-> {},                   figures |-> {"figures"}]

(* What a step writes, in its order, are the files of the step.            *)
LEMMA WritesAre ==
  /\ DOMAIN Writes = Writers /\ DOMAIN WrittenBy = Writers
  /\ \A s \in Writers : Writes[s] \in Seq(Files) /\ ToSet(Writes[s]) = WrittenBy[s]
                        /\ WrittenBy[s] \subseteq Files
<1>1. DOMAIN Writes = Writers /\ DOMAIN WrittenBy = Writers BY DEF Writes, WrittenBy, Writers, StepNames
<1>2. ASSUME NEW f PROVE ToSet(<<f>>) = {f} BY DEF ToSet
<1>3. ASSUME NEW f \in Files PROVE <<f>> \in Seq(Files) OBVIOUS
<1>4. ToSet(<< >>) = {} /\ << >> \in Seq(Files) BY DEF ToSet
<1>5. /\ ToSet(ProjectionOrder) = ProjectionFiles /\ ToSet(AuditOrder) = AuditFiles
      /\ ToSet(ResearchOrder) = ResearchFiles /\ ToSet(BuildOrder) = BuildFiles
  BY OrdersAre DEF ProjectionFiles, AuditFiles, ResearchFiles, BuildFiles
<1>6. /\ ProjectionFiles \subseteq Files /\ AuditFiles \subseteq Files /\ ResearchFiles \subseteq Files
      /\ BuildFiles \subseteq Files
      /\ {"verifier_rebuild_summary", "zkp_attestation_input", "verification_summary",
          "repo_verification_summary", "cain_2026_integration_summary", "figures",
          "cain_exact_transfer"} \subseteq Files
  BY FilesAre
<1>7. /\ ProjectionOrder \in Seq(ProjectionFiles) /\ AuditOrder \in Seq(AuditFiles)
      /\ ResearchOrder \in Seq(ResearchFiles)
  BY DEF ProjectionOrder, AuditOrder, ResearchOrder, ProjectionFiles, AuditFiles, ResearchFiles
<1>8. BuildOrder \in Seq(BuildFiles)
  <2>1. Payloads \in Seq(BuildFiles) BY PayloadsAre DEF BuildFiles
  <2> DEFINE t == <<Counts, Targets, Results, "build_summary">>
  <2>2. t \in Seq(BuildFiles) BY DEF BuildFiles
  <2> HIDE DEF t
  <2>3. Payloads \o t \in Seq(BuildFiles) BY <2>1, <2>2
  <2> QED BY <2>3 DEF BuildOrder, t
<1>9. /\ ProjectionOrder \in Seq(Files) /\ AuditOrder \in Seq(Files)
      /\ ResearchOrder \in Seq(Files) /\ BuildOrder \in Seq(Files)
  BY <1>6, <1>7, <1>8
<1>10. ASSUME NEW s \in Writers
       PROVE  Writes[s] \in Seq(Files) /\ ToSet(Writes[s]) = WrittenBy[s] /\ WrittenBy[s] \subseteq Files
  <2>1. CASE s \in {"projection", "research", "audits", "build"}
    BY <2>1, <1>5, <1>6, <1>9 DEF Writes, WrittenBy
  <2>2. CASE s = "shown" BY <2>2, <1>4 DEF Writes, WrittenBy
  <2>3. CASE s = "rebuild_summary"
    <3>1. Writes[s] = <<"verifier_rebuild_summary">> /\ WrittenBy[s] = {"verifier_rebuild_summary"}
      BY <2>3 DEF Writes, WrittenBy
    <3> QED BY <3>1, <1>2, <1>3, <1>6
  <2>4. CASE s = "cain_transfer"
    <3>1. Writes[s] = <<"cain_exact_transfer">> /\ WrittenBy[s] = {"cain_exact_transfer"}
      BY <2>4 DEF Writes, WrittenBy
    <3> QED BY <3>1, <1>2, <1>3, <1>6
  <2>5. CASE s = "zkp_inputs"
    <3>1. Writes[s] = <<"zkp_attestation_input">> /\ WrittenBy[s] = {"zkp_attestation_input"}
      BY <2>5 DEF Writes, WrittenBy
    <3> QED BY <3>1, <1>2, <1>3, <1>6
  <2>6. CASE s = "verified"
    <3>1. Writes[s] = <<"verification_summary">> /\ WrittenBy[s] = {"verification_summary"}
      BY <2>6 DEF Writes, WrittenBy
    <3> QED BY <3>1, <1>2, <1>3, <1>6
  <2>7. CASE s = "repo_summary"
    <3>1. Writes[s] = <<"repo_verification_summary">> /\ WrittenBy[s] = {"repo_verification_summary"}
      BY <2>7 DEF Writes, WrittenBy
    <3> QED BY <3>1, <1>2, <1>3, <1>6
  <2>8. CASE s = "cain_summary"
    <3>1. Writes[s] = <<"cain_2026_integration_summary">> /\ WrittenBy[s] = {"cain_2026_integration_summary"}
      BY <2>8 DEF Writes, WrittenBy
    <3> QED BY <3>1, <1>2, <1>3, <1>6
  <2>9. CASE s = "figures"
    <3>1. Writes[s] = <<"figures">> /\ WrittenBy[s] = {"figures"}
      BY <2>9 DEF Writes, WrittenBy
    <3> QED BY <3>1, <1>2, <1>3, <1>6
  <2> QED BY <2>1, <2>2, <2>3, <2>4, <2>5, <2>6, <2>7, <2>8, <2>9 DEF Writers, StepNames
<1> QED BY <1>1, <1>10

(* A build that raises has written payloads, and the counts and targets.   *)
LEMMA WrittenBeforeIs ==
  ASSUME NEW d, NEW s
  PROVE  /\ WrittenBefore(d, s) \in Seq(Files)
         /\ ToSet(WrittenBefore(d, s)) \subseteq PayloadFiles \cup {Counts, Targets}
<1> DEFINE S == PayloadFiles \cup {Counts, Targets}
           t == <<Counts, Targets>>
<1>1. S \subseteq Files BY FilesAre DEF BuildFiles
<1>2. Payloads \in Seq(S) /\ ToSet(Payloads) \subseteq S BY PayloadsAre
<1>3. t \in Seq(S) /\ ToSet(t) \subseteq S BY DEF ToSet
<1>4. << >> \in Seq(S) /\ ToSet(<< >>) \subseteq S BY DEF ToSet
<1> HIDE DEF S, t
<1>5. Payloads \o t \in Seq(S) /\ ToSet(Payloads \o t) \subseteq S BY <1>2, <1>3, ToSetConcat
<1>6. WrittenBefore(d, s) \in Seq(S) /\ ToSet(WrittenBefore(d, s)) \subseteq S
  BY <1>2, <1>4, <1>5 DEF WrittenBefore, t
<1> QED BY <1>1, <1>6 DEF S

(* The commands consist of steps ...                                       *)
LEMMA RefreshSteps ==
  /\ Build \in Seq(StepNames) /\ Verify \in Seq(StepNames) /\ VerifyAll \in Seq(StepNames)
  /\ Refresh \in Seq(StepNames) /\ RunTests \in Seq(StepNames) /\ Compare \in Seq(StepNames)
<1>1. Build \in Seq(StepNames) BY DEF Build, StepNames
<1>2. Verify \in Seq(StepNames) BY DEF Verify, StepNames
<1>3. Compare \in Seq(StepNames) BY DEF Compare, StepNames
<1>4. VerifyAll \in Seq(StepNames)
  <2> DEFINE s == <<"projection", "audits">>
             t == <<"repo_summary">>
  <2>1. s \in Seq(StepNames) /\ t \in Seq(StepNames) BY DEF StepNames
  <2> HIDE DEF s, t
  <2> QED BY <1>1, <1>2, <2>1 DEF VerifyAll, s, t
<1>5. Refresh \in Seq(StepNames)
  <2> DEFINE s == <<"projection", "rebuild_summary", "research">>
             t == <<"cain_summary", "figures", "proof_manifest", "repository_manifest">>
  <2>1. s \in Seq(StepNames) /\ t \in Seq(StepNames) BY DEF StepNames
  <2> HIDE DEF s, t
  <2> QED BY <1>1, <1>2, <1>4, <2>1 DEF Refresh, s, t
<1>6. RunTests \in Seq(StepNames)
  <2> DEFINE t == <<"tests">>
  <2>1. t \in Seq(StepNames) BY DEF StepNames
  <2> HIDE DEF t
  <2> QED BY <1>3, <1>5, <2>1 DEF RunTests, t
<1> QED BY <1>1, <1>2, <1>3, <1>4, <1>5, <1>6

(* ... and so do those that a test starts.                                 *)
LEMMA StepsAre ==
  /\ \A c \in Commands : Steps(c) \in Seq(StepNames)
  /\ \A t \in TestTargets : Producer(t) \in Seq(StepNames)
<1>1. <<"tests">> \in Seq(StepNames) BY DEF StepNames
<1>2. ASSUME NEW c \in Commands PROVE Steps(c) \in Seq(StepNames)
  <2>1. c \in {"build", "verify", "verify_all", "refresh", "compare", "run_tests", "run_serial"}
    BY PipelineAssumption
  <2> QED BY <1>1, <2>1, RefreshSteps DEF Steps
<1>3. ASSUME NEW t \in TestTargets PROVE Producer(t) \in Seq(StepNames)
  <2>1. t \in {"repo_verification_summary", "cain_2026_integration_summary", "build_summary",
               "verification_summary"}
    BY PipelineAssumption
  <2> QED BY <2>1, RefreshSteps DEF Producer
<1> QED BY <1>2, <1>3
-----------------------------------------------------------------------------
(***************************************************************************)
(* Types, and what a step does to the files.                               *)
(***************************************************************************)
(* Types: the tree, the steps left, the progress of the tests.             *)
Typed ==
  /\ Tree(disk)
  /\ todo \in Seq(StepNames)
  /\ tests \in [prepared : SUBSET TestTargets, research : 0 .. ResearchDone, hashed : BOOLEAN]
  /\ command = [name |-> command.name, outcome |-> command.outcome]

(* A file deleted or torn.                                                 *)
LEMMA Truncated ==
  ASSUME NEW d, Tree(d), NEW f, NEW c \in {Torn, Absent}
  PROVE  /\ Tree([d EXCEPT ![f] = c])
         /\ \A g \in Files : g # f => [d EXCEPT ![f] = c][g] = d[g]
         /\ f \in Files => [d EXCEPT ![f] = c][f] = c
<1> DEFINE e == [d EXCEPT ![f] = c]
<1>1. DOMAIN d = Files BY DEF Tree
<1>2. c = [is |-> c.is, from |-> c.from] BY DEF Torn, Absent
<1>3. e = [g \in Files |-> IF g = f THEN c ELSE d[g]] BY <1>1
<1> HIDE DEF e
<1>4. \A g \in Files : e[g] = IF g = f THEN c ELSE d[g] BY <1>3
<1>5. \A g \in Files : e[g] = [is |-> e[g].is, from |-> e[g].from] BY <1>2, <1>4 DEF Tree
<1>6. e = [g \in Files |-> e[g]] BY <1>3
<1>7. Tree(e) /\ (\A g \in Files : g # f => e[g] = d[g]) /\ (f \in Files => e[f] = c)
  BY <1>4, <1>5, <1>6 DEF Tree
<1> QED BY <1>7 DEF e

(* The next step.                                                          *)
LEMMA HeadOf ==
  ASSUME Typed, todo # << >>
  PROVE  /\ Head(todo) \in StepNames /\ Tail(todo) \in Seq(StepNames)
         /\ Len(todo) \in Nat /\ Len(todo) >= 1 /\ Len(Tail(todo)) = Len(todo) - 1
BY DEF Typed

(* A step that ends leaves its files whole, and the others alone.          *)
LEMMA PerformIs ==
  ASSUME Typed, Perform
  PROVE  /\ Head(todo) \in Writers /\ Tree(disk')
         /\ \A f \in Files : f \notin WrittenBy[Head(todo)] => disk'[f] = disk[f]
         /\ \A f \in Files : f \in WrittenBy[Head(todo)] => disk'[f].is = "whole"
<1>1. Head(todo) \in Writers /\ disk' = WriteAll(disk, Writes[Head(todo)])
  BY WritesAre DEF Perform
<1>2. Writes[Head(todo)] \in Seq(Files) /\ ToSet(Writes[Head(todo)]) = WrittenBy[Head(todo)]
  BY <1>1, WritesAre
<1>3. Tree(disk) BY DEF Typed
<1> QED BY <1>1, <1>2, <1>3, WriteAllKeeps

(* A step that raises changes files of the build at most.                  *)
LEMMA RaiseIs ==
  ASSUME Typed, Raise
  PROVE  /\ Head(todo) \in Writers /\ Tree(disk')
         /\ \A f \in Files : f \notin PayloadFiles \cup {Counts, Targets} => disk'[f] = disk[f]
         /\ \A f \in Files : disk'[f] = disk[f] \/ disk'[f].is = "whole"
<1> DEFINE s == WrittenBefore(disk, Head(todo))
<1>1. Head(todo) \in Writers /\ disk' = WriteAll(disk, s) BY WritesAre DEF Raise
<1>2. s \in Seq(Files) /\ ToSet(s) \subseteq PayloadFiles \cup {Counts, Targets} BY WrittenBeforeIs
<1> HIDE DEF s
<1>3. Tree(disk) BY DEF Typed
<1>4. /\ Tree(WriteAll(disk, s))
      /\ \A f \in Files : f \notin ToSet(s) => WriteAll(disk, s)[f] = disk[f]
      /\ \A f \in Files : f \in ToSet(s) => WriteAll(disk, s)[f].is = "whole"
  BY <1>2, <1>3, WriteAllKeeps
<1> QED BY <1>1, <1>2, <1>4

(* The research test changes files of the research pass.                   *)
LEMMA ParallelIs ==
  ASSUME Typed, ParallelResearchTest
  PROVE  Tree(disk') /\ \A f \in Files : f \notin ResearchFiles => disk'[f] = disk[f]
<1> DEFINE f == ResearchOrder[tests.research \div 2 + 1]
<1>1. f \in ResearchFiles
  <2>1. tests.research \in 0 .. 15 BY OrdersAre DEF ParallelResearchTest, Typed, ResearchDone
  <2>2. tests.research \div 2 + 1 \in 1 .. 8 BY <2>1
  <2>3. ResearchOrder \in Seq(ResearchFiles) /\ Len(ResearchOrder) = 8
    BY DEF ResearchOrder, ResearchFiles
  <2>4. \A i \in 1 .. 8 : ResearchOrder[i] \in ResearchFiles BY <2>3
  <2> DEFINE i == tests.research \div 2 + 1
  <2>5. i \in 1 .. 8 BY <2>2
  <2> HIDE DEF i
  <2>6. ResearchOrder[i] \in ResearchFiles BY <2>4, <2>5
  <2> QED BY <2>6 DEF i
<1>2. disk' = IF tests.research % 2 = 0 THEN [disk EXCEPT ![f] = Torn] ELSE Rewrite(disk, f)
  BY DEF ParallelResearchTest
<1> HIDE DEF f
<1>3. Tree(disk) BY DEF Typed
<1>4. /\ Tree([disk EXCEPT ![f] = Torn])
      /\ \A g \in Files : g # f => [disk EXCEPT ![f] = Torn][g] = disk[g]
  BY <1>3, Truncated
<1>5. Tree(Rewrite(disk, f)) /\ \A g \in Files : g # f => Rewrite(disk, f)[g] = disk[g]
  BY <1>3, RewriteIs
<1> QED BY <1>1, <1>2, <1>4, <1>5

(* A kill inside a step leaves files of that step alone only.              *)
LEMMA CrashIs ==
  ASSUME Typed, NEW n \in Cuts, NEW torn \in BOOLEAN, Crash(n, torn)
  PROVE  /\ Tree(disk')
         /\ \/ disk' = disk
            \/ /\ Head(todo) \in Writers /\ ~Raises(disk, Head(todo))
               /\ \A f \in Files : f \notin WrittenBy[Head(todo)] => disk'[f] = disk[f]
<1>1. Tree(disk) /\ n \in Nat BY PipelineAssumption DEF Typed
<1>2. CASE ~(Head(todo) \in DOMAIN Writes /\ ~Raises(disk, Head(todo)))
  BY <1>1, <1>2 DEF Crash
<1>3. CASE Head(todo) \in DOMAIN Writes /\ ~Raises(disk, Head(todo))
  <2> DEFINE s == Writes[Head(todo)]
             t == SubSeq(s, 1, n)
             done == WriteAll(disk, t)
  <2>1. Head(todo) \in Writers BY <1>3, WritesAre
  <2>2. s \in Seq(Files) /\ ToSet(s) = WrittenBy[Head(todo)] BY <2>1, WritesAre
  <2>3. n < Len(s) /\ disk' = IF torn THEN [done EXCEPT ![s[n + 1]] = Torn] ELSE done
    BY <1>3 DEF Crash
  <2> HIDE DEF s
  <2>4. Len(s) \in Nat /\ DOMAIN s = 1 .. Len(s) /\ n \in 0 .. Len(s) BY <1>1, <2>2, <2>3
  <2>5. t \in Seq(Files) /\ Len(t) = n /\ \A i \in 1 .. n : t[i] = s[i] BY <2>2, <2>4
  <2>6. ToSet(t) \subseteq ToSet(s)
    <3> HIDE DEF t
    <3>1. DOMAIN t = 1 .. n /\ \A i \in 1 .. n : i \in 1 .. Len(s) BY <2>4, <2>5
    <3> QED BY <3>1, <2>4, <2>5 DEF ToSet
  <2>7. s[n + 1] \in ToSet(s)
    <3>1. n + 1 \in 1 .. Len(s) BY <2>3, <2>4
    <3> QED BY <3>1, <2>4 DEF ToSet
  <2> HIDE DEF t
  <2>8. Tree(done) /\ \A f \in Files : f \notin ToSet(t) => done[f] = disk[f]
    BY <1>1, <2>5, WriteAllKeeps
  <2> HIDE DEF done
  <2>9. /\ Tree([done EXCEPT ![s[n + 1]] = Torn])
        /\ \A g \in Files : g # s[n + 1] => [done EXCEPT ![s[n + 1]] = Torn][g] = done[g]
    BY <2>8, Truncated
  <2>10. Tree(disk') BY <2>3, <2>8, <2>9
  <2>11. \A f \in Files : f \notin WrittenBy[Head(todo)] => disk'[f] = disk[f]
    BY <2>2, <2>3, <2>6, <2>7, <2>8, <2>9
  <2> QED BY <1>3, <2>1, <2>10, <2>11
<1> QED BY <1>2, <1>3

(* A deletion.                                                             *)
LEMMA DeleteIs ==
  ASSUME Typed, NEW f \in Removable, Delete(f)
  PROVE  Tree(disk') /\ f \in Files /\ disk'[f] = Absent /\ \A g \in Files : g # f => disk'[g] = disk[g]
<1>1. Tree(disk) /\ f \in Files BY PipelineAssumption DEF Typed
<1>2. disk' = [disk EXCEPT ![f] = Absent] BY DEF Delete
<1> QED BY <1>1, <1>2, Truncated
-----------------------------------------------------------------------------
(***************************************************************************)
(* Types hold; lost results stay lost.                                     *)
(***************************************************************************)
(* The tree of the release has been written by its builders.               *)
LEMMA ReleasedWrites ==
  \E d, w : /\ Tree(d) /\ w \in Seq(Files) /\ Released = WriteAll(d, w)
            /\ \A f \in Files : d[f].from \subseteq {Stamp(p) : p \in Compiled}
<1> DEFINE d == [f \in Files |-> IF f = Results THEN Whole({Stamp(p) : p \in Compiled}) ELSE Absent]
           s == <<ContractFile, FoldedScaffold>>
           t == <<"verifier_rebuild_summary", "cain_exact_transfer", "zkp_attestation_input",
                  "verification_summary">>
           u == <<"repo_verification_summary", "cain_2026_integration_summary", "figures">>
<1>1. Tree(d)
  <2>1. \A f \in Files : d[f] = [is |-> d[f].is, from |-> d[f].from] BY DEF Whole, Absent
  <2>2. d = [f \in Files |-> d[f]] OBVIOUS
  <2> HIDE DEF d
  <2> QED BY <2>1, <2>2 DEF Tree
<1>2. s \in Seq(Files) /\ t \in Seq(Files) /\ u \in Seq(Files)
  <2>1. ContractFile \in Files /\ FoldedScaffold \in Files BY FilesAre DEF ResearchFiles
  <2>2. {"verifier_rebuild_summary", "cain_exact_transfer", "zkp_attestation_input",
         "verification_summary", "repo_verification_summary", "cain_2026_integration_summary",
         "figures"} \subseteq Files
    BY FilesAre
  <2> QED BY <2>1, <2>2
<1>3. /\ ProjectionOrder \in Seq(Files) /\ ResearchOrder \in Seq(Files)
      /\ BuildOrder \in Seq(Files) /\ AuditOrder \in Seq(Files)
  <2>1. /\ Writes["projection"] = ProjectionOrder /\ Writes["research"] = ResearchOrder
        /\ Writes["build"] = BuildOrder /\ Writes["audits"] = AuditOrder
    BY DEF Writes
  <2>2. "projection" \in Writers /\ "research" \in Writers /\ "build" \in Writers /\ "audits" \in Writers
    BY DEF Writers, StepNames
  <2> QED BY <2>1, <2>2, WritesAre
<1> HIDE DEF d, s, t, u
<1> DEFINE w == s \o ProjectionOrder \o ResearchOrder \o BuildOrder \o t \o AuditOrder \o u
<1>4. w \in Seq(Files) BY <1>2, <1>3
<1>5. Released = WriteAll(d, w) BY DEF Released, d, s, t, u
<1>6. \A f \in Files : d[f].from \subseteq {Stamp(p) : p \in Compiled} BY DEF d, Whole, Absent
<1> HIDE DEF w
<1> QED BY <1>1, <1>4, <1>5, <1>6

(* The tree of the release.                                                *)
LEMMA ReleasedIs == Tree(Released)
BY ReleasedWrites, WriteAllKeeps

(* Initially.                                                              *)
LEMMA TypedInit == Init => Typed
<1> SUFFICES ASSUME Init PROVE Typed OBVIOUS
<1>1. Tree(disk) BY ReleasedIs DEF Init
<1>2. todo \in Seq(StepNames) BY DEF Init
<1>3. tests \in [prepared : SUBSET TestTargets, research : 0 .. ResearchDone, hashed : BOOLEAN]
  BY OrdersAre DEF Init, NoTests, ResearchDone
<1>4. command = [name |-> command.name, outcome |-> command.outcome] BY DEF Init
<1> QED BY <1>1, <1>2, <1>3, <1>4 DEF Typed

(* Every step keeps the types.                                             *)
LEMMA TypedStep == Typed /\ [Next]_vars => Typed'
<1> SUFFICES ASSUME Typed, [Next]_vars PROVE Typed' OBVIOUS
<1> DEFINE TestsOK == tests \in [prepared : SUBSET TestTargets, research : 0 .. ResearchDone,
                                 hashed : BOOLEAN]
           CommandOK == command = [name |-> command.name, outcome |-> command.outcome]
<1>1. Tree(disk) /\ todo \in Seq(StepNames) /\ TestsOK /\ CommandOK BY DEF Typed
<1>2. << >> \in Seq(StepNames) /\ <<"tests">> \in Seq(StepNames) BY DEF StepNames
<1>3. NoTests \in [prepared : SUBSET TestTargets, research : 0 .. ResearchDone, hashed : BOOLEAN]
  BY OrdersAre DEF NoTests, ResearchDone
<1>4. todo # << >> => Tail(todo) \in Seq(StepNames) BY HeadOf
<1>5. ASSUME UNCHANGED vars PROVE Typed' BY <1>5 DEF vars, Typed
<1>6. ASSUME NEW c \in Commands, Start(c) PROVE Typed'
  <2>1. todo' \in Seq(StepNames) BY <1>6, StepsAre DEF Start
  <2> QED BY <1>1, <1>6, <2>1 DEF Start, tree, Typed
<1>7. ASSUME Perform PROVE Typed'
  <2>1. Tree(disk') BY <1>7, PerformIs
  <2>2. todo' \in Seq(StepNames) BY <1>4, <1>7 DEF Perform, Finish
  <2>3. CommandOK' BY <1>1, <1>7 DEF Perform, Finish
  <2> QED BY <1>1, <1>7, <2>1, <2>2, <2>3 DEF Perform, Typed
<1>8. ASSUME Raise PROVE Typed'
  <2>1. Tree(disk') BY <1>8, RaiseIs
  <2>2. todo' \in Seq(StepNames) BY <1>2, <1>8 DEF Raise
  <2>3. CommandOK' BY <1>1, <1>8 DEF Raise
  <2> QED BY <1>1, <1>8, <2>1, <2>2, <2>3 DEF Raise, Typed
<1>9. ASSUME Load PROVE Typed'
  <2> DEFINE s == IF \E f \in Required : disk[f].is = "absent"
                  THEN <<"build", "cain_transfer", "verified">> ELSE <<"verified">>
  <2>1. s \in Seq(StepNames)
    <3>1. <<"build", "cain_transfer", "verified">> \in Seq(StepNames) BY DEF StepNames
    <3>2. <<"verified">> \in Seq(StepNames) BY DEF StepNames
    <3> QED BY <3>1, <3>2
  <2>2. todo' = s \o Tail(todo) /\ todo # << >> BY <1>9 DEF Load, Running
  <2> HIDE DEF s
  <2>3. todo' \in Seq(StepNames) BY <1>4, <2>1, <2>2
  <2> QED BY <1>1, <1>9, <2>3 DEF Load, tree, Typed
<1>10. ASSUME CompareCain PROVE Typed'
  <2> DEFINE s == IF disk["cain_2026_integration_summary"].is = "absent"
                  THEN <<"cain_summary", "shown">> ELSE <<"shown">>
  <2>1. s \in Seq(StepNames)
    <3>1. <<"cain_summary", "shown">> \in Seq(StepNames) BY DEF StepNames
    <3>2. <<"shown">> \in Seq(StepNames) BY DEF StepNames
    <3> QED BY <3>1, <3>2
  <2>2. todo' = s \o Tail(todo) /\ todo # << >> BY <1>10 DEF CompareCain, Running
  <2> HIDE DEF s
  <2>3. todo' \in Seq(StepNames) BY <1>4, <2>1, <2>2
  <2> QED BY <1>1, <1>10, <2>3 DEF CompareCain, tree, Typed
<1>11. ASSUME WriteProofManifest \/ WriteRepositoryManifest PROVE Typed'
  <2>1. todo' \in Seq(StepNames)
    BY <1>4, <1>11 DEF WriteProofManifest, WriteRepositoryManifest, Finish, Running
  <2>2. CommandOK' BY <1>1, <1>11 DEF WriteProofManifest, WriteRepositoryManifest, Finish
  <2> QED BY <1>1, <1>11, <2>1, <2>2 DEF WriteProofManifest, WriteRepositoryManifest, tree, Typed
<1>12. ASSUME NEW t \in TestTargets, EnsureTarget(t) PROVE Typed'
  <2>1. todo' \in Seq(StepNames)
    <3>1. Producer(t) \in Seq(StepNames) BY StepsAre
    <3>2. Producer(t) \o todo \in Seq(StepNames) BY <1>1, <3>1
    <3> QED BY <1>1, <1>12, <3>2 DEF EnsureTarget
  <2>2. TestsOK' BY <1>1, <1>12 DEF EnsureTarget
  <2> QED BY <1>1, <1>12, <2>1, <2>2 DEF EnsureTarget, tree, Typed
<1>13. ASSUME SerialResearchTest PROVE Typed'
  <2>1. todo' \in Seq(StepNames)
    <3> DEFINE s == <<"research">>
    <3>1. s \in Seq(StepNames) BY DEF StepNames
    <3> HIDE DEF s
    <3>2. s \o todo \in Seq(StepNames) BY <1>1, <3>1
    <3> QED BY <1>13, <3>2 DEF SerialResearchTest, s
  <2>2. TestsOK'
    <3>1. ResearchDone = 16 BY OrdersAre DEF ResearchDone
    <3>2. tests' = [tests EXCEPT !.research = 16] BY <1>13, <3>1 DEF SerialResearchTest
    <3> QED BY <1>1, <3>1, <3>2
  <2> QED BY <1>1, <1>13, <2>1, <2>2 DEF SerialResearchTest, tree, Typed
<1>14. ASSUME ParallelResearchTest PROVE Typed'
  <2>1. Tree(disk') BY <1>14, ParallelIs
  <2>2. TestsOK' BY <1>1, <1>14, OrdersAre DEF ParallelResearchTest, ResearchDone
  <2> QED BY <1>1, <1>14, <2>1, <2>2 DEF ParallelResearchTest, Typed
<1>15. ASSUME ManifestTest PROVE Typed'
  <2>1. TestsOK' BY <1>1, <1>15 DEF ManifestTest
  <2> QED BY <1>1, <1>15, <2>1 DEF ManifestTest, tree, Typed
<1>16. ASSUME EndTests PROVE Typed'
  <2>1. todo' \in Seq(StepNames) BY <1>4, <1>16 DEF EndTests, Finish, Running
  <2>2. CommandOK' BY <1>1, <1>16 DEF EndTests, Finish
  <2> QED BY <1>1, <1>3, <1>16, <2>1, <2>2 DEF EndTests, tree, Typed
<1>17. ASSUME NEW n \in Cuts, NEW torn \in BOOLEAN, Crash(n, torn) PROVE Typed'
  <2>1. Tree(disk') BY <1>17, CrashIs
  <2>2. CommandOK' BY <1>1, <1>17 DEF Crash
  <2> QED BY <1>2, <1>3, <1>17, <2>1, <2>2 DEF Crash, Typed
<1>18. ASSUME NEW p \in Editable, Edit(p) PROVE Typed'
  <2>1. CommandOK' BY <1>1, <1>18 DEF Edit
  <2> QED BY <1>1, <1>18, <2>1 DEF Edit, Typed
<1>19. ASSUME NEW f \in Removable, Delete(f) PROVE Typed'
  <2>1. Tree(disk') BY <1>19, DeleteIs
  <2>2. CommandOK' BY <1>1, <1>19 DEF Delete
  <2> QED BY <1>1, <1>19, <2>1, <2>2 DEF Delete, Typed
<1> QED
  BY <1>5, <1>6, <1>7, <1>8, <1>9, <1>10, <1>11, <1>12, <1>13, <1>14, <1>15, <1>16, <1>17, <1>18,
     <1>19
  DEF Next

(* Type correctness.                                                       *)
LEMMA TypesHold == Spec => []Typed
BY TypedInit, TypedStep, PTL DEF Spec
(* Only a build that ends writes the results of the estimator.             *)
LEMMA ResultsAre ==
  /\ Results \in Files
  /\ \A s \in Writers \ {"build"} : Results \notin WrittenBy[s]
  /\ Results \notin PayloadFiles \cup {Counts, Targets} /\ Results \notin ResearchFiles
<1>1. Results \in Files BY FilesAre DEF BuildFiles
<1>2. \A s \in Writers \ {"build"} : Results \notin WrittenBy[s]
  BY DEF Writers, StepNames, WrittenBy, ProjectionFiles, AuditFiles, ResearchFiles, Results,
         ContractFile, FoldedScaffold
<1>3. Results \notin PayloadFiles \cup {Counts, Targets} /\ Results \notin ResearchFiles
  BY DEF PayloadFiles, Counts, Targets, Results, ResearchFiles, ContractFile, FoldedScaffold
<1> QED BY <1>1, <1>2, <1>3

(* No step makes results whole again without the estimator.                *)
LEMMA LostStay ==
  ASSUME Typed, [Next]_vars, ResultsMissing(disk)
  PROVE  ResultsMissing(disk)'
<1>1. qsharp = FALSE \/ ~qsharp BY DEF ResultsMissing
<1>2. ~qsharp /\ disk[Results].is # "whole" BY DEF ResultsMissing, IsWhole
<1>3. ASSUME qsharp' = qsharp, disk'[Results] = disk[Results] PROVE ResultsMissing(disk)'
  BY <1>2, <1>3 DEF ResultsMissing, IsWhole
<1>4. ASSUME Perform PROVE ResultsMissing(disk)'
  <2>1. ~Raises(disk, Head(todo)) /\ qsharp' = qsharp BY <1>4 DEF Perform
  <2>2. Head(todo) # "build" BY <2>1 DEF Raises
  <2>3. disk'[Results] = disk[Results] BY <1>4, <2>2, PerformIs, ResultsAre
  <2> QED BY <1>3, <2>1, <2>3
<1>5. ASSUME Raise PROVE ResultsMissing(disk)'
  <2>1. disk'[Results] = disk[Results] /\ qsharp' = qsharp BY <1>5, RaiseIs, ResultsAre DEF Raise
  <2> QED BY <1>3, <2>1
<1>6. ASSUME ParallelResearchTest PROVE ResultsMissing(disk)'
  <2>1. disk'[Results] = disk[Results] /\ qsharp' = qsharp
    BY <1>6, ParallelIs, ResultsAre DEF ParallelResearchTest
  <2> QED BY <1>3, <2>1
<1>7. ASSUME NEW n \in Cuts, NEW torn \in BOOLEAN, Crash(n, torn) PROVE ResultsMissing(disk)'
  <2>1. Head(todo) # "build" \/ Raises(disk, Head(todo)) BY DEF Raises
  <2>2. disk'[Results] = disk[Results] /\ qsharp' = qsharp
    BY <1>7, <2>1, CrashIs, ResultsAre DEF Crash
  <2> QED BY <1>3, <2>2
<1>8. ASSUME NEW f \in Removable, Delete(f) PROVE ResultsMissing(disk)'
  <2>1. qsharp' = qsharp BY <1>8 DEF Delete
  <2>2. CASE f = Results
    <3>1. disk'[Results] = Absent BY <1>8, <2>2, DeleteIs
    <3> QED BY <1>2, <2>1, <3>1 DEF ResultsMissing, IsWhole, Absent
  <2>3. CASE f # Results
    <3>1. disk'[Results] = disk[Results] BY <1>8, <2>3, DeleteIs, ResultsAre
    <3> QED BY <1>3, <2>1, <3>1
  <2> QED BY <2>2, <2>3
<1>9. ASSUME UNCHANGED <<qsharp, disk>> PROVE ResultsMissing(disk)'
  BY <1>3, <1>9
<1> QED
  BY <1>4, <1>5, <1>6, <1>7, <1>8, <1>9
  DEF Next, vars, tree, Start, Load, CompareCain, WriteProofManifest, WriteRepositoryManifest,
      EnsureTarget, SerialResearchTest, ManifestTest, EndTests, Edit

(* Recorded estimator results that are lost or torn are never made again   *)
(* without the estimator, whatever commands are run, killed or restarted.  *)
THEOREM ResultsStayLost == Spec => LostResultsStayLost
<1>1. Typed /\ [Next]_vars => [ResultsMissing(disk) => ResultsMissing(disk)']_vars
  BY LostStay
<1> QED BY TypesHold, <1>1, PTL DEF Spec, LostResultsStayLost
-----------------------------------------------------------------------------
(***************************************************************************)
(* A passing verdict.                                                      *)
(***************************************************************************)
(* Only the summaries of a verification, and the figures drawn from them,  *)
(* hold a verdict.                                                         *)
Verdicts == {"verification_summary", "repo_verification_summary", "figures"}
Plain(d) == \A f \in Files \ Verdicts : \A v : <<"verdict", v>> \notin d[f].from

(* What is read from files.                                                *)
LEMMA ReadFromIs ==
  ASSUME NEW d, NEW S
  PROVE  \A x : x \in ReadFrom(d, S) <=> \E f \in S : x \in d[f].from
BY DEF ReadFrom

(* What is computed from parts of the sources.                             *)
LEMMA ComputedIs ==
  ASSUME NEW d
  PROVE  /\ Computed(d, {"circuits"}) = {Stamp("circuits")}
         /\ Computed(d, {"circuits", "leaves"}) = {Stamp("circuits"), Stamp("leaves")}
         /\ Computed(d, {"circuits", "leaves", "lowering"})
              = {Stamp("circuits"), Stamp("leaves"), Stamp("lowering")}
         /\ Computed(d, {"lowering"}) = {Stamp("lowering")}
         /\ Computed(d, {"lowering", "contract"}) = {Stamp("lowering")} \cup LookupContract(d)
         /\ Computed(d, Compiled)
              = {Stamp("circuits"), Stamp("leaves"), Stamp("lowering")} \cup LookupContract(d)
<1> DEFINE st(p) == Stamp(p)
<1>1. \A S : Computed(d, S) = {st(p) : p \in S \ {"contract"}}
                              \cup (IF "contract" \in S THEN LookupContract(d) ELSE {})
  BY DEF Computed
<1> HIDE DEF st
<1>2. Compiled = {"circuits", "leaves", "lowering", "contract"} BY DEF Compiled, Parts
<1>3. Computed(d, {"circuits"}) = {st("circuits")} BY <1>1
<1>4. Computed(d, {"circuits", "leaves"}) = {st("circuits"), st("leaves")} BY <1>1
<1>5. Computed(d, {"circuits", "leaves", "lowering"}) = {st("circuits"), st("leaves"), st("lowering")}
  BY <1>1
<1>6. Computed(d, {"lowering"}) = {st("lowering")} BY <1>1
<1>7. Computed(d, {"lowering", "contract"}) = {st("lowering")} \cup LookupContract(d) BY <1>1
<1>8. Computed(d, Compiled) = {st("circuits"), st("leaves"), st("lowering")} \cup LookupContract(d)
  BY <1>1, <1>2
<1> QED BY <1>3, <1>4, <1>5, <1>6, <1>7, <1>8 DEF st

(* Each check group pins what it is about, one after the other; the        *)
(* frontier through the attack inventory, which repeats it and is checked  *)
(* against the code.                                                       *)
LEMMA ChecksVouch ==
  ASSUME NEW d, AllChecksPass(d)
  PROVE  \A f \in Required \ Unchecked : d[f].from = Content(d, f)
<1> DEFINE C == {Stamp("circuits")}
           CL == {Stamp("circuits"), Stamp("leaves")}
           A == {Stamp("circuits"), Stamp("leaves"), Stamp("lowering")}
           W == {Stamp("lowering")}
           L == LookupContract(d)
           F == A \cup L
           Of(f) == d[f].from
<1>1. /\ Computed(d, {"circuits"}) = C /\ Computed(d, {"circuits", "leaves"}) = CL
      /\ Computed(d, {"circuits", "leaves", "lowering"}) = A /\ Computed(d, {"lowering"}) = W
      /\ Computed(d, {"lowering", "contract"}) = W \cup L /\ Computed(d, Compiled) = F
  BY ComputedIs
<1>2. C \subseteq A /\ CL \subseteq A /\ W \subseteq A /\ CL \cup W = A OBVIOUS
<1>3. \A S : \A x : x \in ReadFrom(d, S) <=> \E f \in S : x \in Of(f) BY ReadFromIs
<1>4. Computed(d, {}) = {} BY DEF Computed
<1>5. /\ Of("canonical_public_point") = C /\ Of("full_raw32_oracle") = C /\ Of("table_manifests") = C
      /\ Of("exact_leaf_slot_allocation") = CL /\ Of("lookup_fed_leaf_slot_allocation") = CL
      /\ Of("streamed_lookup_tail_leaf_slot_allocation") = CL
      /\ Of("arithmetic_lowerings") = A /\ Of("module_library") = A /\ Of("primitive_multiplier_library") = A
      /\ Of("phase_shell_lowerings") = W /\ Of("phase_shell_families") = W
      /\ Of("lookup_lowerings") = W \cup L
      /\ Of("full_attack_inventory") = F
  BY <1>1 DEF AllChecksPass, CanonicalPointChecks, ScheduleChecks, TableManifestChecks,
     ArithmeticKernelChecks, LookupLoweringChecks, PhaseShellChecks, SlotAllocationChecks,
     LookupFedSlotAllocationChecks, StreamedSlotAllocationChecks, PrimitiveMultiplierChecks,
     FullAttackChecks, IsCode, PartsOf
<1>6. /\ Of("generated_block_inventories")
           = ReadFrom(d, {"full_raw32_oracle", "module_library", "arithmetic_lowerings",
                          "lookup_lowerings", "phase_shell_lowerings"}) \cup CL
      /\ Of("streamed_lookup_table_multiplier_resource")
           = ReadFrom(d, {"arithmetic_lowerings", "lookup_lowerings"})
      /\ Of("standard_qrom_lookup_assessment")
           = ReadFrom(d, {"family_frontier", "lookup_lowerings",
                          "streamed_lookup_table_multiplier_resource"})
      /\ Of("logical_resource_ledger")
           = ReadFrom(d, {"family_frontier", "generated_block_inventories",
                          "streamed_lookup_table_multiplier_resource"})
      /\ Of("qubit_breakthrough_analysis") = ReadFrom(d, {"family_frontier", "resource_projection"})
      /\ Of("ft_ir_compositions")
           = ReadFrom(d, {"full_raw32_oracle", "arithmetic_lowerings", "lookup_lowerings",
                          "phase_shell_lowerings", "generated_block_inventories", "family_frontier"})
      /\ Of("whole_oracle_recount") = ReadFrom(d, {"ft_ir_compositions"})
      /\ Of("subcircuit_equivalence")
           = ReadFrom(d, {"arithmetic_lowerings", "lookup_lowerings", "generated_block_inventories",
                          "family_frontier", "full_attack_inventory"}) \cup CL
      /\ Of("family_frontier")
           = ReadFrom(d, {"full_raw32_oracle", "exact_leaf_slot_allocation", "module_library",
                          "generated_block_inventories", "whole_oracle_recount"}) \cup F
      /\ Of("build_summary") = ReadFrom(d, {"family_frontier"})
      /\ Of("cain_exact_transfer") = ReadFrom(d, {"family_frontier"})
      /\ Of(Counts) = ReadFrom(d, {"family_frontier"})
      /\ Of(Targets) = ReadFrom(d, {Counts})
      /\ Of(Results) = EstimatorResults(d)
      /\ ReadFrom(d, {"family_frontier"}) \subseteq Of("full_attack_inventory")
  <2>1. ReadFrom(d, {"full_raw32_oracle", "module_library", "generated_block_inventories", "family_frontier"})
          \subseteq Of("full_attack_inventory")
    BY DEF AllChecksPass, FullAttackChecks, Repeats
  <2>2. ReadFrom(d, {"family_frontier"}) \subseteq Of("full_attack_inventory")
    <3> HIDE DEF Of
    <3> QED BY <2>1, <1>3
  <2>3. \A S : S \cup {} = S OBVIOUS
  <2> QED
    BY <1>1, <1>4, <2>2, <2>3 DEF AllChecksPass, BlockInventoryChecks, StreamedResourceChecks,
       QromAssessmentChecks, ResourceLedgerChecks, QubitBreakthroughChecks, FtIrChecks, RecountChecks,
       SubcircuitChecks, FrontierChecks, BuildSummaryChecks, CainTransferChecks, AzureSeedChecks,
       EstimatorTargetChecks, EstimatorResultChecks, IsMadeFrom
<1> HIDE DEF Of, C, CL, A, W, L
<1>7. Of("generated_block_inventories") = F BY <1>2, <1>3, <1>5, <1>6
<1>8. Of("family_frontier") = F BY <1>3, <1>5, <1>6
<1>9. Of("streamed_lookup_table_multiplier_resource") = F BY <1>2, <1>3, <1>5, <1>6
<1>10. Of("standard_qrom_lookup_assessment") = F BY <1>2, <1>3, <1>5, <1>6, <1>8, <1>9
<1>11. Of("logical_resource_ledger") = F BY <1>3, <1>6, <1>7, <1>8, <1>9
<1>12. Of("ft_ir_compositions") = F BY <1>2, <1>3, <1>5, <1>6, <1>7, <1>8
<1>13. Of("whole_oracle_recount") = F BY <1>3, <1>6, <1>12
<1>14. Of("subcircuit_equivalence") = F BY <1>2, <1>3, <1>5, <1>6, <1>7, <1>8
<1>15. Of("build_summary") = F BY <1>3, <1>6, <1>8
<1>16. Of("qubit_breakthrough_analysis") = F \cup ReadFrom(d, {"resource_projection"})
  BY <1>3, <1>6, <1>8
<1> HIDE DEF F
<1>17. Required \ Unchecked \subseteq
         {"canonical_public_point", "full_raw32_oracle", "exact_leaf_slot_allocation",
          "lookup_fed_leaf_slot_allocation", "streamed_lookup_tail_leaf_slot_allocation",
          "arithmetic_lowerings", "streamed_lookup_table_multiplier_resource", "module_library",
          "primitive_multiplier_library", "phase_shell_lowerings", "phase_shell_families", "table_manifests",
          "lookup_lowerings", "generated_block_inventories", "ft_ir_compositions", "whole_oracle_recount",
          "family_frontier", "standard_qrom_lookup_assessment", "logical_resource_ledger",
          "qubit_breakthrough_analysis", "full_attack_inventory", "subcircuit_equivalence",
          Counts, Targets, Results, "build_summary", "cain_exact_transfer"}
  BY OrdersAre DEF Required, Unchecked, PayloadFiles
<1> DEFINE special == ProjectionFiles \cup ResearchFiles \cup AuditFiles \cup
                      {"verifier_rebuild_summary", "qubit_breakthrough_analysis", Counts,
                       "cain_exact_transfer", Targets, Results, "zkp_attestation_input",
                       "verification_summary", "repo_verification_summary",
                       "cain_2026_integration_summary", "figures"}
<1>18. ASSUME NEW f, f \notin special PROVE Content(d, f) = Computed(d, PartsOf(f))
  BY <1>18, OrdersAre DEF Content, ProjectionFiles, ResearchFiles, AuditFiles
<1>19. ASSUME NEW f \in {"streamed_lookup_table_multiplier_resource", "generated_block_inventories",
                          "ft_ir_compositions", "whole_oracle_recount", "family_frontier",
                          "standard_qrom_lookup_assessment", "logical_resource_ledger",
                          "full_attack_inventory", "subcircuit_equivalence", "build_summary"}
       PROVE  d[f].from = Content(d, f)
  <2>1. PartsOf(f) = Compiled BY <1>19 DEF PartsOf
  <2>2. Of(f) = F BY <1>5, <1>7, <1>8, <1>9, <1>10, <1>11, <1>12, <1>13, <1>14, <1>15, <1>19
  <2>3. f \notin special BY <1>19 DEF ProjectionFiles, ResearchFiles, AuditFiles, ContractFile,
        FoldedScaffold, Counts, Targets, Results
  <2> QED BY <1>1, <1>18, <2>1, <2>2, <2>3 DEF Of
<1>20. ASSUME NEW f \in {"canonical_public_point", "full_raw32_oracle", "exact_leaf_slot_allocation",
                          "lookup_fed_leaf_slot_allocation", "streamed_lookup_tail_leaf_slot_allocation",
                          "arithmetic_lowerings", "module_library", "primitive_multiplier_library",
                          "phase_shell_lowerings", "phase_shell_families", "table_manifests",
                          "lookup_lowerings"}
       PROVE  d[f].from = Content(d, f)
  <2>1. Computed(d, PartsOf(f)) = Of(f) BY <1>1, <1>5, <1>20 DEF PartsOf
  <2>2. f \notin special BY <1>20 DEF ProjectionFiles, ResearchFiles, AuditFiles, ContractFile,
        FoldedScaffold, Counts, Targets, Results
  <2> QED BY <1>18, <2>1, <2>2 DEF Of
<1>21. d["qubit_breakthrough_analysis"].from = Content(d, "qubit_breakthrough_analysis")
  <2>1. Content(d, "qubit_breakthrough_analysis") = QubitBreakthrough(d)
    BY OrdersAre DEF Content, ContractFile, FoldedScaffold, Counts, Targets, Results
  <2> QED BY <1>1, <1>16, <2>1 DEF Of, QubitBreakthrough
<1>22. /\ d[Counts].from = Content(d, Counts) /\ d[Targets].from = Content(d, Targets)
       /\ d[Results].from = Content(d, Results)
       /\ d["cain_exact_transfer"].from = Content(d, "cain_exact_transfer")
  <2>1. /\ Content(d, Counts) = LogicalCounts(d) /\ Content(d, Targets) = EstimatorTargets(d)
        /\ Content(d, Results) = EstimatorResults(d)
        /\ Content(d, "cain_exact_transfer") = CainTransfer(d)
    BY OrdersAre DEF Content, ContractFile, FoldedScaffold, Counts, Targets, Results
  <2> QED BY <1>6, <2>1 DEF Of, LogicalCounts, EstimatorTargets, CainTransfer
<1> HIDE DEF special
<1> QED BY <1>17, <1>19, <1>20, <1>21, <1>22

(* What other files than the summaries hold ...                            *)
LEMMA ReadsPlainly ==
  ASSUME NEW d, Plain(d), NEW S, S \subseteq Files \ Verdicts
  PROVE  \A v : <<"verdict", v>> \notin ReadFrom(d, S)
<1> SUFFICES ASSUME NEW v, <<"verdict", v>> \in ReadFrom(d, S) PROVE FALSE OBVIOUS
<1>1. PICK f \in S : <<"verdict", v>> \in d[f].from BY ReadFromIs
<1> QED BY <1>1 DEF Plain

(* ... and what is computed are no verdicts.                               *)
LEMMA ComputesPlainly ==
  ASSUME NEW d, Plain(d), NEW S, S \subseteq Parts
  PROVE  \A v : <<"verdict", v>> \notin Computed(d, S)
<1>1. \A p \in Parts : \A v : <<"verdict", v>> # Stamp(p) BY DEF Stamp, Parts
<1>2. ContractFile \in Files \ Verdicts BY FilesAre DEF ResearchFiles, ContractFile, Verdicts
<1>3. "contract" \in Parts BY DEF Parts
<1>4. \A v : <<"verdict", v>> \notin LookupContract(d) BY <1>1, <1>2, <1>3 DEF LookupContract, Plain
<1> HIDE DEF Stamp
<1> QED BY <1>1, <1>4 DEF Computed

(* The parts a payload is computed from.                                   *)
LEMMA PartsAre == \A f : PartsOf(f) \subseteq Parts
BY DEF PartsOf, Parts, Compiled

(* What any other step writes is no verdict.                               *)
LEMMA ContentPlain ==
  ASSUME NEW d, Plain(d), NEW f, f \notin Verdicts
  PROVE  \A v : <<"verdict", v>> \notin Content(d, f)
<1> DEFINE P(S) == \A v : <<"verdict", v>> \notin S
           Safe == Files \ Verdicts
<1>1. \A S : S \subseteq Safe => P(ReadFrom(d, S)) BY ReadsPlainly
<1>2. \A S : S \subseteq Parts => P(Computed(d, S)) BY ComputesPlainly
<1>3. P({Stamp("circuits")}) /\ P({Stamp("contract")}) BY DEF Stamp
<1>4. \A S, T : P(S) /\ P(T) => P(S \cup T) OBVIOUS
<1>5. /\ ProjectionFiles \subseteq Safe /\ ResearchFiles \subseteq Safe /\ AuditFiles \subseteq Safe
      /\ BuildFiles \subseteq Safe /\ "cain_exact_transfer" \in Safe
  BY FilesAre DEF Verdicts, ProjectionFiles, ResearchFiles, AuditFiles, BuildFiles, PayloadFiles,
     ContractFile, FoldedScaffold, Counts, Targets, Results
<1>6. "resource_projection" \in Safe BY <1>5 DEF ProjectionFiles
<1>7. /\ ContractFile \in Safe /\ FoldedScaffold \in Safe /\ "dominant_cost_breakdown" \in Safe
      /\ "lookup_folded_projection" \in Safe /\ "lookup_signed_fold_summary" \in Safe
      /\ "optimization_frontier_estimates" \in Safe
  BY <1>5 DEF ResearchFiles
<1>8. "family_frontier" \in Safe /\ Counts \in Safe /\ Targets \in Safe /\ Results \in Safe
  BY <1>5 DEF BuildFiles, PayloadFiles
<1>9. Compiled \subseteq Parts /\ PartsOf(f) \subseteq Parts /\ Parts \subseteq Parts BY PartsAre DEF Compiled
<1> HIDE DEF P, Safe
<1>10. P(Projection(d)) /\ P(FoldedSchedule(d)) /\ P(FoldingAudit(d)) /\ P(ContractAudit(d))
  BY <1>1, <1>3, <1>4, <1>7 DEF Projection, FoldedSchedule, FoldingAudit, ContractAudit
<1>11. /\ P(DominantCost(d)) /\ P(FoldedProjection(d)) /\ P(LiteratureScenarios(d))
       /\ P(FrontierEstimates(d)) /\ P(ResearchSummary(d)) /\ P(ClaimBoundary(d))
  BY <1>1, <1>6, <1>7
  DEF DominantCost, FoldedProjection, LiteratureScenarios, FrontierEstimates, ResearchSummary, ClaimBoundary
<1>12. P(QubitBreakthrough(d)) BY <1>1, <1>2, <1>4, <1>6, <1>9 DEF QubitBreakthrough
<1>13. /\ P(LogicalCounts(d)) /\ P(CainTransfer(d)) /\ P(EstimatorTargets(d)) /\ P(CainSummary(d))
  BY <1>1, <1>5, <1>8 DEF LogicalCounts, CainTransfer, EstimatorTargets, CainSummary
<1>14. P(AttestationInput(d)) BY <1>2, <1>9 DEF AttestationInput
<1>15. P(EstimatorResults(d))
  <2>1. P(ReadFrom(d, {Counts, Targets})) BY <1>1, <1>8
  <2>2. P(d[Results].from) BY <1>8 DEF Plain, Safe, P
  <2> QED BY <2>1, <2>2 DEF EstimatorResults
<1>16. P(Computed(d, PartsOf(f))) BY <1>2, <1>9
<1>17. /\ f # "verification_summary" /\ f # "repo_verification_summary" /\ f # "figures"
  BY DEF Verdicts
<1>18. P(Content(d, f))
  BY <1>3, <1>10, <1>11, <1>12, <1>13, <1>14, <1>15, <1>16, <1>17 DEF Content
<1> QED BY <1>18 DEF P

(* Nor after several writes.                                               *)
LEMMA WriteAllPlain ==
  ASSUME NEW d, Tree(d), Plain(d), NEW S, NEW s \in Seq(S)
  PROVE  Plain(WriteAll(d, s))
<1> DEFINE N == Len(s)
<1>1. N \in Nat OBVIOUS
<1>2. PICK h : Successive(h, d, s) /\ WriteAll(d, s) = h[N] BY <1>1, WriteAllIs
<1> HIDE DEF N
<1>3. h[0] = d /\ \A i \in 1 .. N : h[i] = Rewrite(h[i - 1], s[i]) BY <1>2 DEF Successive, N
<1> DEFINE T == {i \in Nat : i <= N => Tree(h[i]) /\ Plain(h[i])}
<1>4. 0 \in T BY <1>3
<1>5. ASSUME NEW i \in Nat, i \in T PROVE i + 1 \in T
  <2> SUFFICES ASSUME i + 1 <= N PROVE Tree(h[i + 1]) /\ Plain(h[i + 1]) OBVIOUS
  <2>1. Tree(h[i]) /\ Plain(h[i]) /\ i + 1 \in 1 .. N /\ (i + 1) - 1 = i BY <1>1, <1>5
  <2>2. h[i + 1] = Rewrite(h[i], s[i + 1]) BY <2>1, <1>3
  <2>3. /\ Tree(h[i + 1])
        /\ \A g \in Files : g # s[i + 1] => h[i + 1][g] = h[i][g]
        /\ s[i + 1] \in Files => h[i + 1][s[i + 1]] = Whole(Content(h[i], s[i + 1]))
    BY <2>1, <2>2, RewriteIs
  <2>4. ASSUME NEW f \in Files \ Verdicts, NEW v PROVE <<"verdict", v>> \notin h[i + 1][f].from
    <3>1. CASE f # s[i + 1] BY <2>1, <2>3, <3>1 DEF Plain
    <3>2. CASE f = s[i + 1]
      <4>1. <<"verdict", v>> \notin Content(h[i], f) BY <2>1, <2>4, ContentPlain
      <4>2. h[i + 1][f] = Whole(Content(h[i], f)) BY <2>3, <2>4, <3>2
      <4> QED BY <4>1, <4>2 DEF Whole
    <3> QED BY <3>1, <3>2
  <2> QED BY <2>3, <2>4 DEF Plain
<1> HIDE DEF T
<1>6. Nat \subseteq T BY <1>4, <1>5, SetInduction
<1>7. N \in T BY <1>1, <1>6
<1> QED BY <1>1, <1>2, <1>7 DEF T

(* Initially.                                                              *)
LEMMA PlainInit == Init => Plain(disk)
<1>1. PICK d, w : /\ Tree(d) /\ w \in Seq(Files) /\ Released = WriteAll(d, w)
                  /\ \A f \in Files : d[f].from \subseteq {Stamp(p) : p \in Compiled}
  BY ReleasedWrites
<1>2. \A p \in Compiled : \A v : <<"verdict", v>> # Stamp(p) BY DEF Stamp, Compiled, Parts
<1>3. Plain(d) BY <1>1, <1>2 DEF Plain
<1>4. Plain(Released) BY <1>1, <1>3, WriteAllPlain
<1> QED BY <1>4 DEF Init

(* A file deleted or torn holds no verdict.                                *)
LEMMA Emptied ==
  ASSUME NEW d, Tree(d), Plain(d), NEW f, NEW c \in {Torn, Absent}
  PROVE  Plain([d EXCEPT ![f] = c])
<1> DEFINE e == [d EXCEPT ![f] = c]
<1>1. DOMAIN d = Files BY DEF Tree
<1>2. c.from = {} BY DEF Torn, Absent
<1>3. Plain(e) BY <1>1, <1>2 DEF Plain
<1> HIDE DEF e
<1> QED BY <1>3 DEF e

(* No step puts a verdict into another file.                               *)
LEMMA PlainStep ==
  ASSUME Typed, Plain(disk), [Next]_vars
  PROVE  Plain(disk')
<1>1. Tree(disk) BY DEF Typed
<1>2. ASSUME UNCHANGED disk PROVE Plain(disk') BY <1>2
<1>3. ASSUME Perform PROVE Plain(disk')
  <2>1. Head(todo) \in Writers /\ disk' = WriteAll(disk, Writes[Head(todo)]) BY <1>3, WritesAre DEF Perform
  <2>2. Writes[Head(todo)] \in Seq(Files) BY <2>1, WritesAre
  <2> QED BY <1>1, <2>1, <2>2, WriteAllPlain
<1>4. ASSUME Raise PROVE Plain(disk')
  <2>1. WrittenBefore(disk, Head(todo)) \in Seq(Files) BY WrittenBeforeIs
  <2> QED BY <1>1, <1>4, <2>1, WriteAllPlain DEF Raise
<1>5. ASSUME ParallelResearchTest PROVE Plain(disk')
  <2> DEFINE f == ResearchOrder[tests.research \div 2 + 1]
  <2>1. disk' = IF tests.research % 2 = 0 THEN [disk EXCEPT ![f] = Torn] ELSE Rewrite(disk, f)
    BY <1>5 DEF ParallelResearchTest
  <2> HIDE DEF f
  <2>2. Plain([disk EXCEPT ![f] = Torn]) BY <1>1, Emptied
  <2>3. Plain(Rewrite(disk, f))
    <3>1. <<f>> \in Seq({f}) OBVIOUS
    <3> QED BY <1>1, <3>1, WriteAllPlain, WriteOne
  <2> QED BY <2>1, <2>2, <2>3
<1>6. ASSUME NEW n \in Cuts, NEW torn \in BOOLEAN, Crash(n, torn) PROVE Plain(disk')
  <2>1. CASE ~(Head(todo) \in DOMAIN Writes /\ ~Raises(disk, Head(todo)))
    BY <1>6, <2>1 DEF Crash
  <2>2. CASE Head(todo) \in DOMAIN Writes /\ ~Raises(disk, Head(todo))
    <3> DEFINE s == Writes[Head(todo)]
               t == SubSeq(s, 1, n)
               done == WriteAll(disk, t)
    <3>1. s \in Seq(Files) BY <2>2, WritesAre
    <3>2. n < Len(s) /\ disk' = IF torn THEN [done EXCEPT ![s[n + 1]] = Torn] ELSE done
      BY <1>6, <2>2 DEF Crash
    <3> HIDE DEF s
    <3>3. n \in Nat /\ Len(s) \in Nat BY <3>1, PipelineAssumption
    <3>4. t \in Seq(Files) BY <3>1, <3>2, <3>3
    <3> HIDE DEF t
    <3>5. Tree(done) /\ Plain(done) BY <1>1, <3>4, WriteAllKeeps, WriteAllPlain
    <3> HIDE DEF done
    <3> QED BY <3>2, <3>5, Emptied
  <2> QED BY <2>1, <2>2
<1>7. ASSUME NEW f \in Removable, Delete(f) PROVE Plain(disk')
  BY <1>1, <1>7, Emptied DEF Delete
<1> QED BY <1>2, <1>3, <1>4, <1>5, <1>6, <1>7
  DEF Next, vars, tree, Start, Load, CompareCain, WriteProofManifest, WriteRepositoryManifest,
      EnsureTarget, SerialResearchTest, ManifestTest, EndTests, Edit

(* No artifact of the build is made from the summary that verify writes.   *)
LEMMA SummaryIsNotRead ==
  ASSUME source' = source, qsharp' = qsharp,
         \A g \in Files : g # "verification_summary" => disk'[g] = disk[g],
         NEW f \in Required
  PROVE  Content(disk, f)' = Content(disk, f)
<1> DEFINE Same(g) == disk'[g] = disk[g]
<1>1. f \in BuildFiles \cup {"cain_exact_transfer"} BY OrdersAre DEF Required, BuildFiles
<1>2. \A p : Stamp(p)' = Stamp(p) BY DEF Stamp
<1>3. /\ Same("family_frontier") /\ Same(Counts) /\ Same(Targets) /\ Same(Results)
      /\ Same("resource_projection") /\ Same(ContractFile)
  BY FilesAre DEF BuildFiles, PayloadFiles, ProjectionFiles, ResearchFiles, ContractFile, Counts, Targets,
     Results
<1>4. LookupContract(disk)' = LookupContract(disk) BY <1>3 DEF LookupContract, Stamp
<1>5. ASSUME NEW S PROVE Computed(disk, S)' = Computed(disk, S)
  BY <1>2, <1>4 DEF Computed
<1>6. /\ LogicalCounts(disk)' = LogicalCounts(disk) /\ CainTransfer(disk)' = CainTransfer(disk)
      /\ EstimatorTargets(disk)' = EstimatorTargets(disk)
  BY <1>3 DEF LogicalCounts, CainTransfer, EstimatorTargets, ReadFrom
<1>7. EstimatorResults(disk)' = EstimatorResults(disk)
  <2>1. ReadFrom(disk, {Counts, Targets})' = ReadFrom(disk, {Counts, Targets})
    BY <1>3 DEF ReadFrom
  <2> QED BY <1>3, <2>1 DEF EstimatorResults
<1>8. QubitBreakthrough(disk)' = QubitBreakthrough(disk)
  <2>1. ReadFrom(disk, {"resource_projection"})' = ReadFrom(disk, {"resource_projection"})
    BY <1>3 DEF ReadFrom
  <2> QED BY <1>5, <2>1 DEF QubitBreakthrough
<1>9. CASE f = "qubit_breakthrough_analysis"
  BY <1>8, <1>9, OrdersAre DEF Content, ContractFile, FoldedScaffold, Counts, Targets, Results
<1>10. CASE f \in {Counts, Targets, Results, "cain_exact_transfer"}
  BY <1>6, <1>7, <1>10, OrdersAre DEF Content, ContractFile, FoldedScaffold, Counts, Targets, Results
<1>11. CASE f \in (PayloadFiles \ {"qubit_breakthrough_analysis"}) \cup {"build_summary"}
  <2>1. Content(disk, f) = Computed(disk, PartsOf(f))
    BY <1>11, OrdersAre DEF Content, ContractFile, FoldedScaffold, Counts, Targets, Results, PayloadFiles
  <2>2. Content(disk, f)' = Computed(disk, PartsOf(f))'
    BY <1>11, OrdersAre DEF Content, ContractFile, FoldedScaffold, Counts, Targets, Results, PayloadFiles
  <2> QED BY <1>5, <2>1, <2>2
<1> QED BY <1>1, <1>9, <1>10, <1>11 DEF BuildFiles

(* The verdict of a verification that has just ended.                      *)
LEMMA NewVerdict ==
  ASSUME Typed, Plain(disk), Perform, VerdictVouches
  PROVE  VerdictVouches'
<1> SUFFICES ASSUME finished' = "verified", <<"verdict", "pass">> \in disk'["verification_summary"].from,
                    NEW f \in Required \ Unchecked'
             PROVE  Current(f)'
  BY DEF VerdictVouches
<1> DEFINE v == "verification_summary"
<1>1. Head(todo) = "verified" /\ ~Raises(disk, "verified") /\ source' = source /\ qsharp' = qsharp
  BY DEF Perform, Finish
<1>2. Tree(disk) /\ v \in Files /\ f \in Files BY FilesAre DEF Typed, Files
<1>3. disk' = Rewrite(disk, v) BY <1>1, WriteOne DEF Perform, Writes
<1>4. /\ \A g \in Files : g # v => disk'[g] = disk[g]
      /\ disk'[v] = Whole(Content(disk, v))
  BY <1>2, <1>3, RewriteIs
<1>5. IsWhole(disk, f) BY <1>1 DEF Raises, Unreadable, Reads
<1>6. Content(disk, v) = Verification(disk)
  BY OrdersAre DEF Content, ContractFile, FoldedScaffold, Counts, Targets, Results
<1>7. <<"verdict", "pass">> \in Verification(disk) BY <1>4, <1>6 DEF Whole
<1>8. <<"verdict", "pass">> \notin ReadFrom(disk, Required)
  <2>1. Required \subseteq Files \ Verdicts
    BY OrdersAre DEF Required, Files, Verdicts, PayloadFiles, Counts, Targets, Results
  <2> QED BY <2>1, ReadsPlainly
<1>9. AllChecksPass(disk)
  <2> SUFFICES ASSUME ~AllChecksPass(disk) PROVE FALSE OBVIOUS
  <2>1. <<"verdict", "pass">> # <<"verdict", "fail">> OBVIOUS
  <2> HIDE DEF v
  <2> QED BY <1>7, <1>8, <2>1 DEF Verification
<1>10. Unchecked' = Unchecked BY <1>1 DEF Unchecked
<1>11. disk[f].from = Content(disk, f) BY <1>9, <1>10, ChecksVouch
<1>12. f # v BY OrdersAre DEF Required, PayloadFiles, Counts, Targets, Results
<1>13. disk'[f] = Whole(Content(disk, f))
  <2>1. disk[f] = [is |-> "whole", from |-> Content(disk, f)] BY <1>2, <1>5, <1>11 DEF Tree, IsWhole
  <2> QED BY <1>2, <1>4, <1>12, <2>1 DEF Whole
<1>14. Content(disk, f)' = Content(disk, f) BY <1>1, <1>4, SummaryIsNotRead
<1> QED BY <1>13, <1>14 DEF Current, Whole

(* The inductive invariant.                                                *)
VerdictKept == Typed /\ Plain(disk) /\ VerdictVouches

(* When verify.py has just written a summary in which every check passes,  *)
(* every artifact that the checks compare is what the code makes now.      *)
THEOREM VerdictsVouch == Spec => []VerdictVouches
<1>1. Init => VerdictKept
  <2> SUFFICES ASSUME Init PROVE VerdictKept OBVIOUS
  <2>1. finished # "verified" BY DEF Init
  <2> QED BY <2>1, TypedInit, PlainInit DEF VerdictKept, VerdictVouches
<1>2. VerdictKept /\ [Next]_vars => VerdictKept'
  <2> SUFFICES ASSUME VerdictKept, [Next]_vars PROVE VerdictKept' OBVIOUS
  <2>1. Typed' /\ Plain(disk)' BY TypedStep, PlainStep DEF VerdictKept
  <2>2. CASE UNCHANGED vars
    <3> SUFFICES ASSUME finished' = "verified", <<"verdict", "pass">> \in disk'["verification_summary"].from,
                        NEW f \in Required \ Unchecked'
                 PROVE  Current(f)'
      BY <2>1 DEF VerdictVouches, VerdictKept
    <3>1. finished' = finished /\ disk' = disk /\ source' = source /\ qsharp' = qsharp BY <2>2 DEF vars
    <3>2. Unchecked' = Unchecked BY <3>1 DEF Unchecked
    <3>3. Current(f) BY <3>1, <3>2 DEF VerdictKept, VerdictVouches
    <3>4. Content(disk, f)' = Content(disk, f) BY <3>1, SummaryIsNotRead
    <3> QED BY <3>1, <3>3, <3>4 DEF Current, Whole
  <2>3. CASE Perform BY <2>1, <2>3, NewVerdict DEF VerdictKept
  <2>4. ASSUME finished' # "verified" PROVE VerdictKept'
    BY <2>1, <2>4 DEF VerdictKept, VerdictVouches
  <2>5. CASE WriteProofManifest \/ WriteRepositoryManifest \/ EndTests
    <3>1. finished' # "verified"
      BY <2>5 DEF WriteProofManifest, WriteRepositoryManifest, EndTests, Finish, Running
    <3> QED BY <2>4, <3>1
  <2>6. ASSUME finished' = "none" PROVE VerdictKept' BY <2>4, <2>6
  <2> QED BY <2>2, <2>3, <2>5, <2>6
    DEF Next, Start, Raise, Load, CompareCain, EnsureTarget, SerialResearchTest, ParallelResearchTest,
        ManifestTest, Crash, Edit, Delete
<1> QED BY <1>1, <1>2, PTL DEF Spec, VerdictKept
-----------------------------------------------------------------------------
(***************************************************************************)
(* A refresh, and a parallel test run, step by step.                       *)
(***************************************************************************)
(* The steps of a parallel test run; those of a refresh are the first 18.  *)
Plan ==
  <<"projection", "rebuild_summary", "research", "build", "cain_transfer", "zkp_inputs", "load",
    "projection", "audits", "build", "cain_transfer", "zkp_inputs", "load",
    "repo_summary", "cain_summary", "figures", "proof_manifest", "repository_manifest", "compare", "tests">>

(* Two sequences, one after the other.                                     *)
LEMMA ConcatIs ==
  ASSUME NEW S, NEW s \in Seq(S), NEW t \in Seq(S)
  PROVE  /\ s \o t \in Seq(S) /\ Len(s \o t) = Len(s) + Len(t)
         /\ \A i \in 1 .. Len(s) : (s \o t)[i] = s[i]
         /\ \A i \in 1 .. Len(t) : (s \o t)[Len(s) + i] = t[i]
OBVIOUS

(* The steps of a refresh and of a parallel test run are the plan.         *)
LEMMA PlanIs ==
  /\ Len(Refresh) = 18 /\ \A i \in 1 .. 18 : Refresh[i] = Plan[i]
  /\ Len(RunTests) = 20 /\ \A i \in 1 .. 20 : RunTests[i] = Plan[i]
<1>1. /\ Len(VerifyAll) = 7
      /\ VerifyAll[1] = "projection" /\ VerifyAll[2] = "audits" /\ VerifyAll[3] = "build"
      /\ VerifyAll[4] = "cain_transfer" /\ VerifyAll[5] = "zkp_inputs" /\ VerifyAll[6] = "load"
      /\ VerifyAll[7] = "repo_summary"
  BY DEF VerifyAll, Build, Verify
<1>2. /\ Len(Refresh) = 18
      /\ Refresh[1] = "projection" /\ Refresh[2] = "rebuild_summary" /\ Refresh[3] = "research"
      /\ Refresh[4] = "build" /\ Refresh[5] = "cain_transfer" /\ Refresh[6] = "zkp_inputs"
      /\ Refresh[7] = "load" /\ Refresh[8] = "projection" /\ Refresh[9] = "audits"
      /\ Refresh[10] = "build" /\ Refresh[11] = "cain_transfer" /\ Refresh[12] = "zkp_inputs"
      /\ Refresh[13] = "load" /\ Refresh[14] = "repo_summary" /\ Refresh[15] = "cain_summary"
      /\ Refresh[16] = "figures" /\ Refresh[17] = "proof_manifest" /\ Refresh[18] = "repository_manifest"
  <2> DEFINE s == <<"projection", "rebuild_summary", "research">> \o Build \o Verify
             t == <<"cain_summary", "figures", "proof_manifest", "repository_manifest">>
  <2>1. /\ Len(s) = 7 /\ s[1] = "projection" /\ s[2] = "rebuild_summary" /\ s[3] = "research"
        /\ s[4] = "build" /\ s[5] = "cain_transfer" /\ s[6] = "zkp_inputs" /\ s[7] = "load"
    BY DEF Build, Verify
  <2>2. /\ Len(t) = 4 /\ t[1] = "cain_summary" /\ t[2] = "figures" /\ t[3] = "proof_manifest"
        /\ t[4] = "repository_manifest"
    OBVIOUS
  <2>3. Refresh = (s \o VerifyAll) \o t BY DEF Refresh
  <2>4. s \in Seq(StepNames) /\ t \in Seq(StepNames) /\ VerifyAll \in Seq(StepNames)
    <3> DEFINE r == <<"projection", "rebuild_summary", "research">>
    <3>1. r \in Seq(StepNames) /\ t \in Seq(StepNames) BY DEF StepNames
    <3> HIDE DEF r, t
    <3>2. r \o Build \o Verify \in Seq(StepNames) BY <3>1, RefreshSteps
    <3> QED BY <3>1, <3>2, RefreshSteps DEF r
  <2> HIDE DEF s, t
  <2> DEFINE u == s \o VerifyAll
             w == u \o t
  <2>5. /\ u \in Seq(StepNames) /\ Len(u) = Len(s) + Len(VerifyAll)
        /\ \A i \in 1 .. Len(s) : u[i] = s[i]
        /\ \A i \in 1 .. Len(VerifyAll) : u[Len(s) + i] = VerifyAll[i]
    BY <2>4, ConcatIs
  <2>6. /\ w \in Seq(StepNames) /\ Len(w) = Len(u) + Len(t)
        /\ \A i \in 1 .. Len(u) : w[i] = u[i]
        /\ \A i \in 1 .. Len(t) : w[Len(u) + i] = t[i]
    <3> HIDE DEF u
    <3>1. u \in Seq(StepNames) /\ t \in Seq(StepNames) BY <2>4, <2>5
    <3> QED BY <3>1, ConcatIs
  <2>7. Refresh = w BY <2>3
  <2> HIDE DEF u, w
  <2>8. Len(u) = 14 /\ Len(w) = 18 BY <1>1, <2>1, <2>2, <2>5, <2>6
  <2>9. /\ w[1] = s[1] /\ w[2] = s[2] /\ w[3] = s[3] /\ w[4] = s[4] /\ w[5] = s[5] /\ w[6] = s[6]
        /\ w[7] = s[7]
    BY <2>1, <2>5, <2>6, <2>8
  <2>10. \A i \in 1 .. 7 : w[7 + i] = VerifyAll[i]
    <3>1. \A i \in 1 .. 7 : 7 + i \in 1 .. 14 OBVIOUS
    <3>2. \A i \in 1 .. 14 : w[i] = u[i] BY <2>6, <2>8
    <3>3. \A i \in 1 .. 7 : u[7 + i] = VerifyAll[i] BY <1>1, <2>1, <2>5
    <3> QED BY <3>1, <3>2, <3>3
  <2>11. /\ w[8] = VerifyAll[1] /\ w[9] = VerifyAll[2] /\ w[10] = VerifyAll[3] /\ w[11] = VerifyAll[4]
         /\ w[12] = VerifyAll[5] /\ w[13] = VerifyAll[6] /\ w[14] = VerifyAll[7]
    <3>1. w[7 + 1] = VerifyAll[1] /\ w[7 + 2] = VerifyAll[2] /\ w[7 + 3] = VerifyAll[3]
          /\ w[7 + 4] = VerifyAll[4] /\ w[7 + 5] = VerifyAll[5] /\ w[7 + 6] = VerifyAll[6]
          /\ w[7 + 7] = VerifyAll[7]
      BY <2>10
    <3> QED BY <3>1
  <2>12. w[15] = t[1] /\ w[16] = t[2] /\ w[17] = t[3] /\ w[18] = t[4]
    <3>1. w[14 + 1] = t[1] /\ w[14 + 2] = t[2] /\ w[14 + 3] = t[3] /\ w[14 + 4] = t[4]
      BY <2>2, <2>6, <2>8
    <3> QED BY <3>1
  <2> QED BY <1>1, <2>1, <2>2, <2>8, <2>7, <2>9, <2>11, <2>12
<1>3. ASSUME NEW i \in 1 .. 18 PROVE Refresh[i] = Plan[i]
  BY <1>2 DEF Plan
<1>4. Len(RunTests) = 20 /\ \A i \in 1 .. 20 : RunTests[i] = Plan[i]
  <2> DEFINE t == <<"tests">>
             u == Refresh \o Compare
  <2>1. Refresh \in Seq(StepNames) /\ Compare \in Seq(StepNames) /\ t \in Seq(StepNames)
    BY RefreshSteps DEF StepNames
  <2>2. Len(Compare) = 1 /\ Compare[1] = "compare" /\ Len(t) = 1 /\ t[1] = "tests" BY DEF Compare
  <2>3. RunTests = u \o t BY DEF RunTests
  <2> HIDE DEF t
  <2>4. /\ u \in Seq(StepNames) /\ Len(u) = Len(Refresh) + Len(Compare)
        /\ \A i \in 1 .. Len(Refresh) : u[i] = Refresh[i]
        /\ \A i \in 1 .. Len(Compare) : u[Len(Refresh) + i] = Compare[i]
    BY <2>1, ConcatIs
  <2> HIDE DEF u
  <2> DEFINE w == u \o t
  <2>5. /\ w \in Seq(StepNames) /\ Len(w) = Len(u) + Len(t)
        /\ \A i \in 1 .. Len(u) : w[i] = u[i]
        /\ \A i \in 1 .. Len(t) : w[Len(u) + i] = t[i]
    <3>1. u \in Seq(StepNames) /\ t \in Seq(StepNames) BY <2>1, <2>4
    <3> QED BY <3>1, ConcatIs
  <2>6. RunTests = w BY <2>3
  <2> HIDE DEF w
  <2>7. Len(u) = 19 /\ u[18 + 1] = "compare" BY <1>2, <2>2, <2>4
  <2>8. Len(w) = 20 /\ w[19 + 1] = "tests" BY <2>2, <2>5, <2>7
  <2>9. ASSUME NEW i \in 1 .. 20 PROVE w[i] = Plan[i]
    <3>1. CASE i \in 1 .. 18
      <4>1. w[i] = u[i] /\ u[i] = Refresh[i] BY <1>2, <2>4, <2>5, <2>7, <3>1
      <4> QED BY <4>1, <3>1, <1>3
    <3>2. CASE i = 19
      <4>1. w[19] = "compare" BY <2>5, <2>7
      <4> QED BY <3>2, <4>1 DEF Plan
    <3>3. CASE i = 20
      <4>1. w[20] = "tests" BY <2>8
      <4> QED BY <3>3, <4>1 DEF Plan
    <3> QED BY <3>1, <3>2, <3>3
  <2> QED BY <2>6, <2>8, <2>9
<1> QED BY <1>2, <1>3, <1>4

(* Where a step stands in the plan.                                        *)
LEMMA PlanSteps ==
  ASSUME NEW k \in 1 .. 20
  PROVE  /\ Plan[k] = "projection" <=> k \in {1, 8}
         /\ Plan[k] = "rebuild_summary" <=> k = 2
         /\ Plan[k] = "research" <=> k = 3
         /\ Plan[k] = "build" <=> k \in {4, 10}
         /\ Plan[k] = "cain_transfer" <=> k \in {5, 11}
         /\ Plan[k] = "zkp_inputs" <=> k \in {6, 12}
         /\ Plan[k] = "load" <=> k \in {7, 13}
         /\ Plan[k] = "audits" <=> k = 9
         /\ Plan[k] = "repo_summary" <=> k = 14
         /\ Plan[k] = "cain_summary" <=> k = 15
         /\ Plan[k] = "figures" <=> k = 16
         /\ Plan[k] = "proof_manifest" <=> k = 17
         /\ Plan[k] = "repository_manifest" <=> k = 18
         /\ Plan[k] = "compare" <=> k = 19
         /\ Plan[k] = "tests" <=> k = 20
         /\ Plan[k] # "verified" /\ Plan[k] # "shown"
BY DEF Plan

(* How far a refresh or a parallel test run has come, and what is left:    *)
(* the rest of the plan, the next step perhaps already expanded.           *)
Planned   == command.name \in {"refresh", "run_tests"}
Performed == (IF command.name = "refresh" THEN 18 ELSE 20) - Len(todo)
Expanded(k, step) == (Plan[k] = "load" /\ step = "verified") \/ (Plan[k] = "compare" /\ step = "shown")
Follows ==
  /\ 0 <= Performed
  /\ \A i \in 1 .. Len(todo) : todo[i] = Plan[Performed + i] \/ (i = 1 /\ Expanded(Performed + 1, todo[1]))

(* The next step is that of the plan ...                                   *)
LEMMA HeadStep ==
  ASSUME Typed, Follows, todo # << >>
  PROVE  /\ Performed \in 0 .. 19 /\ Len(todo) \in Nat
         /\ Head(todo) = Plan[Performed + 1] \/ Expanded(Performed + 1, Head(todo))
<1>1. Len(todo) \in Nat /\ Len(todo) >= 1 /\ Head(todo) = todo[1] BY HeadOf DEF Typed
<1>2. 0 <= Performed BY DEF Follows
<1> DEFINE n == IF command.name = "refresh" THEN 18 ELSE 20
<1>3. Performed = n - Len(todo) BY DEF Performed
<1>4. n \in {18, 20} OBVIOUS
<1> HIDE DEF n
<1> DEFINE l == Len(todo)
<1>5. l \in Nat /\ l >= 1 /\ 0 <= n - l BY <1>1, <1>2, <1>3
<1> HIDE DEF l
<1>6. n - l \in 0 .. 19 BY <1>4, <1>5
<1>7. Performed \in 0 .. 19 BY <1>3, <1>6 DEF l
<1> QED BY <1>1, <1>7 DEF Follows

(* ... so it tells how many have been performed.                           *)
LEMMA HeadIs ==
  ASSUME Typed, Follows, todo # << >>
  PROVE  /\ Head(todo) = "projection" => Performed \in {0, 7}
         /\ Head(todo) = "rebuild_summary" => Performed = 1
         /\ Head(todo) = "research" => Performed = 2
         /\ Head(todo) = "build" => Performed \in {3, 9}
         /\ Head(todo) = "cain_transfer" => Performed \in {4, 10}
         /\ Head(todo) = "zkp_inputs" => Performed \in {5, 11}
         /\ Head(todo) \in {"load", "verified"} => Performed \in {6, 12} /\ Plan[Performed + 1] = "load"
         /\ Head(todo) = "audits" => Performed = 8
         /\ Head(todo) = "repo_summary" => Performed = 13
         /\ Head(todo) = "cain_summary" => Performed = 14
         /\ Head(todo) = "figures" => Performed = 15
         /\ Head(todo) = "proof_manifest" => Performed = 16
         /\ Head(todo) = "repository_manifest" => Performed = 17
         /\ Head(todo) \in {"compare", "shown"} => Performed = 18 /\ Plan[Performed + 1] = "compare"
         /\ Head(todo) = "tests" => Performed = 19
<1> DEFINE k == Performed
<1>1. k \in 0 .. 19 /\ (Head(todo) = Plan[k + 1] \/ Expanded(k + 1, Head(todo))) BY HeadStep
<1>2. k + 1 \in 1 .. 20 BY <1>1
<1> DEFINE h == Head(todo)
           j == k + 1
<1> HIDE DEF k, h
<1>3. h = Plan[k + 1] \/ (Plan[k + 1] = "load" /\ h = "verified") \/ (Plan[k + 1] = "compare" /\ h = "shown")
  BY <1>1 DEF Expanded, h
<1>4. j \in 1 .. 20 /\ k = j - 1 BY <1>1
<1> HIDE DEF j
<1>5. h = Plan[j] \/ (Plan[j] = "load" /\ h = "verified") \/ (Plan[j] = "compare" /\ h = "shown")
  BY <1>3 DEF j
<1>6. /\ h = "projection" => j \in {1, 8}
      /\ h = "rebuild_summary" => j = 2
      /\ h = "research" => j = 3
      /\ h = "build" => j \in {4, 10}
      /\ h = "cain_transfer" => j \in {5, 11}
      /\ h = "zkp_inputs" => j \in {6, 12}
      /\ h \in {"load", "verified"} => j \in {7, 13} /\ Plan[j] = "load"
      /\ h = "audits" => j = 9
      /\ h = "repo_summary" => j = 14
      /\ h = "cain_summary" => j = 15
      /\ h = "figures" => j = 16
      /\ h = "proof_manifest" => j = 17
      /\ h = "repository_manifest" => j = 18
      /\ h \in {"compare", "shown"} => j = 19 /\ Plan[j] = "compare"
      /\ h = "tests" => j = 20
  BY <1>4, <1>5, PlanSteps
<1>7. /\ h = "projection" => k \in {0, 7}
      /\ h = "rebuild_summary" => k = 1
      /\ h = "research" => k = 2
      /\ h = "build" => k \in {3, 9}
      /\ h = "cain_transfer" => k \in {4, 10}
      /\ h = "zkp_inputs" => k \in {5, 11}
      /\ h \in {"load", "verified"} => k \in {6, 12} /\ Plan[k + 1] = "load"
      /\ h = "audits" => k = 8
      /\ h = "repo_summary" => k = 13
      /\ h = "cain_summary" => k = 14
      /\ h = "figures" => k = 15
      /\ h = "proof_manifest" => k = 16
      /\ h = "repository_manifest" => k = 17
      /\ h \in {"compare", "shown"} => k = 18 /\ Plan[k + 1] = "compare"
      /\ h = "tests" => k = 19
  BY <1>1, <1>4, <1>6 DEF j
<1> QED BY <1>7 DEF k, h

(* A step that ends leaves the rest of the plan ...                        *)
LEMMA NextStep ==
  ASSUME Typed, Follows, todo # << >>, todo' = Tail(todo), command'.name = command.name
  PROVE  Performed' = Performed + 1 /\ Follows'
<1>1. Len(todo) \in Nat /\ Len(todo) >= 1 /\ Len(todo') = Len(todo) - 1 BY HeadOf
<1>2. \A i \in 1 .. Len(todo') : todo'[i] = todo[i + 1] BY <1>1 DEF Typed
<1>3. Performed' = Performed + 1 BY <1>1 DEF Performed
<1>4. Performed \in 0 .. 19 BY HeadStep
<1>5. ASSUME NEW i \in 1 .. Len(todo') PROVE todo'[i] = Plan[(Performed + 1) + i]
  <2>1. i + 1 \in 1 .. Len(todo) /\ i + 1 # 1 BY <1>1
  <2>2. todo[i + 1] = Plan[Performed + (i + 1)] BY <2>1 DEF Follows
  <2>3. Performed + (i + 1) = (Performed + 1) + i BY <1>4
  <2> QED BY <1>2, <2>2, <2>3
<1> QED BY <1>3, <1>4, <1>5 DEF Follows

(* ... and so does one that is expanded.                                   *)
LEMMA SameStep ==
  ASSUME Typed, Follows, todo # << >>, NEW s, Expanded(Performed + 1, s), todo' = <<s>> \o Tail(todo),
         command'.name = command.name, s \in StepNames
  PROVE  Performed' = Performed /\ Follows' /\ todo' # << >>
<1> DEFINE t == Tail(todo)
<1>1. Len(todo) \in Nat /\ Len(todo) >= 1 /\ Len(t) = Len(todo) - 1 /\ t \in Seq(StepNames) BY HeadOf
<1>2. \A i \in 1 .. Len(t) : t[i] = todo[i + 1] BY <1>1 DEF Typed
<1>3. <<s>> \in Seq(StepNames) /\ Len(<<s>>) = 1 OBVIOUS
<1> HIDE DEF t
<1>4. todo' = <<s>> \o t BY DEF t
<1>5. Len(todo') = Len(todo) /\ todo'[1] = s /\ \A i \in 2 .. Len(todo) : todo'[i] = t[i - 1]
  BY <1>1, <1>3, <1>4
<1>6. Performed' = Performed BY <1>5 DEF Performed
<1>7. ASSUME NEW i \in 2 .. Len(todo) PROVE todo'[i] = Plan[Performed + i]
  <2>1. i - 1 \in 1 .. Len(t) /\ (i - 1) + 1 = i /\ i \in 1 .. Len(todo) /\ i # 1 BY <1>1
  <2>2. todo'[i] = todo[i] BY <1>2, <1>5, <2>1
  <2> QED BY <2>1, <2>2 DEF Follows
<1>8. \A i \in 1 .. Len(todo') : i = 1 \/ i \in 2 .. Len(todo) BY <1>1, <1>5
<1>9. Expanded(Performed' + 1, todo'[1]) BY <1>5, <1>6 DEF Expanded
<1> QED BY <1>1, <1>5, <1>6, <1>7, <1>8, <1>9 DEF Follows

(* The files that k steps of the plan have written.  The tests may tear    *)
(* those of the research pass.                                             *)
MadeAfter(f, k) ==
  \/ k > 0 /\ f \in ProjectionFiles
  \/ k > 0 /\ k < 19 /\ f \in {ContractFile, FoldedScaffold}
  \/ k > 2 /\ k < 19 /\ f \in ResearchFiles
  \/ k > 3 /\ f \in BuildFiles
  \/ k > 4 /\ f = "cain_exact_transfer"
  \/ k > 6 /\ f = "verification_summary"
  \/ k > 13 /\ f = "repo_verification_summary"
  \/ k > 14 /\ f = "cain_2026_integration_summary"

MadeSoFar == \A f \in Files : MadeAfter(f, Performed) => IsWhole(disk, f)

(* A step of the plan reads what the steps before it have written; only    *)
(* the first reads files that no step before it writes.                    *)
LEMMA Readable ==
  ASSUME Typed, Follows, todo # << >>, MadeSoFar, Head(todo) \in Writers, Performed # 0
  PROVE  ~Unreadable(disk, Head(todo))
<1> DEFINE k == Performed
           h == Head(todo)
           M(f) == MadeAfter(f, k)
           W(f) == IsWhole(disk, f)
<1>1. k \in 1 .. 19 BY HeadStep
<1>2. \A f \in Files : M(f) => W(f) BY DEF MadeSoFar
<1>3. /\ h = "projection" => k \in {0, 7}
      /\ h = "rebuild_summary" => k = 1
      /\ h = "research" => k = 2
      /\ h = "build" => k \in {3, 9}
      /\ h = "cain_transfer" => k \in {4, 10}
      /\ h = "zkp_inputs" => k \in {5, 11}
      /\ h = "verified" => k \in {6, 12}
      /\ h = "audits" => k = 8
      /\ h = "repo_summary" => k = 13
      /\ h = "cain_summary" => k = 14
      /\ h = "figures" => k = 15
      /\ h = "shown" => k = 18
  BY HeadIs
<1> DEFINE InFiles(S) == S \subseteq Files
<1>4. /\ InFiles(ProjectionFiles) /\ InFiles(ResearchFiles) /\ InFiles(BuildFiles)
      /\ InFiles({"cain_exact_transfer", "verification_summary", "repo_verification_summary",
                  "cain_2026_integration_summary"})
  BY FilesAre
<1>5. W(ContractFile) \/ k = 19
  <2>1. ContractFile \in Files BY <1>4 DEF ResearchFiles
  <2>2. k # 19 => M(ContractFile) BY <1>1 DEF MadeAfter
  <2> QED BY <1>2, <2>1, <2>2
<1>6. W(FoldedScaffold) \/ k = 19
  <2>1. FoldedScaffold \in Files BY <1>4 DEF ResearchFiles
  <2>2. k # 19 => M(FoldedScaffold) BY <1>1 DEF MadeAfter
  <2> QED BY <1>2, <2>1, <2>2
<1>7. W("resource_projection")
  <2>1. M("resource_projection") BY <1>1 DEF MadeAfter, ProjectionFiles
  <2>2. "resource_projection" \in Files BY <1>4 DEF ProjectionFiles
  <2> QED BY <1>2, <2>1, <2>2
<1>8. ASSUME k > 2, k < 19, NEW f \in ResearchFiles PROVE W(f)
  <2>1. M(f) BY <1>8 DEF MadeAfter
  <2> QED BY <1>2, <1>4, <1>8, <2>1
<1>9. ASSUME k > 3, NEW f \in BuildFiles PROVE W(f)
  <2>1. M(f) BY <1>9 DEF MadeAfter
  <2> QED BY <1>2, <1>4, <1>9, <2>1
<1>10. k > 4 => W("cain_exact_transfer") BY <1>2, <1>4 DEF MadeAfter
<1>11. k > 6 => W("verification_summary") BY <1>2, <1>4 DEF MadeAfter
<1>12. k > 13 => W("repo_verification_summary") BY <1>2, <1>4 DEF MadeAfter
<1>13. k > 14 => W("cain_2026_integration_summary") BY <1>2, <1>4 DEF MadeAfter
<1> HIDE DEF k, h, M, W
<1>14. h \in Writers BY DEF h
<1>15. disk[ContractFile].is = "torn" => ~W(ContractFile) BY DEF W, IsWhole
<1>16. ASSUME \A f \in Reads(h) : W(f), h = "build" => W(ContractFile) PROVE ~Unreadable(disk, h)
  BY <1>15, <1>16 DEF Unreadable, W
<1>17. CASE h = "projection"
  <2>1. Reads(h) = {ContractFile, FoldedScaffold} BY <1>17 DEF Reads
  <2> QED BY <1>3, <1>5, <1>6, <1>16, <1>17, <2>1 DEF h
<1>18. CASE h \in {"research", "build"}
  <2>1. Reads(h) = {"resource_projection"} BY <1>18 DEF Reads
  <2> QED BY <1>3, <1>5, <1>7, <1>16, <1>18, <2>1 DEF h
<1>19. CASE h = "audits"
  <2>1. Reads(h) = {ContractFile, "resource_projection"} BY <1>19 DEF Reads
  <2> QED BY <1>3, <1>5, <1>7, <1>16, <1>19, <2>1 DEF h
<1>20. CASE h = "verified"
  <2>1. Reads(h) = Required \cup {ContractFile, "resource_projection"} BY <1>20 DEF Reads
  <2>2. Required = BuildFiles \cup {"cain_exact_transfer"} BY OrdersAre DEF Required, BuildFiles
  <2> QED BY <1>3, <1>5, <1>7, <1>9, <1>10, <1>16, <1>20, <2>1, <2>2 DEF h
<1>21. CASE h = "repo_summary"
  <2>1. Reads(h) = Summarised BY <1>21 DEF Reads
  <2>2. Summarised \subseteq BuildFiles \cup {"cain_exact_transfer", "verification_summary"}
    BY DEF Summarised, BuildFiles, PayloadFiles
  <2>3. \A f \in Reads(h) : f \in BuildFiles \/ f = "cain_exact_transfer" \/ f = "verification_summary"
    BY <2>1, <2>2
  <2> QED BY <1>3, <1>9, <1>10, <1>11, <1>16, <1>21, <2>3 DEF h
<1>22. CASE h = "cain_summary"
  <2>1. Reads(h) = {"family_frontier", "cain_exact_transfer"} BY <1>22 DEF Reads
  <2>2. "family_frontier" \in BuildFiles BY DEF BuildFiles, PayloadFiles
  <2> QED BY <1>3, <1>9, <1>10, <1>16, <1>22, <2>1, <2>2 DEF h
<1>23. CASE h = "shown"
  <2>1. Reads(h) = {"cain_2026_integration_summary"} BY <1>23 DEF Reads
  <2> QED BY <1>3, <1>13, <1>16, <1>23, <2>1 DEF h
<1>24. CASE h = "figures"
  <2>1. Reads(h) = Drawn BY <1>24 DEF Reads
  <2>2. \A f \in Drawn : f = "resource_projection" \/ f = "repo_verification_summary" \/ f \in ResearchFiles
    BY DEF Drawn, ResearchFiles
  <2> QED BY <1>3, <1>7, <1>8, <1>12, <1>16, <1>24, <2>1, <2>2 DEF h
<1>25. CASE h \in {"rebuild_summary", "cain_transfer", "zkp_inputs"}
  <2>1. Reads(h) = {} /\ h # "build" BY <1>25 DEF Reads
  <2>2. \A f \in Reads(h) : W(f) BY <2>1
  <2> QED BY <1>16, <2>1, <2>2 DEF h
<1>26. h \in {"projection", "rebuild_summary", "research", "audits", "build", "cain_transfer", "zkp_inputs",
             "verified", "repo_summary", "cain_summary", "shown", "figures"}
  BY <1>14 DEF Writers, StepNames
<1> QED BY <1>17, <1>18, <1>19, <1>20, <1>21, <1>22, <1>23, <1>24, <1>25, <1>26

(* What a step of the plan does not write was there before it.             *)
LEMMA MadeNext ==
  ASSUME Typed, Follows, todo # << >>, MadeSoFar, Perform, NEW f \in Files, MadeAfter(f, Performed + 1)
  PROVE  IsWhole(disk', f)
<1> DEFINE k == Performed
           h == Head(todo)
<1>1. k \in 0 .. 19 BY HeadStep
<1>2. h \in Writers /\ (f \notin WrittenBy[h] => disk'[f] = disk[f])
      /\ (f \in WrittenBy[h] => disk'[f].is = "whole")
  BY PerformIs
<1>3. CASE f \in WrittenBy[h] BY <1>2, <1>3 DEF IsWhole
<1>4. CASE f \notin WrittenBy[h]
  <2>1. k = 0 \/ MadeAfter(f, k)
    <3>1. /\ h = "projection" => k \in {0, 7}
          /\ h = "rebuild_summary" => k = 1
          /\ h = "research" => k = 2
          /\ h = "build" => k \in {3, 9}
          /\ h = "cain_transfer" => k \in {4, 10}
          /\ h = "zkp_inputs" => k \in {5, 11}
          /\ h = "verified" => k \in {6, 12}
          /\ h = "audits" => k = 8
          /\ h = "repo_summary" => k = 13
          /\ h = "cain_summary" => k = 14
          /\ h = "figures" => k = 15
          /\ h = "shown" => k = 18
      BY HeadIs
    <3>2. MadeAfter(f, k + 1) OBVIOUS
    <3>3. h \in Writers /\ f \notin WrittenBy[h] BY <1>2, <1>4
    <3> HIDE DEF k, h
    <3>4. CASE h \in {"rebuild_summary", "zkp_inputs", "audits", "figures", "shown", "projection"}
      BY <3>1, <3>2, <3>4, <1>1 DEF MadeAfter
    <3>5. CASE h = "research" BY <3>1, <3>2, <3>3, <3>5 DEF MadeAfter, WrittenBy
    <3>6. CASE h = "build" BY <3>1, <3>2, <3>3, <3>6 DEF MadeAfter, WrittenBy
    <3>7. CASE h = "cain_transfer" BY <3>1, <3>2, <3>3, <3>7 DEF MadeAfter, WrittenBy
    <3>8. CASE h = "verified" BY <3>1, <3>2, <3>3, <3>8 DEF MadeAfter, WrittenBy
    <3>9. CASE h = "repo_summary" BY <3>1, <3>2, <3>3, <3>9 DEF MadeAfter, WrittenBy
    <3>10. CASE h = "cain_summary" BY <3>1, <3>2, <3>3, <3>10 DEF MadeAfter, WrittenBy
    <3> QED BY <3>3, <3>4, <3>5, <3>6, <3>7, <3>8, <3>9, <3>10 DEF Writers, StepNames
  <2>2. CASE MadeAfter(f, k) BY <1>2, <1>4, <2>2 DEF MadeSoFar, IsWhole
  <2>3. CASE k = 0
    <3>1. h = "projection"
      <4>1. h = Plan[1] \/ Expanded(1, h) BY <2>3, HeadStep
      <4> QED BY <4>1 DEF Plan, Expanded
    <3>2. f \in {ContractFile, FoldedScaffold}
      <4>1. MadeAfter(f, 1) BY <2>3
      <4> HIDE DEF h, k
      <4>2. f \notin ProjectionFiles BY <1>4, <3>1 DEF WrittenBy
      <4> QED BY <4>1, <4>2 DEF MadeAfter
    <3>3. ~Unreadable(disk, "projection") BY <3>1 DEF Perform, Raises
    <3>4. Reads("projection") = {ContractFile, FoldedScaffold} BY DEF Reads
    <3>5. IsWhole(disk, f) BY <3>2, <3>3, <3>4 DEF Unreadable
    <3> QED BY <1>2, <1>4, <3>5 DEF IsWhole
  <2> QED BY <2>1, <2>2, <2>3
<1> QED BY <1>3, <1>4
-----------------------------------------------------------------------------
(***************************************************************************)
(* What a refresh and a parallel test run keep.                            *)
(***************************************************************************)
(* What the manifests record, but for the files of the research test, and  *)
(* what became of the tree the command started on.                         *)
Rewritten == IF command.name = "run_tests" THEN ToSet(ResearchOrder) ELSE {}
ProofRecorded == \A f \in ProofListed \ Rewritten : proofManifest[f] = disk[f]
AllRecorded ==
  /\ \A f \in RepositoryFiles \ Rewritten : manifest.files[f] = disk[f]
  /\ manifest.proof = proofManifest
WedgeKnown ==
  /\ ~wedged => ~ResultsMissing(disk) /\ (Performed = 0 => ~Wedged)
  /\ wedged => Performed <= 3 /\ ((Performed = 0 /\ Wedged) \/ ResultsMissing(disk))
(* The inductive invariant: of a running refresh or parallel test run ...  *)
Courses == Follows /\ MadeSoFar /\ WedgeKnown
InRecord == (Performed >= 17 => ProofRecorded) /\ (Performed >= 18 => AllRecorded)
OnCourse == Planned /\ todo # << >> => Courses /\ InRecord
(* ... and of every command that has ended.                                *)
Ends ==
  /\ todo # << >> => command.outcome = "running"
  /\ Planned /\ command.outcome = "completed" => ~wedged /\ ProofRecorded /\ AllRecorded
  /\ Planned /\ command.outcome = "raised" => wedged
Kept == OnCourse /\ Ends

(* Steps that change nothing of it.                                        *)
LEMMA Remains ==
  ASSUME Kept, UNCHANGED <<qsharp, disk, todo, command, wedged, proofManifest, manifest>>
  PROVE  Kept'
<1>1. Planned' = Planned /\ Performed' = Performed /\ Rewritten' = Rewritten
  BY DEF Planned, Performed, Rewritten
<1>2. Follows => Follows' BY <1>1 DEF Follows, Expanded
<1>3. MadeSoFar => MadeSoFar' BY <1>1 DEF MadeSoFar, IsWhole
<1>4. ResultsMissing(disk)' = ResultsMissing(disk) /\ Wedged' = Wedged
  BY DEF ResultsMissing, Wedged, IsWhole
<1>5. WedgeKnown => WedgeKnown' BY <1>1, <1>4 DEF WedgeKnown
<1>6. (ProofRecorded => ProofRecorded') /\ (AllRecorded => AllRecorded')
  BY <1>1 DEF ProofRecorded, AllRecorded
<1> QED BY <1>1, <1>2, <1>3, <1>5, <1>6 DEF Kept, OnCourse, Ends, Courses, InRecord

(* When a step of the plan has ended, another one is left, or it was the   *)
(* last of the command.                                                    *)
LEMMA LastStep ==
  ASSUME Typed, Planned, Follows, todo # << >>
  PROVE  /\ Len(todo) = 1 <=> (IF command.name = "refresh" THEN Performed = 17 ELSE Performed = 19)
         /\ Performed = 19 => command.name = "run_tests"
         /\ Performed = 18 => command.name = "run_tests"
         /\ Tail(todo) = << >> <=> Len(todo) = 1
<1>1. Len(todo) \in Nat /\ Len(todo) >= 1 /\ Len(Tail(todo)) = Len(todo) - 1 /\ Tail(todo) \in Seq(StepNames)
  BY HeadOf
<1>2. Tail(todo) = << >> <=> Len(todo) = 1
  <2> DEFINE t == Tail(todo)
  <2>1. t = << >> <=> Len(t) = 0
    <3>1. t \in Seq(StepNames) BY <1>1
    <3> HIDE DEF t
    <3> QED BY <3>1
  <2> QED BY <1>1, <2>1
<1> DEFINE l == Len(todo)
<1> HIDE DEF l
<1>3. l \in Nat /\ l >= 1 BY <1>1 DEF l
<1>4. CASE command.name = "refresh"
  <2>1. Performed = 18 - l BY <1>4 DEF Performed, l
  <2>2. (l = 1 <=> Performed = 17) /\ Performed # 18 /\ Performed # 19 BY <1>3, <2>1
  <2>3. Len(todo) = 1 <=> Performed = 17 BY <2>2 DEF l
  <2> QED BY <1>2, <1>4, <2>2, <2>3
<1>5. CASE command.name = "run_tests"
  <2>1. Performed = 20 - l BY <1>5 DEF Performed, l
  <2> QED BY <1>2, <1>3, <1>5, <2>1 DEF l
<1> QED BY <1>4, <1>5 DEF Planned

(* A step of the plan that ends.                                           *)
LEMMA PlannedPerform ==
  ASSUME Typed, [Next]_vars, Kept, Planned, Perform
  PROVE  Kept'
<1> DEFINE k == Performed
           h == Head(todo)
<1>1. Follows /\ MadeSoFar /\ WedgeKnown /\ InRecord /\ todo # << >> /\ command.outcome = "running"
  BY DEF Kept, OnCourse, Ends, Courses, Perform
<1>2. k \in 0 .. 19 BY <1>1, HeadStep
<1>3. h \in Writers /\ ~Raises(disk, h) BY WritesAre DEF Perform
<1>4. (h = "shown" /\ k = 18) \/ k \in 0 .. 15
  <2>1. /\ h = "projection" => k \in {0, 7}
        /\ h = "rebuild_summary" => k = 1
        /\ h = "research" => k = 2
        /\ h = "build" => k \in {3, 9}
        /\ h = "cain_transfer" => k \in {4, 10}
        /\ h = "zkp_inputs" => k \in {5, 11}
        /\ h = "verified" => k \in {6, 12}
        /\ h = "audits" => k = 8
        /\ h = "repo_summary" => k = 13
        /\ h = "cain_summary" => k = 14
        /\ h = "figures" => k = 15
        /\ h = "shown" => k = 18
    BY <1>1, HeadIs
  <2> HIDE DEF h, k
  <2> QED BY <1>3, <2>1 DEF Writers, StepNames
<1>5. Len(todo) # 1
  <2>1. k # 17 /\ k # 19 BY <1>4
  <2> QED BY <1>1, <2>1, LastStep
<1>6. todo' = Tail(todo) /\ command' = command /\ wedged' = wedged BY <1>5 DEF Perform, Finish
<1>7. Performed' = k + 1 /\ Follows' BY <1>1, <1>6, NextStep
<1>8. MadeSoFar'
  <2> SUFFICES ASSUME NEW f \in Files, MadeAfter(f, Performed') PROVE IsWhole(disk', f)
    BY DEF MadeSoFar, IsWhole
  <2> QED BY <1>1, <1>7, MadeNext
<1>9. WedgeKnown'
  <2>1. CASE ~wedged
    <3>1. qsharp \/ IsWhole(disk, Results) BY <1>1, <2>1 DEF WedgeKnown, ResultsMissing
    <3>2. qsharp' = qsharp /\ (IsWhole(disk, Results) => disk'[Results].is = "whole")
      <4>1. disk'[Results] = disk[Results] \/ disk'[Results].is = "whole" BY PerformIs, ResultsAre
      <4> QED BY <4>1 DEF Perform, IsWhole
    <3>3. ~ResultsMissing(disk)' BY <3>1, <3>2 DEF ResultsMissing, IsWhole
    <3>4. Performed' # 0 BY <1>2, <1>7
    <3> QED BY <1>6, <2>1, <3>3, <3>4 DEF WedgeKnown
  <2>2. CASE wedged
    <3>1. k <= 3 /\ ((k = 0 /\ Wedged) \/ ResultsMissing(disk)) BY <1>1, <2>2 DEF WedgeKnown
    <3>2. ResultsMissing(disk)
      <4> SUFFICES ASSUME k = 0, Wedged PROVE ResultsMissing(disk) BY <3>1
      <4>1. h = "projection"
        <5>1. h = Plan[1] \/ Expanded(1, h) BY <1>1, HeadStep
        <5> QED BY <5>1 DEF Plan, Expanded
      <4>2. ~Unreadable(disk, "projection") BY <1>3, <4>1 DEF Raises
      <4>3. Reads("projection") = {ContractFile, FoldedScaffold} BY DEF Reads
      <4> QED BY <4>2, <4>3 DEF Unreadable, Wedged
    <3>3. k # 3
      <4> SUFFICES ASSUME k = 3 PROVE FALSE OBVIOUS
      <4>1. h = Plan[4] \/ Expanded(4, h) BY <1>1, HeadStep
      <4>2. h = "build" BY <4>1 DEF Plan, Expanded
      <4> QED BY <1>3, <3>2, <4>2 DEF Raises
    <3>4. ResultsMissing(disk)' BY <3>2, LostStay
    <3>5. Performed' <= 3 BY <1>2, <1>7, <3>1, <3>3
    <3> QED BY <1>6, <2>2, <3>4, <3>5 DEF WedgeKnown
  <2> QED BY <2>1, <2>2
<1>10. InRecord'
  <2>1. CASE k \in 0 .. 15
    <3>1. ~(Performed' >= 17) /\ ~(Performed' >= 18) BY <1>7, <2>1
    <3> QED BY <3>1 DEF InRecord
  <2>2. CASE h = "shown" /\ k = 18
    <3>1. disk' = disk BY <2>2, WriteNothing DEF Perform, Writes
    <3>2. proofManifest' = proofManifest /\ manifest' = manifest BY DEF Perform
    <3>3. ProofRecorded /\ AllRecorded BY <1>1, <2>2 DEF InRecord
    <3>4. Rewritten' = Rewritten BY <1>6 DEF Rewritten
    <3> QED BY <3>1, <3>2, <3>3, <3>4 DEF InRecord, ProofRecorded, AllRecorded
  <2> QED BY <1>4, <2>1, <2>2
<1> QED BY <1>1, <1>6, <1>7, <1>8, <1>9, <1>10 DEF Kept, OnCourse, Ends, Courses

(* A step of the plan that raises: the tree was wedged.                    *)
LEMMA PlannedRaise ==
  ASSUME Typed, Kept, Planned, Raise
  PROVE  Kept'
<1> DEFINE h == Head(todo)
<1>1. Follows /\ MadeSoFar /\ WedgeKnown /\ todo # << >>
  BY DEF Kept, OnCourse, Courses, Raise
<1>2. h \in Writers /\ Raises(disk, h) BY WritesAre DEF Raise
<1>3. todo' = << >> /\ command' = [command EXCEPT !.outcome = "raised"] /\ wedged' = wedged
  BY DEF Raise, Planned
<1>4. wedged
  <2> SUFFICES ASSUME ~wedged PROVE FALSE OBVIOUS
  <2>1. ~ResultsMissing(disk) /\ (Performed = 0 => ~Wedged) BY <1>1 DEF WedgeKnown
  <2>2. Unreadable(disk, h) BY <1>2, <2>1 DEF Raises
  <2>3. Performed = 0 BY <1>1, <1>2, <2>2, Readable
  <2>4. h = "projection"
    <3>1. h = Plan[1] \/ Expanded(1, h) BY <1>1, <2>3, HeadStep
    <3> QED BY <3>1 DEF Plan, Expanded
  <2>5. Reads("projection") = {ContractFile, FoldedScaffold} BY DEF Reads
  <2> QED BY <2>1, <2>2, <2>3, <2>4, <2>5 DEF Unreadable, Wedged
<1>5. command'.outcome = "raised" BY <1>3 DEF Typed
<1> QED BY <1>3, <1>4, <1>5 DEF Kept, OnCourse, Ends

(* Nothing is missing when a refresh loads the artifacts.                  *)
LEMMA PlannedLoad ==
  ASSUME Typed, Kept, Planned, Load
  PROVE  Kept' /\ Performed' = Performed /\ todo' # << >>
<1>1. Follows /\ MadeSoFar /\ WedgeKnown /\ todo # << >> /\ command.outcome = "running"
  BY DEF Kept, OnCourse, Ends, Courses, Load, Running
<1>2. Head(todo) = "load" BY DEF Load, Running
<1>3. Performed \in {6, 12} /\ Plan[Performed + 1] = "load" BY <1>1, <1>2, HeadIs
<1>4. \A f \in Required : disk[f].is = "whole"
  <2> SUFFICES ASSUME NEW f \in Required PROVE disk[f].is = "whole" OBVIOUS
  <2>1. f \in BuildFiles \/ f = "cain_exact_transfer" BY OrdersAre DEF Required, BuildFiles
  <2>2. f \in Files BY DEF Files
  <2>3. MadeAfter(f, Performed) BY <1>3, <2>1 DEF MadeAfter
  <2> QED BY <1>1, <2>2, <2>3 DEF MadeSoFar, IsWhole
<1>5. todo' = <<"verified">> \o Tail(todo)
  <2>1. \A f \in Required : disk[f].is # "absent" BY <1>4
  <2> QED BY <2>1 DEF Load
<1>6. command' = command /\ wedged' = wedged /\ disk' = disk /\ qsharp' = qsharp BY DEF Load, tree
<1>7. Performed' = Performed /\ Follows' /\ todo' # << >>
  <2>1. Expanded(Performed + 1, "verified") BY <1>3 DEF Expanded
  <2>2. "verified" \in StepNames BY DEF StepNames
  <2> QED BY <1>1, <1>5, <1>6, <2>1, <2>2, SameStep
<1>8. MadeSoFar' BY <1>1, <1>6, <1>7 DEF MadeSoFar, IsWhole
<1>9. WedgeKnown'
  <2>1. ResultsMissing(disk)' = ResultsMissing(disk) BY <1>6 DEF ResultsMissing, IsWhole
  <2> QED BY <1>1, <1>3, <1>6, <1>7, <2>1 DEF WedgeKnown
<1>10. InRecord' BY <1>3, <1>7 DEF InRecord
<1> QED BY <1>1, <1>6, <1>7, <1>8, <1>9, <1>10 DEF Kept, OnCourse, Ends, Courses

(* Nor when a test run compares.                                           *)
LEMMA PlannedCompare ==
  ASSUME Typed, Kept, Planned, CompareCain
  PROVE  Kept' /\ Performed' = Performed /\ todo' # << >>
<1>1. Follows /\ MadeSoFar /\ WedgeKnown /\ InRecord /\ todo # << >> /\ command.outcome = "running"
  BY DEF Kept, OnCourse, Ends, Courses, CompareCain, Running
<1>2. Head(todo) = "compare" BY DEF CompareCain, Running
<1>3. Performed = 18 /\ Plan[Performed + 1] = "compare" BY <1>1, <1>2, HeadIs
<1>4. disk["cain_2026_integration_summary"].is = "whole"
  <2>1. MadeAfter("cain_2026_integration_summary", Performed) BY <1>3 DEF MadeAfter
  <2> QED BY <1>1, <2>1, FilesAre DEF MadeSoFar, IsWhole
<1>5. todo' = <<"shown">> \o Tail(todo) BY <1>4 DEF CompareCain
<1>6. /\ command' = command /\ wedged' = wedged /\ disk' = disk /\ qsharp' = qsharp
      /\ proofManifest' = proofManifest /\ manifest' = manifest
  BY DEF CompareCain, tree
<1>7. Performed' = Performed /\ Follows' /\ todo' # << >>
  <2>1. Expanded(Performed + 1, "shown") BY <1>3 DEF Expanded
  <2>2. "shown" \in StepNames BY DEF StepNames
  <2> QED BY <1>1, <1>5, <1>6, <2>1, <2>2, SameStep
<1>8. MadeSoFar' BY <1>1, <1>6, <1>7 DEF MadeSoFar, IsWhole
<1>9. WedgeKnown'
  <2>1. ResultsMissing(disk)' = ResultsMissing(disk) BY <1>6 DEF ResultsMissing, IsWhole
  <2> QED BY <1>1, <1>3, <1>6, <1>7, <2>1 DEF WedgeKnown
<1>10. InRecord'
  <2>1. Rewritten' = Rewritten BY <1>6 DEF Rewritten
  <2> QED BY <1>1, <1>6, <1>7, <2>1 DEF InRecord, ProofRecorded, AllRecorded
<1> QED BY <1>1, <1>6, <1>7, <1>8, <1>9, <1>10 DEF Kept, OnCourse, Ends, Courses

(* The proof manifest.                                                     *)
LEMMA PlannedProofManifest ==
  ASSUME Typed, Kept, Planned, WriteProofManifest
  PROVE  Kept'
<1>1. Follows /\ MadeSoFar /\ WedgeKnown /\ todo # << >> /\ command.outcome = "running"
  BY DEF Kept, OnCourse, Ends, Courses, WriteProofManifest, Running
<1>2. Performed = 16
  <2>1. Head(todo) = "proof_manifest" BY DEF WriteProofManifest, Running
  <2> QED BY <1>1, <2>1, HeadIs
<1>3. Len(todo) # 1
  <2>1. Performed # 17 /\ Performed # 19 BY <1>2
  <2> QED BY <1>1, <2>1, LastStep
<1>4. /\ todo' = Tail(todo) /\ command' = command /\ wedged' = wedged /\ disk' = disk /\ qsharp' = qsharp
      /\ proofManifest' = Recorded(ProofListed)
  BY <1>3 DEF WriteProofManifest, Finish, tree
<1>5. Performed' = 17 /\ Follows'
  <2>1. Performed' = Performed + 1 /\ Follows' BY <1>1, <1>4, NextStep
  <2> QED BY <1>2, <2>1
<1>6. MadeSoFar'
  <2>1. \A f : MadeAfter(f, 17) => MadeAfter(f, 16) BY DEF MadeAfter
  <2> QED BY <1>1, <1>2, <1>4, <1>5, <2>1 DEF MadeSoFar, IsWhole
<1>7. WedgeKnown'
  <2>1. ResultsMissing(disk)' = ResultsMissing(disk) BY <1>4 DEF ResultsMissing, IsWhole
  <2> QED BY <1>1, <1>2, <1>4, <1>5, <2>1 DEF WedgeKnown
<1>8. InRecord'
  <2>1. ProofRecorded' BY <1>4 DEF ProofRecorded, Recorded
  <2>2. ~(Performed' >= 18) BY <1>5
  <2> QED BY <2>1, <2>2 DEF InRecord
<1> QED BY <1>1, <1>4, <1>5, <1>6, <1>7, <1>8 DEF Kept, OnCourse, Ends, Courses

(* The repository manifest, the last step of a refresh.                    *)
LEMMA PlannedRepositoryManifest ==
  ASSUME Typed, Kept, Planned, WriteRepositoryManifest
  PROVE  Kept'
<1>1. Follows /\ MadeSoFar /\ WedgeKnown /\ InRecord /\ todo # << >> /\ command.outcome = "running"
  BY DEF Kept, OnCourse, Ends, Courses, WriteRepositoryManifest, Running
<1>2. Performed = 17
  <2>1. Head(todo) = "repository_manifest" BY DEF WriteRepositoryManifest, Running
  <2> QED BY <1>1, <2>1, HeadIs
<1>3. /\ todo' = Tail(todo) /\ wedged' = wedged /\ disk' = disk /\ qsharp' = qsharp
      /\ proofManifest' = proofManifest /\ manifest' = RepositoryManifest
      /\ command' = IF Len(todo) = 1 THEN [command EXCEPT !.outcome = "completed"] ELSE command
  BY DEF WriteRepositoryManifest, Finish, tree
<1>4. command'.name = command.name BY <1>3 DEF Typed
<1>5. Performed' = 18 /\ Follows'
  <2>1. Performed' = Performed + 1 /\ Follows' BY <1>1, <1>3, <1>4, NextStep
  <2> QED BY <1>2, <2>1
<1>6. MadeSoFar'
  <2>1. \A f : MadeAfter(f, 18) => MadeAfter(f, 17) BY DEF MadeAfter
  <2> QED BY <1>1, <1>2, <1>3, <1>5, <2>1 DEF MadeSoFar, IsWhole
<1>7. ~wedged BY <1>1, <1>2 DEF WedgeKnown
<1>8. WedgeKnown'
  <2>1. ResultsMissing(disk)' = ResultsMissing(disk) BY <1>3 DEF ResultsMissing, IsWhole
  <2> QED BY <1>1, <1>3, <1>5, <1>7, <2>1 DEF WedgeKnown
<1>9. ProofRecorded' /\ AllRecorded'
  <2>1. ProofRecorded BY <1>1, <1>2 DEF InRecord
  <2>2. Rewritten' = Rewritten BY <1>4 DEF Rewritten
  <2>3. ProofRecorded' BY <1>3, <2>1, <2>2 DEF ProofRecorded
  <2>4. AllRecorded' BY <1>3 DEF AllRecorded, RepositoryManifest, Recorded
  <2> QED BY <2>3, <2>4
<1>10. todo' # << >> => command' = command
  <2>1. todo' = << >> <=> Len(todo) = 1 BY <1>1, <1>3, LastStep
  <2> QED BY <1>3, <2>1
<1>11. OnCourse' BY <1>5, <1>6, <1>8, <1>9 DEF OnCourse, Courses, InRecord
<1>12. command'.outcome # "raised"
  BY <1>1, <1>3 DEF Typed
<1>13. Ends' BY <1>1, <1>3, <1>7, <1>9, <1>10, <1>12 DEF Ends
<1> QED BY <1>11, <1>13 DEF Kept

(* While the tests run every summary they may ask for is there.            *)
LEMMA PlannedTests ==
  ASSUME Typed, Kept, Planned, Running("tests")
  PROVE  /\ Performed = 19 /\ command.name = "run_tests" /\ Len(todo) = 1
         /\ Tail(todo) = << >> /\ Follows /\ MadeSoFar /\ WedgeKnown /\ InRecord /\ ~wedged
         /\ \A t \in TestTargets : disk[t].is = "whole"
<1>1. Follows /\ MadeSoFar /\ WedgeKnown /\ InRecord /\ todo # << >>
  BY DEF Kept, OnCourse, Courses, Running
<1>2. Performed = 19 BY <1>1, HeadIs DEF Running
<1>3. command.name = "run_tests" /\ Len(todo) = 1 /\ Tail(todo) = << >>
  BY <1>1, <1>2, LastStep
<1>4. ~wedged BY <1>1, <1>2 DEF WedgeKnown
<1>5. ASSUME NEW t \in TestTargets PROVE disk[t].is = "whole"
  <2>1. t \in {"repo_verification_summary", "cain_2026_integration_summary", "build_summary",
               "verification_summary"}
    BY PipelineAssumption
  <2>2. t \in Files BY <2>1, FilesAre DEF BuildFiles
  <2>3. MadeAfter(t, Performed) BY <1>2, <2>1 DEF MadeAfter, BuildFiles
  <2> QED BY <1>1, <2>2, <2>3 DEF MadeSoFar, IsWhole
<1> QED BY <1>1, <1>2, <1>3, <1>4, <1>5

(* So a test that asks for one reuses it.                                  *)
LEMMA PlannedEnsure ==
  ASSUME Typed, Kept, Planned, NEW t \in TestTargets, EnsureTarget(t)
  PROVE  Kept' /\ todo' = todo
<1>1. Running("tests") BY DEF EnsureTarget
<1>2. Reuses(t) BY <1>1, PlannedTests DEF Reuses
<1>3. UNCHANGED <<qsharp, disk, todo, command, wedged, proofManifest, manifest>>
  BY <1>2 DEF EnsureTarget, tree
<1> QED BY <1>3, Remains

(* The research test changes nothing that is recorded or was lost.         *)
LEMMA PlannedResearchTest ==
  ASSUME Typed, Kept, Planned, ParallelResearchTest
  PROVE  Kept'
<1>1. Running("tests") BY DEF ParallelResearchTest
<1>2. /\ Performed = 19 /\ command.name = "run_tests"
      /\ Follows /\ MadeSoFar /\ WedgeKnown /\ InRecord /\ ~wedged
  BY <1>1, PlannedTests
<1>3. \A f \in Files : f \notin ResearchFiles => disk'[f] = disk[f] BY ParallelIs
<1>4. UNCHANGED <<qsharp, todo, command, wedged, proofManifest, manifest>> BY DEF ParallelResearchTest
<1>5. Performed' = 19 /\ Planned' /\ Rewritten' = ResearchFiles /\ Rewritten = ResearchFiles
  BY <1>2, <1>4, OrdersAre DEF Performed, Planned, Rewritten, ResearchFiles
<1>6. Follows' BY <1>2, <1>4, <1>5 DEF Follows, Expanded
<1>7. MadeSoFar'
  <2>1. ASSUME NEW f \in Files, MadeAfter(f, 19) PROVE f \notin ResearchFiles
    BY <2>1 DEF MadeAfter, ProjectionFiles, BuildFiles, PayloadFiles, ResearchFiles, ContractFile,
       FoldedScaffold, Counts, Targets, Results
  <2> QED BY <1>2, <1>3, <1>5, <2>1 DEF MadeSoFar, IsWhole
<1>8. WedgeKnown'
  <2>1. disk'[Results] = disk[Results] BY <1>3, ResultsAre
  <2>2. ResultsMissing(disk)' = ResultsMissing(disk) BY <1>4, <2>1 DEF ResultsMissing, IsWhole
  <2> QED BY <1>2, <1>4, <1>5, <2>2 DEF WedgeKnown
<1>9. InRecord'
  <2>1. ProofRecorded /\ AllRecorded BY <1>2 DEF InRecord
  <2>2. ProofListed \subseteq Files /\ RepositoryFiles \subseteq Files
    BY FilesAre, OrdersAre DEF ProofListed, RepositoryFiles, Required, ProjectionFiles, ResearchFiles,
       AuditFiles, BuildFiles
  <2>3. ProofRecorded' BY <1>3, <1>4, <1>5, <2>1, <2>2 DEF ProofRecorded
  <2>4. AllRecorded' BY <1>3, <1>4, <1>5, <2>1, <2>2 DEF AllRecorded
  <2> QED BY <2>3, <2>4 DEF InRecord
<1>10. command.outcome = "running" BY <1>1 DEF Kept, Ends, Running
<1> QED BY <1>4, <1>6, <1>7, <1>8, <1>9, <1>10 DEF Kept, OnCourse, Ends, Courses

(* The manifest test records the disk.                                     *)
LEMMA PlannedManifestTest ==
  ASSUME Typed, Kept, Planned, ManifestTest
  PROVE  Kept'
<1>1. Running("tests") BY DEF ManifestTest
<1>2. /\ Performed = 19 /\ Follows /\ MadeSoFar /\ WedgeKnown /\ InRecord
  BY <1>1, PlannedTests
<1>3. UNCHANGED <<qsharp, disk, todo, command, wedged, proofManifest>> BY DEF ManifestTest, tree
<1>4. Performed' = Performed /\ Planned' = Planned /\ Rewritten' = Rewritten
  BY <1>3 DEF Performed, Planned, Rewritten
<1>5. Follows' BY <1>2, <1>3, <1>4 DEF Follows, Expanded
<1>6. MadeSoFar' BY <1>2, <1>3, <1>4 DEF MadeSoFar, IsWhole
<1>7. WedgeKnown'
  <2>1. ResultsMissing(disk)' = ResultsMissing(disk) BY <1>3 DEF ResultsMissing, IsWhole
  <2> QED BY <1>2, <1>3, <1>4, <2>1 DEF WedgeKnown
<1>8. InRecord'
  <2>1. ProofRecorded BY <1>2 DEF InRecord
  <2>2. ProofRecorded' BY <1>3, <1>4, <2>1 DEF ProofRecorded
  <2>3. AllRecorded' BY <1>3 DEF ManifestTest, AllRecorded, RepositoryManifest, Recorded
  <2> QED BY <2>2, <2>3 DEF InRecord
<1>9. command.outcome = "running" BY <1>1 DEF Kept, Ends, Running
<1> QED BY <1>3, <1>5, <1>6, <1>7, <1>8, <1>9 DEF Kept, OnCourse, Ends, Courses

(* The tests are the last step of a parallel test run.                     *)
LEMMA PlannedEndTests ==
  ASSUME Typed, Kept, Planned, EndTests
  PROVE  Kept' /\ todo' = << >>
<1>1. Running("tests") BY DEF EndTests
<1>2. /\ Performed = 19 /\ Len(todo) = 1 /\ Tail(todo) = << >> /\ InRecord /\ ~wedged
  BY <1>1, PlannedTests
<1>3. /\ todo' = << >> /\ command' = [command EXCEPT !.outcome = "completed"]
      /\ UNCHANGED <<disk, wedged, proofManifest, manifest>>
  BY <1>2 DEF EndTests, Finish, tree
<1>4. command'.name = command.name /\ command'.outcome = "completed" BY <1>3 DEF Typed
<1>5. ProofRecorded /\ AllRecorded BY <1>2 DEF InRecord
<1>6. Rewritten' = Rewritten BY <1>4 DEF Rewritten
<1>7. ProofRecorded' /\ AllRecorded' BY <1>3, <1>5, <1>6 DEF ProofRecorded, AllRecorded
<1> QED BY <1>2, <1>3, <1>4, <1>7 DEF Kept, OnCourse, Ends

(* A command starts.                                                       *)
LEMMA Starts ==
  ASSUME Typed, NEW c \in Commands, Start(c)
  PROVE  Kept' /\ (Planned' => Performed' = 0)
<1>1. command' = [name |-> c, outcome |-> "running"] BY DEF Start
<1>2. command'.name = c /\ command'.outcome = "running" BY <1>1
<1>3. CASE c \notin {"refresh", "run_tests"}
  <2>1. ~Planned' BY <1>2, <1>3 DEF Planned
  <2> QED BY <1>2, <2>1 DEF Kept, OnCourse, Ends
<1>4. CASE c \in {"refresh", "run_tests"}
  <2>1. todo' = IF c = "refresh" THEN Refresh ELSE RunTests BY <1>4 DEF Start, Steps
  <2>2. Performed' = 0
    <3>1. CASE c = "refresh" BY <1>2, <2>1, <3>1, PlanIs DEF Performed
    <3>2. CASE c = "run_tests"
      <4>1. todo' = RunTests /\ command'.name # "refresh" BY <1>2, <2>1, <3>2
      <4> QED BY <4>1, PlanIs DEF Performed
    <3> QED BY <1>4, <3>1, <3>2
  <2>3. \A i \in 1 .. Len(todo') : todo'[i] = Plan[i]
    <3>1. CASE c = "refresh" BY <2>1, <3>1, PlanIs
    <3>2. CASE c = "run_tests"
      <4>1. todo' = RunTests BY <2>1, <3>2
      <4> QED BY <4>1, PlanIs
    <3> QED BY <1>4, <3>1, <3>2
  <2>4. Follows'
    <3>1. \A i \in 1 .. Len(todo') : todo'[i] = Plan[0 + i]
      <4>1. \A i \in 1 .. Len(todo') : 0 + i = i
        <5>1. \A i \in Int : 0 + i = i OBVIOUS
        <5> QED BY <5>1
      <4> QED BY <2>3, <4>1
    <3> QED BY <2>2, <3>1 DEF Follows
  <2>5. MadeSoFar' BY <2>2 DEF MadeSoFar, MadeAfter
  <2>6. wedged' = Wedged /\ disk' = disk /\ qsharp' = qsharp BY DEF Start, tree
  <2>7. ResultsMissing(disk)' = ResultsMissing(disk) /\ Wedged' = Wedged
    BY <2>6 DEF ResultsMissing, Wedged, IsWhole
  <2>8. ResultsMissing(disk) => Wedged BY DEF Wedged
  <2>9. WedgeKnown' BY <2>2, <2>6, <2>7, <2>8 DEF WedgeKnown
  <2>10. InRecord' BY <2>2 DEF InRecord
  <2> QED BY <1>2, <2>2, <2>4, <2>5, <2>9, <2>10 DEF Kept, OnCourse, Ends, Courses
<1> QED BY <1>3, <1>4

(* A command is running while it has steps left.                           *)
LEMMA Unplanned ==
  ASSUME Typed, Kept, ~Planned, command'.name = command.name,
         todo' # << >> => command'.outcome = "running"
  PROVE  Kept'
BY DEF Kept, OnCourse, Ends, Planned

(* A command is killed, or the user changes the tree.                      *)
LEMMA Halts ==
  ASSUME Typed, todo' = << >>, NEW o \in {"crashed", "none"}, command' = [command EXCEPT !.outcome = o]
  PROVE  Kept'
<1>1. command'.outcome = o BY DEF Typed
<1> QED BY <1>1 DEF Kept, OnCourse, Ends

(* Initially.                                                              *)
LEMMA KeptInit == Init => Kept
BY DEF Init, Kept, OnCourse, Ends, Planned

(* Every step keeps the invariant.                                         *)
LEMMA KeptStep ==
  ASSUME Typed, Kept, [Next]_vars
  PROVE  Kept'
<1>1. CASE UNCHANGED vars BY <1>1, Remains DEF vars
<1>2. ASSUME NEW c \in Commands, Start(c) PROVE Kept' BY <1>2, Starts
<1>3. CASE Perform \/ WriteProofManifest \/ WriteRepositoryManifest \/ EndTests
  <2>1. CASE Planned
    BY <1>3, <2>1, PlannedPerform, PlannedProofManifest, PlannedRepositoryManifest, PlannedEndTests
  <2>2. CASE ~Planned
    <3>1. todo # << >> /\ Finish
      BY <1>3 DEF Perform, WriteProofManifest, WriteRepositoryManifest, EndTests, Running
    <3>2. command'.name = command.name BY <3>1 DEF Finish, Typed
    <3>3. Len(todo) = 1 => Tail(todo) = << >>
      <4> DEFINE t == Tail(todo)
      <4>1. Len(todo) = 1 => Len(t) = 0 BY <3>1, HeadOf
      <4>2. t \in Seq(StepNames) BY <3>1, HeadOf
      <4> HIDE DEF t
      <4>3. Len(t) = 0 => t = << >> BY <4>2
      <4> QED BY <4>1, <4>3 DEF t
    <3>4. todo' # << >> => command'.outcome = "running"
      BY <3>1, <3>3 DEF Finish, Kept, Ends
    <3> QED BY <2>2, <3>2, <3>4, Unplanned
  <2> QED BY <2>1, <2>2
<1>4. CASE Raise
  <2>1. CASE Planned BY <1>4, <2>1, PlannedRaise
  <2>2. CASE ~Planned
    <3>1. command'.name = command.name BY <1>4 DEF Raise, Typed
    <3>2. todo' # << >> => command'.outcome = "running" BY <1>4 DEF Raise, Kept, Ends
    <3> QED BY <2>2, <3>1, <3>2, Unplanned
  <2> QED BY <2>1, <2>2
<1>5. ASSUME todo # << >>, command' = command, ~Planned PROVE Kept'
  BY <1>5, Unplanned DEF Kept, Ends
<1>6. CASE Load
  <2>1. CASE Planned BY <1>6, <2>1, PlannedLoad
  <2> QED BY <1>5, <1>6, <2>1 DEF Load, Running
<1>7. CASE CompareCain
  <2>1. CASE Planned BY <1>7, <2>1, PlannedCompare
  <2> QED BY <1>5, <1>7, <2>1 DEF CompareCain, Running
<1>8. ASSUME NEW t \in TestTargets, EnsureTarget(t) PROVE Kept'
  <2>1. CASE Planned BY <1>8, <2>1, PlannedEnsure
  <2> QED BY <1>5, <1>8, <2>1 DEF EnsureTarget, Running
<1>9. CASE SerialResearchTest BY <1>5, <1>9 DEF SerialResearchTest, Running, Planned
<1>10. CASE ParallelResearchTest
  <2>1. CASE Planned BY <1>10, <2>1, PlannedResearchTest
  <2> QED BY <1>5, <1>10, <2>1 DEF ParallelResearchTest, Running
<1>11. CASE ManifestTest
  <2>1. CASE Planned BY <1>11, <2>1, PlannedManifestTest
  <2> QED BY <1>5, <1>11, <2>1 DEF ManifestTest, Running
<1>12. ASSUME NEW n \in Cuts, NEW torn \in BOOLEAN, Crash(n, torn) PROVE Kept'
  BY <1>12, Halts DEF Crash
<1>13. ASSUME NEW p \in Editable, Edit(p) PROVE Kept' BY <1>13, Halts DEF Edit
<1>14. ASSUME NEW f \in Removable, Delete(f) PROVE Kept' BY <1>14, Halts DEF Delete
<1> QED BY <1>1, <1>2, <1>3, <1>4, <1>6, <1>7, <1>8, <1>9, <1>10, <1>11, <1>12, <1>13, <1>14 DEF Next

(* The inductive invariant holds.                                          *)
LEMMA CoursesHold == Spec => [](Typed /\ Kept)
<1>1. Init => Typed /\ Kept BY TypedInit, KeptInit
<1>2. Typed /\ Kept /\ [Next]_vars => Typed' /\ Kept' BY TypedStep, KeptStep
<1> QED BY <1>1, <1>2, PTL DEF Spec

(* A refresh that is not interrupted raises exactly when it starts on a    *)
(* tree no refresh can repair.                                             *)
THEOREM FailsIffWedged == Spec => []RefreshFailsIffWedged
<1>1. Kept => RefreshFailsIffWedged
  <2> SUFFICES ASSUME Kept, command.name = "refresh", command.outcome \in {"completed", "raised"}
               PROVE  command.outcome = "raised" <=> wedged
    BY DEF RefreshFailsIffWedged
  <2> QED BY DEF Kept, Ends, Planned
<1> QED BY CoursesHold, <1>1, PTL

(* When a refresh ends both manifests record the files on disk; when a     *)
(* parallel test run ends, but for the files of the research test.         *)
THEOREM ManifestsHold == Spec => []ManifestsRecordTheDisk
<1>1. Kept => ManifestsRecordTheDisk
  <2> SUFFICES ASSUME Kept, Planned, command.outcome = "completed"
               PROVE  ProofRecorded /\ AllRecorded
    BY DEF ManifestsRecordTheDisk, ProofRecorded, AllRecorded, Rewritten, Planned
  <2> QED BY DEF Kept, Ends
<1> QED BY CoursesHold, <1>1, PTL

(* While test groups run in parallel no test starts a command, and no file *)
(* changes but those of the research test.                                 *)
THEOREM TestsRebuildNothing == Spec => ParallelTestsRebuildNothing
<1> DEFINE Quiet == /\ todo' \in {todo, <<>>}
                    /\ \A f \in Files \ ToSet(ResearchOrder) : disk'[f] = disk[f]
<1>1. ASSUME Typed, Kept, [Next]_vars, Running("tests"), command.name = "run_tests" PROVE Quiet
  <2>1. Planned /\ todo # << >> BY <1>1 DEF Planned, Running
  <2>2. Head(todo) = "tests" /\ "tests" \notin DOMAIN Writes
    BY <1>1, WritesAre DEF Running, Writers
  <2>3. ASSUME todo' \in {todo, << >>}, disk' = disk PROVE Quiet BY <2>3
  <2>4. ASSUME NEW t \in TestTargets, EnsureTarget(t) PROVE Quiet
    BY <1>1, <2>1, <2>3, <2>4, PlannedEnsure DEF EnsureTarget, tree
  <2>5. CASE ParallelResearchTest
    <3>1. todo' = todo BY <2>5 DEF ParallelResearchTest
    <3>2. ToSet(ResearchOrder) = ResearchFiles BY OrdersAre DEF ResearchFiles
    <3> QED BY <1>1, <2>5, <3>1, <3>2, ParallelIs
  <2>6. CASE EndTests BY <1>1, <2>1, <2>3, <2>6, PlannedEndTests DEF EndTests, tree
  <2>7. ASSUME NEW n \in Cuts, NEW torn \in BOOLEAN, Crash(n, torn) PROVE Quiet
    BY <2>2, <2>3, <2>7 DEF Crash
  <2>8. CASE ManifestTest BY <2>3, <2>8 DEF ManifestTest, tree
  <2>9. CASE UNCHANGED vars BY <2>3, <2>9 DEF vars
  <2> HIDE DEF Quiet
  <2> QED BY <1>1, <2>1, <2>2, <2>4, <2>5, <2>6, <2>7, <2>8, <2>9
    DEF Next, Start, Perform, Raise, Load, CompareCain, WriteProofManifest, WriteRepositoryManifest,
        SerialResearchTest, Edit, Delete, Running
<1>2. Typed /\ Kept /\ [Next]_vars
        => [Running("tests") /\ command.name = "run_tests" => Quiet]_vars
  BY <1>1
<1> QED BY CoursesHold, <1>2, PTL DEF Spec, ParallelTestsRebuildNothing
-----------------------------------------------------------------------------
(***************************************************************************)
(* A refresh settles the files.                                            *)
(***************************************************************************)
(* The files that what a step writes into f is made from.                  *)
MadeOf(f) ==
  CASE f \in ProjectionFiles -> {ContractFile, FoldedScaffold}
    [] f = "lookup_contract_summary" -> {ContractFile, "lookup_signed_fold_summary"}
    [] f \in {"verifier_rebuild_summary", ContractFile} -> {}
    [] f \in {"dominant_cost_breakdown", "lookup_folded_projection", "claim_boundary_matrix"}
         -> {"resource_projection"}
    [] f = "literature_projection_scenarios"
         -> {"dominant_cost_breakdown", "resource_projection", "lookup_folded_projection"}
    [] f = "optimization_frontier_estimates" -> {"resource_projection", "lookup_folded_projection"}
    [] f = "research_pass_summary"
         -> {"dominant_cost_breakdown", ContractFile, FoldedScaffold, "lookup_signed_fold_summary",
             "lookup_folded_projection", "optimization_frontier_estimates"}
    [] f = "qubit_breakthrough_analysis" -> {ContractFile, "resource_projection"}
    [] f \in {Counts, "cain_exact_transfer"} -> {"family_frontier"}
    [] f = Targets -> {Counts}
    [] f = Results -> {Counts, Targets}
    [] f = "verification_summary" -> Required \cup {ContractFile, "resource_projection"}
    [] f = "repo_verification_summary" -> Summarised \cup {"lookup_contract_summary"}
    [] f = "cain_2026_integration_summary" -> {"family_frontier", "cain_exact_transfer"}
    [] f = "figures" -> Drawn
    [] OTHER -> {ContractFile}

(* After how many steps of refreshing a file is what the code makes now.   *)
Turn(f) ==
  CASE f = "verifier_rebuild_summary" -> 2
    [] f \in {ContractFile, FoldedScaffold, "lookup_signed_fold_summary"} -> 3
    [] f \in BuildFiles \ {"qubit_breakthrough_analysis"} -> 4
    [] f = "cain_exact_transfer" -> 5
    [] f = "zkp_attestation_input" -> 6
    [] f \in ProjectionFiles -> 8
    [] f \in {"lookup_contract_summary", "claim_boundary_matrix"} -> 9
    [] f = "qubit_breakthrough_analysis" -> 10
    [] f = "verification_summary" -> 13
    [] f = "repo_verification_summary" -> 14
    [] f = "cain_2026_integration_summary" -> 15
    [] f \in FromProjection -> 21
    [] f = "figures" -> 34

(* Every file of S is what its builder would make of the files d now; and  *)
(* files that hold all they are made from.                                 *)
Settled(d, S) == \A f \in S : d[f] = Whole(Content(d, f))
Closed(S) == S \subseteq Files /\ \A f \in S : MadeOf(f) \subseteq S

(* The files whose turn has come after n steps; how far the refreshes since*)
(* the last edit or fault have come.                                       *)
Turned(n) == {f \in Files : Turn(f) <= n}
Refreshing == Planned /\ todo # << >> /\ Performed < 18
Progress == 18 * refreshes + (IF Refreshing THEN Performed ELSE 0)

(* The research file that a parallel test has just truncated.              *)
Rewriting == tests.research % 2 = 1
Mended == IF Rewriting THEN Rewrite(disk, ResearchOrder[tests.research \div 2 + 1]) ELSE disk
(* The inductive invariant ...                                             *)
SettledSoFar == Settled(Mended, Turned(Progress))
(* ... and what it needs of the tests and of the plan.                     *)
TestsAt ==
  /\ Rewriting => Running("tests") /\ command.name = "run_tests"
  /\ "repository_manifest" \in ToSet(todo) => Planned
  /\ refreshes \in 0 .. 2

(* The files that are made from the sources and the contract alone.        *)
FromContract ==
  (PayloadFiles \ {"qubit_breakthrough_analysis"})
    \cup {"build_summary", "zkp_attestation_input", FoldedScaffold, "lookup_signed_fold_summary"}

(* What each builder is, file by file ...                                  *)
LEMMA ContentIs ==
  ASSUME NEW d
  PROVE  /\ \A f \in ProjectionFiles : Content(d, f) = Projection(d)
         /\ Content(d, "verifier_rebuild_summary") = {Stamp("circuits")}
         /\ Content(d, ContractFile) = {Stamp("contract")}
         /\ Content(d, FoldedScaffold) = FoldedSchedule(d)
         /\ Content(d, "lookup_signed_fold_summary") = FoldingAudit(d)
         /\ Content(d, "dominant_cost_breakdown") = DominantCost(d)
         /\ Content(d, "lookup_folded_projection") = FoldedProjection(d)
         /\ Content(d, "literature_projection_scenarios") = LiteratureScenarios(d)
         /\ Content(d, "optimization_frontier_estimates") = FrontierEstimates(d)
         /\ Content(d, "research_pass_summary") = ResearchSummary(d)
         /\ Content(d, "lookup_contract_summary") = ContractAudit(d)
         /\ Content(d, "claim_boundary_matrix") = ClaimBoundary(d)
         /\ Content(d, "qubit_breakthrough_analysis") = QubitBreakthrough(d)
         /\ Content(d, Counts) = LogicalCounts(d)
         /\ Content(d, Targets) = EstimatorTargets(d)
         /\ Content(d, Results) = EstimatorResults(d)
         /\ Content(d, "cain_exact_transfer") = CainTransfer(d)
         /\ Content(d, "zkp_attestation_input") = AttestationInput(d)
         /\ Content(d, "verification_summary") = Verification(d)
         /\ Content(d, "repo_verification_summary") = RepositorySummary(d)
         /\ Content(d, "cain_2026_integration_summary") = CainSummary(d)
         /\ Content(d, "figures") = ReadFrom(d, Drawn)
         /\ \A f \in (PayloadFiles \ {"qubit_breakthrough_analysis"}) \cup {"build_summary"} :
              Content(d, f) = Computed(d, PartsOf(f))
BY OrdersAre DEF Content, ProjectionFiles, PayloadFiles, ContractFile, FoldedScaffold, Counts, Targets, Results

(* ... and what each file is made from.                                    *)
LEMMA MadeOfIs ==
  /\ \A f \in ProjectionFiles : MadeOf(f) = {ContractFile, FoldedScaffold}
  /\ MadeOf("verifier_rebuild_summary") = {} /\ MadeOf(ContractFile) = {}
  /\ \A f \in FromContract : MadeOf(f) = {ContractFile}
  /\ \A f \in {"dominant_cost_breakdown", "lookup_folded_projection", "claim_boundary_matrix"} :
       MadeOf(f) = {"resource_projection"}
  /\ MadeOf("literature_projection_scenarios")
       = {"dominant_cost_breakdown", "resource_projection", "lookup_folded_projection"}
  /\ MadeOf("optimization_frontier_estimates") = {"resource_projection", "lookup_folded_projection"}
  /\ MadeOf("research_pass_summary")
       = {"dominant_cost_breakdown", ContractFile, FoldedScaffold, "lookup_signed_fold_summary",
          "lookup_folded_projection", "optimization_frontier_estimates"}
  /\ MadeOf("lookup_contract_summary") = {ContractFile, "lookup_signed_fold_summary"}
  /\ MadeOf("qubit_breakthrough_analysis") = {ContractFile, "resource_projection"}
  /\ MadeOf(Counts) = {"family_frontier"} /\ MadeOf("cain_exact_transfer") = {"family_frontier"}
  /\ MadeOf(Targets) = {Counts} /\ MadeOf(Results) = {Counts, Targets}
  /\ MadeOf("verification_summary") = Required \cup {ContractFile, "resource_projection"}
  /\ MadeOf("repo_verification_summary") = Summarised \cup {"lookup_contract_summary"}
  /\ MadeOf("cain_2026_integration_summary") = {"family_frontier", "cain_exact_transfer"}
  /\ MadeOf("figures") = Drawn
BY DEF MadeOf, FromContract, ProjectionFiles, PayloadFiles, ContractFile, FoldedScaffold, Counts, Targets, Results

(* Every generated file is one of these.                                   *)
LEMMA EveryFile ==
  ASSUME NEW f \in Files
  PROVE  \/ f \in ProjectionFiles \/ f \in FromContract
         \/ f \in {"verifier_rebuild_summary", ContractFile, "dominant_cost_breakdown",
                   "lookup_folded_projection", "claim_boundary_matrix",
                   "literature_projection_scenarios", "optimization_frontier_estimates",
                   "research_pass_summary", "lookup_contract_summary", "qubit_breakthrough_analysis",
                   Counts, Targets, Results, "cain_exact_transfer", "verification_summary",
                   "repo_verification_summary", "cain_2026_integration_summary", "figures"}
BY FilesAre DEF BuildFiles, AuditFiles, ResearchFiles, FromContract

(* A builder reads what the file is made from, and nothing else; recorded  *)
(* results are their own source.                                           *)
LEMMA SameContent ==
  ASSUME NEW d, NEW e, NEW f \in Files, \A g \in MadeOf(f) : e[g] = d[g],
         f = Results /\ ~qsharp => e[f].from = d[f].from
  PROVE  Content(e, f) = Content(d, f)
<1>1. ASSUME NEW S, \A g \in S : e[g] = d[g] PROVE ReadFrom(e, S) = ReadFrom(d, S)
  BY <1>1 DEF ReadFrom
<1>2. ASSUME e[ContractFile] = d[ContractFile], NEW S PROVE Computed(e, S) = Computed(d, S)
  BY <1>2 DEF Computed, LookupContract
<1> DEFINE Same(S) == \A g \in S : e[g] = d[g]
<1>3. Same(MadeOf(f)) OBVIOUS
<1>4. \A S : Same(S) => ReadFrom(e, S) = ReadFrom(d, S) BY <1>1
<1>5. Same({ContractFile}) => \A S : Computed(e, S) = Computed(d, S) BY <1>2
<1>6. \A S, T : S \subseteq T /\ Same(T) => Same(S) OBVIOUS
<1> HIDE DEF Same
<1>7. CASE f \in ProjectionFiles
  <2>1. Same({ContractFile, FoldedScaffold}) BY <1>3, <1>7, MadeOfIs
  <2> QED BY <1>4, <1>7, <2>1, ContentIs DEF Projection
<1>8. CASE f \in FromContract
  <2>1. Same({ContractFile}) BY <1>3, <1>8, MadeOfIs
  <2>2. CASE f \in (PayloadFiles \ {"qubit_breakthrough_analysis"}) \cup {"build_summary"}
    BY <1>5, <2>1, <2>2, ContentIs
  <2>3. CASE f = "zkp_attestation_input" BY <1>5, <2>1, <2>3, ContentIs DEF AttestationInput
  <2>4. CASE f = FoldedScaffold BY <1>4, <2>1, <2>4, ContentIs DEF FoldedSchedule
  <2>5. CASE f = "lookup_signed_fold_summary" BY <1>4, <2>1, <2>5, ContentIs DEF FoldingAudit
  <2> QED BY <1>8, <2>2, <2>3, <2>4, <2>5 DEF FromContract
<1>9. CASE f \in {"verifier_rebuild_summary", ContractFile} BY <1>9, ContentIs
<1>10. CASE f \in {"dominant_cost_breakdown", "lookup_folded_projection", "claim_boundary_matrix"}
  <2>1. Same({"resource_projection"}) BY <1>3, <1>10, MadeOfIs
  <2> QED BY <1>4, <1>10, <2>1, ContentIs DEF DominantCost, FoldedProjection, ClaimBoundary
<1>11. CASE f = "literature_projection_scenarios"
  <2> DEFINE S == {"dominant_cost_breakdown", "resource_projection", "lookup_folded_projection"}
  <2>1. MadeOf(f) = S BY <1>11, MadeOfIs
  <2> HIDE DEF S
  <2>2. ReadFrom(e, S) = ReadFrom(d, S) BY <1>3, <1>4, <2>1
  <2> QED BY <1>11, <2>2, ContentIs DEF LiteratureScenarios, S
<1>12. CASE f = "optimization_frontier_estimates"
  <2> DEFINE S == {"resource_projection", "lookup_folded_projection"}
  <2>1. MadeOf(f) = S BY <1>12, MadeOfIs
  <2> HIDE DEF S
  <2>2. ReadFrom(e, S) = ReadFrom(d, S) BY <1>3, <1>4, <2>1
  <2> QED BY <1>12, <2>2, ContentIs DEF FrontierEstimates, S
<1>13. CASE f = "research_pass_summary"
  <2> DEFINE S == {"dominant_cost_breakdown", ContractFile, FoldedScaffold, "lookup_signed_fold_summary",
             "lookup_folded_projection", "optimization_frontier_estimates"}
  <2>1. MadeOf(f) = S BY <1>13, MadeOfIs
  <2> HIDE DEF S
  <2>2. ReadFrom(e, S) = ReadFrom(d, S) BY <1>3, <1>4, <2>1
  <2> QED BY <1>13, <2>2, ContentIs DEF ResearchSummary, S
<1>14. CASE f = "lookup_contract_summary"
  <2> DEFINE S == {ContractFile, "lookup_signed_fold_summary"}
  <2>1. MadeOf(f) = S BY <1>14, MadeOfIs
  <2> HIDE DEF S
  <2>2. ReadFrom(e, S) = ReadFrom(d, S) BY <1>3, <1>4, <2>1
  <2> QED BY <1>14, <2>2, ContentIs DEF ContractAudit, S
<1>15. CASE f = "qubit_breakthrough_analysis"
  <2>1. Same({ContractFile}) /\ Same({"resource_projection"}) BY <1>3, <1>6, <1>15, MadeOfIs
  <2> QED BY <1>4, <1>5, <1>15, <2>1, ContentIs DEF QubitBreakthrough
<1>16. CASE f = Counts BY <1>3, <1>4, <1>16, MadeOfIs, ContentIs DEF LogicalCounts
<1>17. CASE f = "cain_exact_transfer" BY <1>3, <1>4, <1>17, MadeOfIs, ContentIs DEF CainTransfer
<1>18. CASE f = Targets BY <1>3, <1>4, <1>18, MadeOfIs, ContentIs DEF EstimatorTargets
<1>19. CASE f = Results
  <2>1. ReadFrom(e, {Counts, Targets}) = ReadFrom(d, {Counts, Targets}) BY <1>3, <1>4, <1>19, MadeOfIs
  <2>2. EstimatorResults(e) = EstimatorResults(d) BY <1>19, <2>1 DEF EstimatorResults
  <2> QED BY <1>19, <2>2, ContentIs
<1>20. CASE f = "verification_summary"
  <2>1. Same(Required \cup {ContractFile, "resource_projection"}) BY <1>3, <1>20, MadeOfIs
  <2>2. AllChecksPass(e) <=> AllChecksPass(d)
    <3>1. Same({ContractFile}) BY <1>6, <2>1
    <3>2. e[ContractFile] = d[ContractFile] BY <3>1 DEF Same
    <3>3. \A S : Computed(e, S) = Computed(d, S) BY <1>5, <3>1
    <3>4. \A S \in SUBSET (Required \cup {ContractFile, "resource_projection"}) :
            ReadFrom(e, S) = ReadFrom(d, S)
      BY <1>4, <1>6, <2>1
    <3>5. \A g \in Required : e[g] = d[g] BY <2>1 DEF Same
    <3> DEFINE Seen == Required \cup {ContractFile, "resource_projection"}
    <3>6. \A g \in Required : IsCode(e, g) <=> IsCode(d, g) BY <3>3, <3>5 DEF IsCode
    <3>7. \A g \in Required : \A S \in SUBSET Seen : \A T :
            IsMadeFrom(e, g, S, T) <=> IsMadeFrom(d, g, S, T)
      BY <3>3, <3>4, <3>5 DEF IsMadeFrom
    <3>8. \A g \in Required : \A S \in SUBSET Seen : Repeats(e, g, S) <=> Repeats(d, g, S)
      BY <3>4, <3>5 DEF Repeats
    <3>9. Required = BuildFiles \cup {"cain_exact_transfer"} BY OrdersAre DEF Required, BuildFiles
    <3>10. EstimatorResults(e) = EstimatorResults(d)
      <4>1. Counts \in Required /\ Targets \in Required /\ Results \in Required BY <3>9 DEF BuildFiles
      <4>2. ReadFrom(e, {Counts, Targets}) = ReadFrom(d, {Counts, Targets}) BY <3>4, <4>1
      <4> QED BY <3>5, <4>1, <4>2 DEF EstimatorResults
    <3> QED
      BY <3>5, <3>6, <3>7, <3>8, <3>9, <3>10
      DEF AllChecksPass, BuildFiles, PayloadFiles, CanonicalPointChecks, ScheduleChecks, TableManifestChecks,
          ArithmeticKernelChecks, LookupLoweringChecks, PhaseShellChecks, BlockInventoryChecks,
          SlotAllocationChecks, LookupFedSlotAllocationChecks, StreamedSlotAllocationChecks,
          StreamedResourceChecks, QromAssessmentChecks, ResourceLedgerChecks, QubitBreakthroughChecks,
          FullAttackChecks, FtIrChecks, RecountChecks, SubcircuitChecks, PrimitiveMultiplierChecks,
          FrontierChecks, BuildSummaryChecks, CainTransferChecks, AzureSeedChecks, EstimatorTargetChecks,
          EstimatorResultChecks
  <2>3. ReadFrom(e, Required) = ReadFrom(d, Required) BY <1>4, <1>6, <2>1
  <2> QED BY <1>20, <2>2, <2>3, ContentIs DEF Verification
<1>21. CASE f = "repo_verification_summary"
  <2> DEFINE S == Summarised \cup {"lookup_contract_summary"}
  <2>1. MadeOf(f) = S BY <1>21, MadeOfIs
  <2> HIDE DEF S
  <2>2. ReadFrom(e, S) = ReadFrom(d, S) BY <1>3, <1>4, <2>1
  <2> QED BY <1>21, <2>2, ContentIs DEF RepositorySummary, S
<1>22. CASE f = "cain_2026_integration_summary"
  BY <1>3, <1>4, <1>22, MadeOfIs, ContentIs DEF CainSummary
<1>23. CASE f = "figures" BY <1>3, <1>4, <1>23, MadeOfIs, ContentIs
<1> QED
  BY <1>7, <1>8, <1>9, <1>10, <1>11, <1>12, <1>13, <1>14, <1>15, <1>16, <1>17, <1>18, <1>19, <1>20, <1>21,
     <1>22, <1>23, EveryFile

(* What a builder makes depends on the sources and on the files, so while  *)
(* the sources stay it may be asked before or after a step.                *)
LEMMA SameSources ==
  ASSUME NEW CONSTANT d, source' = source, qsharp' = qsharp
  PROVE  \A f \in Files : Content(d, f)' = Content(d, f)
<1>1. \A p : Stamp(p)' = Stamp(p) BY DEF Stamp
<1>2. \A S : ReadFrom(d, S)' = ReadFrom(d, S) BY DEF ReadFrom
<1>3. LookupContract(d)' = LookupContract(d) BY <1>1 DEF LookupContract
<1>4. \A S : Computed(d, S)' = Computed(d, S)
  BY <1>1, <1>3 DEF Computed
<1>5. EstimatorResults(d)' = EstimatorResults(d) BY <1>2 DEF EstimatorResults
<1>6. /\ Projection(d)' = Projection(d) /\ DominantCost(d)' = DominantCost(d)
      /\ FoldedSchedule(d)' = FoldedSchedule(d) /\ FoldingAudit(d)' = FoldingAudit(d)
      /\ FoldedProjection(d)' = FoldedProjection(d)
      /\ LiteratureScenarios(d)' = LiteratureScenarios(d)
      /\ FrontierEstimates(d)' = FrontierEstimates(d)
      /\ ResearchSummary(d)' = ResearchSummary(d) /\ ContractAudit(d)' = ContractAudit(d)
      /\ ClaimBoundary(d)' = ClaimBoundary(d) /\ CainSummary(d)' = CainSummary(d)
      /\ RepositorySummary(d)' = RepositorySummary(d)
  BY <1>1, <1>2
  DEF Projection, DominantCost, FoldedSchedule, FoldingAudit, FoldedProjection, LiteratureScenarios,
      FrontierEstimates, ResearchSummary, ContractAudit, ClaimBoundary, CainSummary, RepositorySummary
<1>7. /\ LogicalCounts(d)' = LogicalCounts(d) /\ CainTransfer(d)' = CainTransfer(d)
      /\ EstimatorTargets(d)' = EstimatorTargets(d)
  BY <1>2 DEF LogicalCounts, CainTransfer, EstimatorTargets
<1>8. QubitBreakthrough(d)' = QubitBreakthrough(d) BY <1>2, <1>4 DEF QubitBreakthrough
<1>9. AttestationInput(d)' = AttestationInput(d) BY <1>4 DEF AttestationInput
<1>10. AllChecksPass(d)' <=> AllChecksPass(d)
  <2>1. \A f : IsCode(d, f)' <=> IsCode(d, f) BY <1>4 DEF IsCode
  <2>2. \A f, S, T : IsMadeFrom(d, f, S, T)' <=> IsMadeFrom(d, f, S, T)
    BY <1>2, <1>4 DEF IsMadeFrom
  <2>3. \A f, S : Repeats(d, f, S)' <=> Repeats(d, f, S) BY <1>2 DEF Repeats
  <2> QED
    BY <1>5, <2>1, <2>2, <2>3
    DEF AllChecksPass, CanonicalPointChecks, ScheduleChecks, TableManifestChecks,
        ArithmeticKernelChecks, LookupLoweringChecks, PhaseShellChecks, BlockInventoryChecks,
        SlotAllocationChecks, LookupFedSlotAllocationChecks, StreamedSlotAllocationChecks,
        StreamedResourceChecks, QromAssessmentChecks, ResourceLedgerChecks, QubitBreakthroughChecks,
        FullAttackChecks, FtIrChecks, RecountChecks, SubcircuitChecks, PrimitiveMultiplierChecks,
        FrontierChecks, BuildSummaryChecks, CainTransferChecks, AzureSeedChecks, EstimatorTargetChecks,
        EstimatorResultChecks
<1>11. Verification(d)' = Verification(d) BY <1>2, <1>10 DEF Verification
<1>12. SUFFICES ASSUME NEW f \in Files PROVE Content(d, f)' = Content(d, f) OBVIOUS
<1> QED BY <1>1, <1>2, <1>4, <1>5, <1>6, <1>7, <1>8, <1>9, <1>11 DEF Content

(* Settled files: each is what its builder would make now.  While a set of *)
(* files holds all they are made from, no write outside it unsettles them. *)
LEMMA SettledAlike ==
  ASSUME NEW d, NEW e, NEW S, Closed(S), Settled(d, S), \A f \in S : e[f] = d[f]
  PROVE  Settled(e, S)
<1> SUFFICES ASSUME NEW f \in S PROVE e[f] = Whole(Content(e, f)) BY DEF Settled
<1>1. f \in Files /\ MadeOf(f) \subseteq S BY DEF Closed
<1>2. \A g \in MadeOf(f) : e[g] = d[g] BY <1>1
<1>3. Content(e, f) = Content(d, f) BY <1>1, <1>2, SameContent
<1> QED BY <1>3 DEF Settled

(* A write leaves settled what was, and settles its file when all it is    *)
(* made from is settled.                                                   *)
LEMMA WriteSettles ==
  ASSUME NEW d, Tree(d), NEW S, Closed(S), Settled(d, S), NEW g
  PROVE  /\ Settled(Rewrite(d, g), S)
         /\ g \in Files /\ MadeOf(g) \subseteq S
              => Closed(S \cup {g}) /\ Settled(Rewrite(d, g), S \cup {g})
<1> DEFINE e == Rewrite(d, g)
<1>1. /\ \A f \in Files : f # g => e[f] = d[f]
      /\ g \in Files => e[g] = Whole(Content(d, g))
  BY RewriteIs
<1>2. \A f \in S : f \in Files /\ d[f] = Whole(Content(d, f)) BY DEF Closed, Settled
<1> HIDE DEF e
<1>3. \A f \in S : e[f] = d[f] BY <1>1, <1>2
<1>4. Settled(e, S) BY <1>3, SettledAlike
<1>5. ASSUME g \in Files, MadeOf(g) \subseteq S PROVE Closed(S \cup {g}) /\ Settled(e, S \cup {g})
  <2>1. Closed(S \cup {g}) BY <1>5 DEF Closed
  <2>2. \A f \in MadeOf(g) : e[f] = d[f] BY <1>3, <1>5
  <2>3. g = Results /\ ~qsharp => e[g].from = d[g].from
    <3> SUFFICES ASSUME g = Results, ~qsharp PROVE e[g].from = d[g].from OBVIOUS
    <3>1. Content(d, g) = d[g].from BY ContentIs DEF EstimatorResults
    <3> QED BY <1>1, <1>5, <3>1 DEF Whole
  <2>4. Content(e, g) = Content(d, g) BY <1>5, <2>2, <2>3, SameContent
  <2>5. e[g] = Whole(Content(e, g)) BY <1>1, <1>5, <2>4
  <2> QED BY <1>4, <2>1, <2>5 DEF Settled
<1> QED BY <1>4, <1>5 DEF e

(* Writes in an order in which no file comes before one it is made from    *)
(* settle all their files that are made from settled ones.                 *)
LEMMA WritesSettle ==
  ASSUME NEW d, Tree(d), NEW S, Closed(S), Settled(d, S), NEW R, NEW s \in Seq(R),
         NEW T, Closed(T), S \subseteq T, T \subseteq S \cup ToSet(s),
         \A i, j \in 1 .. Len(s) : s[i] \in T \ S /\ s[j] \in MadeOf(s[i]) => j < i
  PROVE  Settled(WriteAll(d, s), T)
<1> DEFINE N == Len(s)
           U(i) == S \cup (T \cap {s[j] : j \in 1 .. i})
<1>1. N \in Nat /\ DOMAIN s = 1 .. N OBVIOUS
<1>2. PICK h : Successive(h, d, s) /\ WriteAll(d, s) = h[N] BY <1>1, WriteAllIs
<1>3. \A i, j \in 1 .. N : s[i] \in T \ S /\ s[j] \in MadeOf(s[i]) => j < i OBVIOUS
<1> HIDE DEF N
<1>4. h[0] = d /\ \A i \in 1 .. N : h[i] = Rewrite(h[i - 1], s[i]) BY <1>2 DEF Successive, N
<1> DEFINE Good(i) == Tree(h[i]) /\ Closed(U(i)) /\ Settled(h[i], U(i))
           V == {i \in Nat : i <= N => Good(i)}
<1>5. 0 \in V
  <2>1. U(0) = S OBVIOUS
  <2> HIDE DEF U
  <2> QED BY <1>4, <2>1
<1>6. ASSUME NEW i \in Nat, i \in V PROVE i + 1 \in V
  <2> SUFFICES ASSUME i + 1 <= N PROVE Good(i + 1) OBVIOUS
  <2> DEFINE g == s[i + 1]
  <2>1. Good(i) /\ i + 1 \in 1 .. N /\ (i + 1) - 1 = i BY <1>1, <1>6
  <2>2. h[i + 1] = Rewrite(h[i], g) BY <2>1, <1>4
  <2>3. U(i + 1) = IF g \in T THEN U(i) \cup {g} ELSE U(i)
    <3>1. {s[j] : j \in 1 .. i + 1} = {s[j] : j \in 1 .. i} \cup {g}
      <4>1. \A j \in 1 .. i + 1 : j \in 1 .. i \/ j = i + 1 OBVIOUS
      <4>2. i + 1 \in 1 .. i + 1 /\ \A j \in 1 .. i : j \in 1 .. i + 1 OBVIOUS
      <4> QED BY <4>1, <4>2
    <3> HIDE DEF g
    <3> QED BY <3>1
  <2>4. Tree(h[i + 1]) BY <2>1, <2>2, RewriteIs
  <2>5. CASE g \notin T
    <3> HIDE DEF U, g
    <3>1. Settled(h[i + 1], U(i)) BY <2>1, <2>2, WriteSettles
    <3> QED BY <2>1, <2>3, <2>4, <2>5, <3>1
  <2>6. CASE g \in T
    <3>1. g \in Files BY <2>6 DEF Closed
    <3>2. MadeOf(g) \subseteq U(i)
      <4>1. CASE g \in S
        <5>1. MadeOf(g) \subseteq S BY <4>1 DEF Closed
        <5> QED BY <5>1
      <4>2. CASE g \notin S
        <5> SUFFICES ASSUME NEW f \in MadeOf(g), f \notin S PROVE f \in U(i) OBVIOUS
        <5>1. f \in T BY <2>6 DEF Closed
        <5>2. PICK j \in 1 .. N : f = s[j] BY <5>1, <1>1 DEF ToSet
        <5>3. j < i + 1 BY <1>3, <2>1, <2>6, <4>2, <5>2
        <5>4. j \in 1 .. i BY <5>2, <5>3, <1>1
        <5> QED BY <5>1, <5>2, <5>4
      <4> QED BY <4>1, <4>2
    <3> HIDE DEF U, g
    <3>3. Closed(U(i) \cup {g}) /\ Settled(h[i + 1], U(i) \cup {g})
      BY <2>1, <2>2, <3>1, <3>2, WriteSettles
    <3> QED BY <2>3, <2>4, <2>6, <3>3
  <2> QED BY <2>5, <2>6
<1> HIDE DEF V
<1>7. Nat \subseteq V BY <1>5, <1>6, SetInduction
<1>8. Good(N)
  <2>1. N \in V BY <1>1, <1>7
  <2>2. N <= N BY <1>1
  <2> HIDE DEF Good
  <2> QED BY <2>1, <2>2 DEF V
<1>9. T \subseteq U(N)
  <2>1. ToSet(s) = {s[j] : j \in 1 .. N} BY <1>1 DEF ToSet
  <2> QED BY <2>1
<1> QED BY <1>2, <1>8, <1>9 DEF Settled

(* The turn of each file.                                                  *)
LEMMA TurnIs ==
  /\ Turn("verifier_rebuild_summary") = 2
  /\ \A f \in {ContractFile, FoldedScaffold, "lookup_signed_fold_summary"} : Turn(f) = 3
  /\ \A f \in BuildFiles \ {"qubit_breakthrough_analysis"} : Turn(f) = 4
  /\ Turn("cain_exact_transfer") = 5 /\ Turn("zkp_attestation_input") = 6
  /\ \A f \in ProjectionFiles : Turn(f) = 8
  /\ Turn("lookup_contract_summary") = 9 /\ Turn("claim_boundary_matrix") = 9
  /\ Turn("qubit_breakthrough_analysis") = 10
  /\ Turn("verification_summary") = 13 /\ Turn("repo_verification_summary") = 14
  /\ Turn("cain_2026_integration_summary") = 15
  /\ \A f \in FromProjection : Turn(f) = 21
  /\ Turn("figures") = 34
BY DEF Turn, BuildFiles, PayloadFiles, ProjectionFiles, FromProjection, ContractFile, FoldedScaffold, Counts,
   Targets, Results

(* Every file has one.                                                     *)
LEMMA EveryTurn ==
  ASSUME NEW f \in Files
  PROVE  \/ f = "verifier_rebuild_summary"
         \/ f \in {ContractFile, FoldedScaffold, "lookup_signed_fold_summary"}
         \/ f \in BuildFiles \ {"qubit_breakthrough_analysis"}
         \/ f = "cain_exact_transfer" \/ f = "zkp_attestation_input" \/ f \in ProjectionFiles
         \/ f = "lookup_contract_summary" \/ f = "claim_boundary_matrix"
         \/ f = "qubit_breakthrough_analysis" \/ f = "verification_summary"
         \/ f = "repo_verification_summary" \/ f = "cain_2026_integration_summary"
         \/ f \in FromProjection \/ f = "figures"
BY FilesAre DEF BuildFiles, AuditFiles, ResearchFiles, FromProjection

(* A file's turn is that of a step that writes it.                         *)
LEMMA TurnStep ==
  ASSUME NEW f \in Files, NEW r \in 0 .. 2, NEW k \in 0 .. 17, Turn(f) = 18 * r + k + 1
  PROVE  \/ k = 1 /\ f = "verifier_rebuild_summary"
         \/ k = 2 /\ f \in ResearchFiles
         \/ k = 3 /\ f \in BuildFiles
         \/ k = 4 /\ f = "cain_exact_transfer"
         \/ k = 5 /\ f = "zkp_attestation_input"
         \/ k = 7 /\ f \in ProjectionFiles
         \/ k = 8 /\ f \in AuditFiles
         \/ k = 9 /\ f \in BuildFiles
         \/ k = 12 /\ f = "verification_summary"
         \/ k = 13 /\ f = "repo_verification_summary"
         \/ k = 14 /\ f = "cain_2026_integration_summary"
         \/ k = 15 /\ f = "figures"
<1> DEFINE t == Turn(f)
<1>1. t = 18 * r + k + 1 OBVIOUS
<1>2. /\ FromProjection \subseteq ResearchFiles
      /\ {ContractFile, FoldedScaffold, "lookup_signed_fold_summary"} \subseteq ResearchFiles
      /\ {"lookup_contract_summary", "claim_boundary_matrix"} \subseteq AuditFiles
      /\ "qubit_breakthrough_analysis" \in BuildFiles
  BY DEF FromProjection, ResearchFiles, AuditFiles, BuildFiles, PayloadFiles
<1> HIDE DEF t
<1>3. /\ t = 2 => k = 1
      /\ t = 3 => k = 2
      /\ t = 4 => k = 3
      /\ t = 5 => k = 4
      /\ t = 6 => k = 5
      /\ t = 8 => k = 7
      /\ t = 9 => k = 8
      /\ t = 10 => k = 9
      /\ t = 13 => k = 12
      /\ t = 14 => k = 13
      /\ t = 15 => k = 14
      /\ t = 21 => k = 2
      /\ t = 34 => k = 15
  BY <1>1
<1>4. CASE f \in {"verifier_rebuild_summary", "cain_exact_transfer", "zkp_attestation_input",
                  "lookup_contract_summary", "claim_boundary_matrix", "qubit_breakthrough_analysis",
                  "verification_summary", "repo_verification_summary", "cain_2026_integration_summary",
                  "figures"}
  BY <1>2, <1>3, <1>4, TurnIs DEF t
<1>5. CASE f \in {ContractFile, FoldedScaffold, "lookup_signed_fold_summary"} BY <1>2, <1>3, <1>5, TurnIs DEF t
<1>6. CASE f \in BuildFiles \ {"qubit_breakthrough_analysis"} BY <1>3, <1>6, TurnIs DEF t
<1>7. CASE f \in ProjectionFiles BY <1>3, <1>7, TurnIs DEF t
<1>8. CASE f \in FromProjection BY <1>2, <1>3, <1>8, TurnIs DEF t
<1> QED BY <1>4, <1>5, <1>6, <1>7, <1>8, EveryTurn

(* What a file is made from has its turn before it, or with it.            *)
LEMMA TurnsGrow ==
  ASSUME NEW f \in Files, NEW g \in MadeOf(f)
  PROVE  g \in Files /\ Turn(g) \in Nat /\ Turn(f) \in Nat /\ Turn(g) <= Turn(f)
<1>1. g \in Files
  <2>1. /\ {ContractFile, FoldedScaffold, "resource_projection", "dominant_cost_breakdown",
            "lookup_folded_projection", "lookup_signed_fold_summary", "optimization_frontier_estimates",
            "family_frontier", Counts, Targets, Results, "cain_exact_transfer", "lookup_contract_summary",
            "verification_summary", "build_summary", "repo_verification_summary"} \subseteq Files
        /\ Required \subseteq Files
    BY FilesAre DEF Files, BuildFiles, PayloadFiles, ProjectionFiles, ResearchFiles, AuditFiles
  <2>2. Summarised \subseteq Files /\ Drawn \subseteq Files BY <2>1 DEF Summarised, Drawn
  <2> QED BY <2>1, <2>2, MadeOfIs, EveryFile
<1>2. \A e \in Files : Turn(e) \in Nat BY EveryTurn, TurnIs
<1>3. /\ Turn(ContractFile) = 3 /\ Turn(FoldedScaffold) = 3 /\ Turn("lookup_signed_fold_summary") = 3
      /\ Turn("resource_projection") = 8 /\ Turn("dominant_cost_breakdown") = 21
      /\ Turn("lookup_folded_projection") = 21 /\ Turn("optimization_frontier_estimates") = 21
      /\ Turn("family_frontier") = 4 /\ Turn(Counts) = 4 /\ Turn(Targets) = 4 /\ Turn(Results) = 4
      /\ Turn("build_summary") = 4
  BY TurnIs DEF ProjectionFiles, FromProjection, BuildFiles, PayloadFiles, Counts, Targets, Results
<1>4. CASE f \in ProjectionFiles BY <1>1, <1>2, <1>3, <1>4, MadeOfIs, TurnIs
<1>5. CASE f \in FromContract
  <2>1. Turn(f) \in {3, 4, 6} BY <1>5, TurnIs DEF FromContract, BuildFiles, PayloadFiles
  <2> QED BY <1>1, <1>3, <1>5, <2>1, MadeOfIs
<1>6. CASE f \in {"verifier_rebuild_summary", ContractFile} BY <1>6, MadeOfIs
<1>7. CASE f \in {"dominant_cost_breakdown", "lookup_folded_projection", "claim_boundary_matrix"}
  BY <1>1, <1>3, <1>7, MadeOfIs, TurnIs
<1>8. CASE f \in {"literature_projection_scenarios", "optimization_frontier_estimates", "research_pass_summary"}
  <2>1. Turn(f) = 21 BY <1>8, TurnIs DEF FromProjection
  <2> QED BY <1>1, <1>3, <1>8, <2>1, MadeOfIs
<1>9. CASE f = "lookup_contract_summary"
  <2>1. Turn(f) = 9 BY <1>9, TurnIs
  <2>2. Turn(g) = 3 BY <1>3, <1>9, MadeOfIs
  <2> QED BY <1>1, <2>1, <2>2
<1>10. CASE f = "qubit_breakthrough_analysis"
  <2>1. Turn(f) = 10 BY <1>10, TurnIs
  <2>2. Turn(g) \in {3, 8} BY <1>3, <1>10, MadeOfIs
  <2> QED BY <1>1, <2>1, <2>2
<1>11. CASE f \in {Counts, Targets, Results, "cain_exact_transfer"}
  <2>1. Turn(f) \in {4, 5} BY <1>3, <1>11, TurnIs
  <2>2. Turn(g) = 4 BY <1>3, <1>11, MadeOfIs
  <2> QED BY <1>1, <2>1, <2>2
<1>12. ASSUME NEW e \in Required PROVE Turn(e) \in {4, 5, 10}
  <2>1. e \in BuildFiles \cup {"cain_exact_transfer"} BY OrdersAre DEF Required, BuildFiles
  <2> QED BY <2>1, TurnIs
<1>13. CASE f = "verification_summary"
  <2>1. Turn(f) = 13 BY <1>13, TurnIs
  <2>2. Turn(g) \in {3, 4, 5, 8, 10} BY <1>3, <1>12, <1>13, MadeOfIs
  <2> QED BY <1>1, <2>1, <2>2
<1>14. CASE f = "repo_verification_summary"
  <2>1. Turn(f) = 14 BY <1>14, TurnIs
  <2>2. MadeOf(f) = Summarised \cup {"lookup_contract_summary"} BY <1>14, MadeOfIs
  <2>3. Turn(g) \in {4, 5, 9, 13} BY <1>3, <2>2, TurnIs DEF Summarised
  <2> QED BY <1>1, <2>1, <2>3
<1>15. CASE f = "cain_2026_integration_summary"
  <2>1. Turn(f) = 15 BY <1>15, TurnIs
  <2>2. Turn(g) \in {4, 5} BY <1>3, <1>15, MadeOfIs, TurnIs
  <2> QED BY <1>1, <2>1, <2>2
<1>16. CASE f = "figures"
  <2>1. Turn(f) = 34 BY <1>16, TurnIs
  <2>2. MadeOf(f) = Drawn BY <1>16, MadeOfIs
  <2>3. Turn(g) \in {8, 14, 21} BY <1>3, <2>2, TurnIs DEF Drawn
  <2> QED BY <1>1, <2>1, <2>3
<1> QED BY <1>4, <1>5, <1>6, <1>7, <1>8, <1>9, <1>10, <1>11, <1>13, <1>14, <1>15, <1>16, EveryFile

(* So the files whose turn has come need no others.                        *)
LEMMA TurnedClosed ==
  ASSUME NEW n \in Nat
  PROVE  Closed(Turned(n))
<1> SUFFICES ASSUME NEW f \in Files, Turn(f) <= n, NEW g \in MadeOf(f) PROVE g \in Files /\ Turn(g) <= n
  BY DEF Closed, Turned
<1> QED BY TurnsGrow

(* A file is not made from itself.                                         *)
LEMMA NotOfItself ==
  ASSUME NEW f \in Files
  PROVE  f \notin MadeOf(f)
BY EveryFile, MadeOfIs, OrdersAre
DEF Required, Summarised, Drawn, FromContract, ProjectionFiles, PayloadFiles, ContractFile, FoldedScaffold,
    Counts, Targets, Results

(* No step writes a file before one it is made from.                       *)
InOrder(s) == \A i, j \in 1 .. Len(s) : s[j] \in MadeOf(s[i]) => j < i

(* The build ...                                                           *)
LEMMA BuildInOrder == InOrder(BuildOrder)
<1> DEFINE s == BuildOrder
<1>1. /\ Len(s) = 30 /\ \A i \in 1 .. 26 : s[i] = Payloads[i] /\ s[i] \in PayloadFiles
      /\ s[21] = "family_frontier"
      /\ s[27] = Counts /\ s[28] = Targets /\ s[29] = Results /\ s[30] = "build_summary"
  <2> DEFINE t == <<Counts, Targets, Results, "build_summary">>
             S == PayloadFiles \cup {Counts, Targets, Results, "build_summary"}
  <2>1. t \in Seq(S) /\ Len(t) = 4 OBVIOUS
  <2>2. Payloads \in Seq(PayloadFiles) BY PayloadsAre
  <2>3. Len(Payloads) = 26 /\ Payloads[21] = "family_frontier"
    <3>1. Payloads[21] = "family_frontier" BY DEF Payloads
    <3>2. Len(Payloads) = 26 BY DEF Payloads
    <3> QED BY <3>1, <3>2
  <2>4. \A i \in 1 .. 26 : Payloads[i] \in PayloadFiles
    <3>1. \A S0, s0 : s0 \in Seq(S0) => \A i \in 1 .. Len(s0) : s0[i] \in S0 OBVIOUS
    <3>2. \A i \in 1 .. Len(Payloads) : Payloads[i] \in PayloadFiles BY <2>2, <3>1
    <3> QED BY <2>3, <3>2
  <2>5. t[1] = Counts /\ t[2] = Targets /\ t[3] = Results /\ t[4] = "build_summary" OBVIOUS
  <2> HIDE DEF t, S
  <2>6. s = Payloads \o t BY DEF BuildOrder, t
  <2> HIDE DEF s
  <2>7. Payloads \in Seq(S)
    <3>1. PayloadFiles \subseteq S BY DEF S
    <3> QED BY <2>2, <3>1
  <2>8. /\ Len(s) = 30 /\ \A i \in 1 .. 26 : s[i] = Payloads[i]
        /\ \A i \in 1 .. 4 : s[26 + i] = t[i]
    <3>1. Len(Payloads) = 26 BY <2>3
    <3>2. t \in Seq(S) /\ Len(t) = 4 BY <2>1
    <3>3. /\ Len(Payloads \o t) = Len(Payloads) + Len(t)
          /\ \A i \in 1 .. Len(Payloads) : (Payloads \o t)[i] = Payloads[i]
          /\ \A i \in 1 .. Len(t) : (Payloads \o t)[Len(Payloads) + i] = t[i]
      <4>1. \A a, b \in Seq(S) :
              /\ Len(a \o b) = Len(a) + Len(b)
              /\ \A i \in 1 .. Len(a) : (a \o b)[i] = a[i]
              /\ \A i \in 1 .. Len(b) : (a \o b)[Len(a) + i] = b[i]
        BY ConcatIs
      <4> QED BY <4>1, <3>2, <2>7
    <3>4. /\ Len(s) = 26 + 4
          /\ \A i \in 1 .. 26 : s[i] = Payloads[i]
          /\ \A i \in 1 .. 4 : s[26 + i] = t[i]
      BY <3>1, <3>2, <3>3, <2>6
    <3> QED BY <3>4
  <2>9. s[27] = t[1] /\ s[28] = t[2] /\ s[29] = t[3] /\ s[30] = t[4]
    <3>1. s[26 + 1] = t[1] /\ s[26 + 2] = t[2] /\ s[26 + 3] = t[3] /\ s[26 + 4] = t[4] BY <2>8
    <3> QED BY <3>1
  <2>10. s[21] = "family_frontier" BY <2>3, <2>8
  <2>11. \A i \in 1 .. 26 : s[i] = Payloads[i] /\ s[i] \in PayloadFiles BY <2>4, <2>8
  <2> QED BY <2>5, <2>8, <2>9, <2>10, <2>11
<1> HIDE DEF s
<1> SUFFICES ASSUME NEW i \in 1 .. 30, NEW j \in 1 .. 30, s[j] \in MadeOf(s[i]) PROVE j < i
  BY <1>1 DEF InOrder, s
<1>2. \A k \in 1 .. 30 : k \in 1 .. 26 \/ k = 27 \/ k = 28 \/ k = 29 \/ k = 30 OBVIOUS
<1>3. \A k \in 1 .. 30 : s[k] \notin {ContractFile, "resource_projection"}
  BY <1>1, <1>2 DEF PayloadFiles, ContractFile, Counts, Targets, Results
<1>4. CASE i \in 1 .. 26
  <2>1. s[i] \in PayloadFiles BY <1>1, <1>4
  <2>2. MadeOf(s[i]) \subseteq {ContractFile, "resource_projection"}
    BY <2>1, MadeOfIs DEF FromContract
  <2> QED BY <1>3, <2>2
<1>5. CASE i = 30
  <2>1. MadeOf("build_summary") = {ContractFile} BY MadeOfIs DEF FromContract
  <2> QED BY <1>1, <1>3, <1>5, <2>1
<1>6. CASE i = 27
  <2>1. s[j] = "family_frontier" BY <1>1, <1>6, MadeOfIs
  <2>2. j # 27 /\ j # 28 /\ j # 29 /\ j # 30 BY <1>1, <2>1 DEF Counts, Targets, Results
  <2> QED BY <1>2, <1>6, <2>2
<1>7. CASE i \in {28, 29}
  <2>1. s[j] = Counts \/ (s[j] = Targets /\ i = 29) BY <1>1, <1>7, MadeOfIs
  <2>2. j \notin 1 .. 26 BY <1>1, <2>1 DEF Counts, Targets, PayloadFiles
  <2>3. j # 29 /\ j # 30 /\ (j = 28 => i = 29) BY <1>1, <2>1 DEF Counts, Targets, Results
  <2> QED BY <1>2, <1>7, <2>2, <2>3
<1> QED BY <1>2, <1>4, <1>5, <1>6, <1>7

(* ... the research pass ...                                               *)
LEMMA ResearchInOrder == InOrder(ResearchOrder)
<1> DEFINE s == ResearchOrder
<1>1. /\ Len(s) = 8 /\ s[1] = "dominant_cost_breakdown" /\ s[2] = ContractFile /\ s[3] = FoldedScaffold
      /\ s[4] = "lookup_signed_fold_summary" /\ s[5] = "lookup_folded_projection"
      /\ s[6] = "literature_projection_scenarios" /\ s[7] = "optimization_frontier_estimates"
      /\ s[8] = "research_pass_summary"
  BY DEF ResearchOrder
<1>2. /\ MadeOf(s[1]) = {"resource_projection"} /\ MadeOf(s[2]) = {}
      /\ MadeOf(s[3]) = {ContractFile} /\ MadeOf(s[4]) = {ContractFile}
      /\ MadeOf(s[5]) = {"resource_projection"}
      /\ MadeOf(s[6]) = {"dominant_cost_breakdown", "resource_projection", "lookup_folded_projection"}
      /\ MadeOf(s[7]) = {"resource_projection", "lookup_folded_projection"}
      /\ MadeOf(s[8]) = {"dominant_cost_breakdown", ContractFile, FoldedScaffold,
                         "lookup_signed_fold_summary", "lookup_folded_projection",
                         "optimization_frontier_estimates"}
  <2>1. FoldedScaffold \in FromContract /\ "lookup_signed_fold_summary" \in FromContract BY DEF FromContract
  <2> HIDE DEF s
  <2> QED BY <1>1, <2>1, MadeOfIs
<1> HIDE DEF s
<1> SUFFICES ASSUME NEW i \in 1 .. 8, NEW j \in 1 .. 8, s[j] \in MadeOf(s[i]) PROVE j < i
  BY <1>1 DEF InOrder, s
<1>3. \A k \in 1 .. 8 : k = 1 \/ k = 2 \/ k = 3 \/ k = 4 \/ k = 5 \/ k = 6 \/ k = 7 \/ k = 8 OBVIOUS
<1>4. /\ \A k \in 1 .. 8 : s[k] # "resource_projection"
      /\ \A k \in 1 .. 8 : s[k] = ContractFile => k = 2
      /\ \A k \in 1 .. 8 : s[k] = "dominant_cost_breakdown" => k = 1
      /\ \A k \in 1 .. 8 : s[k] = "lookup_folded_projection" => k = 5
      /\ \A k \in 1 .. 8 : s[k] = "research_pass_summary" => k = 8
  BY <1>1, <1>3 DEF ContractFile, FoldedScaffold
<1>5. i # 2 BY <1>2
<1>6. CASE i \in {1, 5} BY <1>2, <1>4, <1>6
<1>7. CASE i \in {3, 4} BY <1>2, <1>4, <1>7
<1>8. CASE i \in {6, 7} BY <1>2, <1>4, <1>8
<1>9. CASE i = 8
  <2>1. s[j] # "research_pass_summary" BY <1>2, <1>9 DEF ContractFile, FoldedScaffold
  <2>2. j # 8 BY <1>1, <2>1
  <2> QED BY <1>3, <1>9, <2>2
<1> QED BY <1>3, <1>5, <1>6, <1>7, <1>8, <1>9

(* ... the audits ...                                                      *)
LEMMA AuditsInOrder == InOrder(AuditOrder)
<1> DEFINE s == AuditOrder
<1>1. /\ Len(s) = 3 /\ s[1] = "lookup_signed_fold_summary" /\ s[2] = "lookup_contract_summary"
      /\ s[3] = "claim_boundary_matrix"
  BY DEF AuditOrder
<1>2. /\ MadeOf(s[1]) = {ContractFile} /\ MadeOf(s[2]) = {ContractFile, "lookup_signed_fold_summary"}
      /\ MadeOf(s[3]) = {"resource_projection"}
  <2>1. "lookup_signed_fold_summary" \in FromContract BY DEF FromContract
  <2> HIDE DEF s
  <2> QED BY <1>1, <2>1, MadeOfIs
<1> HIDE DEF s
<1> SUFFICES ASSUME NEW i \in 1 .. 3, NEW j \in 1 .. 3, s[j] \in MadeOf(s[i]) PROVE j < i
  BY <1>1 DEF InOrder, s
<1>3. \A k \in 1 .. 3 : k = 1 \/ k = 2 \/ k = 3 OBVIOUS
<1>4. /\ \A k \in 1 .. 3 : s[k] \notin {ContractFile, "resource_projection"}
      /\ \A k \in 1 .. 3 : s[k] = "lookup_signed_fold_summary" => k = 1
  BY <1>1, <1>3 DEF ContractFile
<1> QED BY <1>2, <1>3, <1>4

(* ... the projection ...                                                  *)
LEMMA ProjectionInOrder == InOrder(ProjectionOrder)
<1> DEFINE s == ProjectionOrder
<1>1. Len(s) \in Nat /\ \A i \in 1 .. Len(s) : s[i] \in ProjectionFiles
  <2>1. s \in Seq(ProjectionFiles) BY DEF ProjectionOrder, ProjectionFiles
  <2> HIDE DEF s
  <2> QED BY <2>1
<1> HIDE DEF s
<1>2. \A i, j \in 1 .. Len(s) : s[j] \notin MadeOf(s[i])
  BY <1>1, MadeOfIs DEF ProjectionFiles, ContractFile, FoldedScaffold
<1> QED BY <1>2 DEF InOrder, s

(* ... and a step that writes one file.                                    *)
LEMMA OneInOrder == \A f \in Files : InOrder(<<f>>)
<1> SUFFICES ASSUME NEW f \in Files PROVE InOrder(<<f>>) OBVIOUS
<1> DEFINE s == <<f>>
<1>1. Len(s) = 1 /\ \A i \in 1 .. 1 : s[i] = f OBVIOUS
<1>2. f \notin MadeOf(f) BY NotOfItself
<1> HIDE DEF s
<1> QED BY <1>1, <1>2 DEF InOrder, s

(* Every step.                                                             *)
LEMMA WritesInOrder ==
  ASSUME NEW st \in Writers
  PROVE  InOrder(Writes[st])
<1>1. CASE st \in {"projection", "research", "audits", "build"}
  BY <1>1, ProjectionInOrder, ResearchInOrder, AuditsInOrder, BuildInOrder DEF Writes
<1>2. CASE st \in {"rebuild_summary", "cain_transfer", "zkp_inputs", "verified", "repo_summary",
                   "cain_summary", "figures"}
  <2>1. \E f \in Files : Writes[st] = <<f>> BY <1>2, FilesAre DEF Writes
  <2> QED BY <2>1, OneInOrder
<1>3. CASE st = "shown"
  <2>1. Writes[st] = << >> BY <1>3 DEF Writes
  <2>2. InOrder(<< >>) BY DEF InOrder
  <2> QED BY <2>1, <2>2
<1> QED BY <1>1, <1>2, <1>3 DEF Writers, StepNames

(* Two rounds of writes, one after the other.                              *)
LEMMA WriteAllConcat ==
  ASSUME NEW d, NEW S, NEW s \in Seq(S), NEW t \in Seq(S)
  PROVE  WriteAll(d, s \o t) = WriteAll(WriteAll(d, s), t)
<1> DEFINE u == s \o t
           e == WriteAll(d, s)
           M == Len(s)
           N == Len(t)
<1>1. /\ Len(u) = M + N /\ \A i \in 1 .. M : u[i] = s[i]
      /\ \A i \in 1 .. N : u[M + i] = t[i]
  BY ConcatIs
<1>2. M \in Nat /\ N \in Nat OBVIOUS
<1> HIDE DEF u
<1>3. PICK h : Successive(h, d, u) /\ WriteAll(d, u) = h[M + N]
  <2>1. Len(u) \in Nat BY <1>1, <1>2
  <2> QED BY <1>1, <2>1, WriteAllIs
<1>4. PICK g : Successive(g, d, s) /\ e = g[M] BY WriteAllIs
<1>5. PICK k : Successive(k, e, t) /\ WriteAll(e, t) = k[N] BY WriteAllIs
<1> HIDE DEF e, M, N
<1>6. h[0] = d /\ \A i \in 1 .. M + N : h[i] = Rewrite(h[i - 1], u[i]) BY <1>1, <1>3 DEF Successive
<1>7. g[0] = d /\ \A i \in 1 .. M : g[i] = Rewrite(g[i - 1], s[i]) BY <1>4 DEF Successive, M
<1>8. k[0] = e /\ \A i \in 1 .. N : k[i] = Rewrite(k[i - 1], t[i]) BY <1>5 DEF Successive, N
<1> DEFINE A == {i \in Nat : i <= M => h[i] = g[i]}
           B == {i \in Nat : i <= N => h[M + i] = k[i]}
<1>9. 0 \in A BY <1>6, <1>7
<1>10. ASSUME NEW i \in Nat, i \in A PROVE i + 1 \in A
  <2> SUFFICES ASSUME i + 1 <= M PROVE h[i + 1] = g[i + 1] OBVIOUS
  <2>1. i + 1 \in 1 .. M /\ i + 1 \in 1 .. M + N /\ (i + 1) - 1 = i /\ i <= M BY <1>2
  <2>2. h[i] = g[i] BY <1>10, <2>1
  <2>3. h[i + 1] = Rewrite(h[i], u[i + 1]) BY <1>6, <2>1
  <2>4. g[i + 1] = Rewrite(g[i], s[i + 1]) BY <1>7, <2>1
  <2> QED BY <1>1, <2>1, <2>2, <2>3, <2>4
<1>11. h[M] = g[M]
  <2> HIDE DEF A
  <2>1. Nat \subseteq A BY <1>9, <1>10, SetInduction
  <2>2. M \in A BY <1>2, <2>1
  <2> QED BY <1>2, <2>2 DEF A
<1>12. 0 \in B
  <2>1. M + 0 = M BY <1>2
  <2> QED BY <1>4, <1>8, <1>11, <2>1
<1>13. ASSUME NEW i \in Nat, i \in B PROVE i + 1 \in B
  <2> SUFFICES ASSUME i + 1 <= N PROVE h[M + (i + 1)] = k[i + 1] OBVIOUS
  <2>1. i + 1 \in 1 .. N /\ M + (i + 1) \in 1 .. M + N /\ (i + 1) - 1 = i /\ (M + (i + 1)) - 1 = M + i /\ i <= N
    BY <1>2
  <2>2. h[M + i] = k[i] BY <1>13, <2>1
  <2>3. h[M + (i + 1)] = Rewrite(h[M + i], u[M + (i + 1)]) BY <1>6, <2>1
  <2>4. k[i + 1] = Rewrite(k[i], t[i + 1]) BY <1>8, <2>1
  <2>5. u[M + (i + 1)] = t[i + 1] BY <1>1, <2>1
  <2> QED BY <2>2, <2>3, <2>4, <2>5
<1>14. h[M + N] = k[N]
  <2> HIDE DEF B
  <2>1. Nat \subseteq B BY <1>12, <1>13, SetInduction
  <2>2. N \in B BY <1>2, <2>1
  <2> QED BY <1>2, <2>2 DEF B
<1> QED BY <1>3, <1>5, <1>14 DEF u, e

(* After the writes w every file of T is settled.                          *)
Reached(d, w, T) ==
  w \in Seq(Files) /\ Tree(WriteAll(d, w)) /\ Closed(T) /\ Settled(WriteAll(d, w), T)

(* One step more.                                                          *)
LEMMA ReachNext ==
  ASSUME NEW d, NEW w, NEW S, Reached(d, w, S), NEW s \in Seq(Files), InOrder(s),
         NEW T, Closed(T), S \subseteq T, T \subseteq S \cup ToSet(s)
  PROVE  Reached(d, w \o s, T)
<1> DEFINE e == WriteAll(d, w)
<1>1. w \in Seq(Files) /\ Tree(e) /\ Closed(S) /\ Settled(e, S) BY DEF Reached
<1>2. WriteAll(d, w \o s) = WriteAll(e, s) BY <1>1, WriteAllConcat
<1>3. w \o s \in Seq(Files) BY <1>1
<1> HIDE DEF e
<1>4. Tree(WriteAll(e, s)) BY <1>1, WriteAllKeeps
<1>5. Settled(WriteAll(e, s), T) BY <1>1, WritesSettle DEF InOrder
<1> QED BY <1>2, <1>3, <1>4, <1>5 DEF Reached

(* The released tree is what the code makes.                               *)
LEMMA ReleasedSettled == Tree(Released) /\ Settled(Released, Files)
<1> DEFINE d == [f \in Files |-> IF f = Results THEN Whole({Stamp(p) : p \in Compiled}) ELSE Absent]
           s == <<ContractFile, FoldedScaffold>>
           t == <<"verifier_rebuild_summary", "cain_exact_transfer", "zkp_attestation_input",
                  "verification_summary">>
           u == <<"repo_verification_summary", "cain_2026_integration_summary", "figures">>
           T1 == {ContractFile, FoldedScaffold}
           T2 == T1 \cup ProjectionFiles
           T3 == T2 \cup ResearchFiles
           T4 == T3 \cup BuildFiles
           T5 == T4 \cup {"verifier_rebuild_summary", "cain_exact_transfer", "zkp_attestation_input",
                          "verification_summary"}
           T6 == T5 \cup AuditFiles
           T7 == T6 \cup {"repo_verification_summary", "cain_2026_integration_summary", "figures"}
<1>1. Tree(d)
  <2>1. \A f \in Files : d[f] = [is |-> d[f].is, from |-> d[f].from] BY DEF Whole, Absent
  <2>2. d = [f \in Files |-> d[f]] OBVIOUS
  <2> HIDE DEF d
  <2> QED BY <2>1, <2>2 DEF Tree
<1>2. /\ s \in Seq(Files) /\ t \in Seq(Files) /\ u \in Seq(Files)
      /\ T7 \subseteq Files /\ Files \subseteq T7
  <2>1. ContractFile \in Files /\ FoldedScaffold \in Files BY FilesAre DEF ResearchFiles
  <2>2. {"verifier_rebuild_summary", "cain_exact_transfer", "zkp_attestation_input",
         "verification_summary", "repo_verification_summary", "cain_2026_integration_summary",
         "figures"} \subseteq Files
    BY FilesAre
  <2>3. T7 \subseteq Files /\ Files \subseteq T7 BY <2>1, FilesAre
  <2> QED BY <2>1, <2>2, <2>3
<1>3. /\ ProjectionOrder \in Seq(Files) /\ ResearchOrder \in Seq(Files)
      /\ BuildOrder \in Seq(Files) /\ AuditOrder \in Seq(Files)
      /\ ToSet(ProjectionOrder) = ProjectionFiles /\ ToSet(ResearchOrder) = ResearchFiles
      /\ ToSet(BuildOrder) = BuildFiles /\ ToSet(AuditOrder) = AuditFiles
  <2>1. /\ Writes["projection"] = ProjectionOrder /\ Writes["research"] = ResearchOrder
        /\ Writes["build"] = BuildOrder /\ Writes["audits"] = AuditOrder
    BY DEF Writes
  <2>2. /\ WrittenBy["projection"] = ProjectionFiles /\ WrittenBy["research"] = ResearchFiles
        /\ WrittenBy["build"] = BuildFiles /\ WrittenBy["audits"] = AuditFiles
    BY DEF WrittenBy
  <2>3. "projection" \in Writers /\ "research" \in Writers /\ "build" \in Writers /\ "audits" \in Writers
    BY DEF Writers, StepNames
  <2> QED BY <2>1, <2>2, <2>3, WritesAre
<1>4. /\ ToSet(s) = T1
      /\ ToSet(t) = {"verifier_rebuild_summary", "cain_exact_transfer", "zkp_attestation_input",
                     "verification_summary"}
      /\ ToSet(u) = {"repo_verification_summary", "cain_2026_integration_summary", "figures"}
  BY DEF ToSet
<1>5. /\ Len(s) = 2 /\ s[1] = ContractFile /\ s[2] = FoldedScaffold
      /\ Len(t) = 4 /\ t[1] = "verifier_rebuild_summary" /\ t[2] = "cain_exact_transfer"
      /\ t[3] = "zkp_attestation_input" /\ t[4] = "verification_summary"
      /\ Len(u) = 3 /\ u[1] = "repo_verification_summary" /\ u[2] = "cain_2026_integration_summary"
      /\ u[3] = "figures"
  OBVIOUS
<1>6. /\ FoldedScaffold \in FromContract /\ "zkp_attestation_input" \in FromContract
      /\ MadeOf(ContractFile) = {} /\ MadeOf(FoldedScaffold) = {ContractFile}
      /\ MadeOf("verifier_rebuild_summary") = {} /\ MadeOf("cain_exact_transfer") = {"family_frontier"}
      /\ MadeOf("zkp_attestation_input") = {ContractFile}
      /\ MadeOf("verification_summary") = Required \cup {ContractFile, "resource_projection"}
      /\ MadeOf("repo_verification_summary") = Summarised \cup {"lookup_contract_summary"}
      /\ MadeOf("cain_2026_integration_summary") = {"family_frontier", "cain_exact_transfer"}
      /\ MadeOf("figures") = Drawn
  <2>1. FoldedScaffold \in FromContract /\ "zkp_attestation_input" \in FromContract BY DEF FromContract
  <2> QED BY <2>1, MadeOfIs
<1> HIDE DEF d, s, t, u
<1>7. InOrder(s)
  <2>1. \A k \in 1 .. 2 : k = 1 \/ k = 2 OBVIOUS
  <2>2. ContractFile # FoldedScaffold BY DEF ContractFile, FoldedScaffold
  <2> QED BY <1>5, <1>6, <2>1, <2>2 DEF InOrder
<1>8. InOrder(t)
  <2>1. \A k \in 1 .. 4 : k = 1 \/ k = 2 \/ k = 3 \/ k = 4 OBVIOUS
  <2>2. /\ \A k \in 1 .. 4 : t[k] \notin {ContractFile, "family_frontier"}
        /\ "verification_summary" \notin Required \cup {ContractFile, "resource_projection"}
    <3>1. "verification_summary" \notin Required
      BY OrdersAre DEF Required, PayloadFiles, Counts, Targets, Results
    <3> QED BY <1>5, <2>1, <3>1 DEF ContractFile
  <2> SUFFICES ASSUME NEW i \in 1 .. 4, NEW j \in 1 .. 4, t[j] \in MadeOf(t[i]) PROVE j < i
    BY <1>5 DEF InOrder
  <2>3. i = 4 /\ j # 4 BY <1>5, <1>6, <2>1, <2>2
  <2> QED BY <2>1, <2>3
<1>9. InOrder(u)
  <2>1. \A k \in 1 .. 3 : k = 1 \/ k = 2 \/ k = 3 OBVIOUS
  <2>2. /\ \A k \in 1 .. 3 : u[k] \notin Summarised \cup {"lookup_contract_summary"}
        /\ \A k \in 1 .. 3 : u[k] \notin {"family_frontier", "cain_exact_transfer"}
        /\ "figures" \notin Drawn
    BY <1>5, <2>1 DEF Summarised, Drawn, Targets, Results
  <2> SUFFICES ASSUME NEW i \in 1 .. 3, NEW j \in 1 .. 3, u[j] \in MadeOf(u[i]) PROVE j < i
    BY <1>5 DEF InOrder
  <2>3. i = 3 /\ j # 3 BY <1>5, <1>6, <2>1, <2>2
  <2> QED BY <2>1, <2>3
<1>10. Closed(T1) BY <1>2, <1>6 DEF Closed
<1>11. Closed(T2)
  <2>1. \A f \in ProjectionFiles : MadeOf(f) \subseteq T1 BY MadeOfIs
  <2> QED BY <1>2, <1>10, <2>1 DEF Closed
<1>12. Closed(T3)
  <2>1. "resource_projection" \in T2 BY DEF ProjectionFiles
  <2>2. "lookup_signed_fold_summary" \in FromContract BY DEF FromContract
  <2>3. \A f \in ResearchFiles : MadeOf(f) \subseteq ResearchFiles \cup {"resource_projection"}
    BY <1>6, <2>2, MadeOfIs DEF ResearchFiles
  <2> QED BY <1>2, <1>11, <2>1, <2>3 DEF Closed
<1>13. Closed(T4)
  <2>1. "resource_projection" \in T3 /\ ContractFile \in T3 BY DEF ProjectionFiles
  <2>2. \A f \in BuildFiles : MadeOf(f) \subseteq BuildFiles \cup {ContractFile, "resource_projection"}
    <3>1. \A f \in BuildFiles : \/ f \in FromContract \/ f = "qubit_breakthrough_analysis"
                                \/ f \in {Counts, Targets, Results}
      BY DEF BuildFiles, FromContract
    <3>2. {"family_frontier", Counts, Targets} \subseteq BuildFiles BY DEF BuildFiles, PayloadFiles
    <3> QED BY <3>1, <3>2, MadeOfIs
  <2> QED BY <1>2, <1>12, <2>1, <2>2 DEF Closed
<1>14. Closed(T5)
  <2>1. {"family_frontier", ContractFile, "resource_projection"} \subseteq T4
    BY DEF ProjectionFiles, BuildFiles, PayloadFiles
  <2>2. Required \subseteq BuildFiles \cup {"cain_exact_transfer"} BY OrdersAre DEF Required, BuildFiles
  <2> QED BY <1>2, <1>6, <1>13, <2>1, <2>2 DEF Closed
<1>15. Closed(T6)
  <2>1. {"resource_projection", ContractFile, "lookup_signed_fold_summary"} \subseteq T5
    BY DEF ProjectionFiles, ResearchFiles
  <2>2. "lookup_signed_fold_summary" \in FromContract BY DEF FromContract
  <2>3. \A f \in AuditFiles : MadeOf(f) \subseteq {"resource_projection", ContractFile, "lookup_signed_fold_summary"}
    BY <2>2, MadeOfIs DEF AuditFiles
  <2> QED BY <1>2, <1>14, <2>1, <2>3 DEF Closed
<1>16. Closed(T7)
  <2>1. \A f \in Files : MadeOf(f) \subseteq Files BY TurnsGrow
  <2> QED BY <1>2, <2>1 DEF Closed
<1>17. Reached(d, s, T1)
  <2>1. Closed({}) /\ Settled(d, {}) BY DEF Closed, Settled
  <2>2. Settled(WriteAll(d, s), T1) BY <1>1, <1>2, <1>4, <1>7, <1>10, <2>1, WritesSettle DEF InOrder
  <2> QED BY <1>1, <1>2, <1>10, <2>2, WriteAllKeeps DEF Reached
<1> HIDE DEF T1, T2, T3, T4, T5, T6, T7
<1>18. /\ T2 = T1 \cup ToSet(ProjectionOrder) /\ T3 = T2 \cup ToSet(ResearchOrder)
       /\ T4 = T3 \cup ToSet(BuildOrder) /\ T5 = T4 \cup ToSet(t)
       /\ T6 = T5 \cup ToSet(AuditOrder) /\ T7 = T6 \cup ToSet(u)
  BY <1>3, <1>4 DEF T2, T3, T4, T5, T6, T7
<1>19. Reached(d, s \o ProjectionOrder, T2)
  BY <1>3, <1>11, <1>17, <1>18, ProjectionInOrder, ReachNext
<1>20. Reached(d, s \o ProjectionOrder \o ResearchOrder, T3)
  BY <1>3, <1>12, <1>18, <1>19, ResearchInOrder, ReachNext
<1>21. Reached(d, s \o ProjectionOrder \o ResearchOrder \o BuildOrder, T4)
  BY <1>3, <1>13, <1>18, <1>20, BuildInOrder, ReachNext
<1>22. Reached(d, s \o ProjectionOrder \o ResearchOrder \o BuildOrder \o t, T5)
  BY <1>2, <1>8, <1>14, <1>18, <1>21, ReachNext
<1>23. Reached(d, s \o ProjectionOrder \o ResearchOrder \o BuildOrder \o t \o AuditOrder, T6)
  BY <1>3, <1>15, <1>18, <1>22, AuditsInOrder, ReachNext
<1> DEFINE w == s \o ProjectionOrder \o ResearchOrder \o BuildOrder \o t \o AuditOrder \o u
<1>24. Reached(d, w, T7)
  BY <1>2, <1>9, <1>16, <1>18, <1>23, ReachNext
<1>25. Released = WriteAll(d, w) BY DEF Released, d, s, t, u
<1>26. T7 = Files BY <1>2
<1> HIDE DEF w
<1> QED BY <1>24, <1>25, <1>26 DEF Reached

(* The steps that a command or a test adds, but a refresh and a parallel   *)
(* test run, do not write the repository's manifest.                       *)
LEMMA PlansOnly ==
  /\ \A c \in Commands \ {"refresh", "run_tests"} : "repository_manifest" \notin ToSet(Steps(c))
  /\ \A t \in TestTargets : "repository_manifest" \notin ToSet(Producer(t))
<1>1. /\ "repository_manifest" \notin ToSet(Build) /\ "repository_manifest" \notin ToSet(Verify)
      /\ "repository_manifest" \notin ToSet(Compare) /\ "repository_manifest" \notin ToSet(<<"tests">>)
  BY DEF ToSet, Build, Verify, Compare
<1>2. "repository_manifest" \notin ToSet(VerifyAll)
  <2> DEFINE s == <<"projection", "audits">>
             t == <<"repo_summary">>
  <2>1. s \in Seq(StepNames) /\ t \in Seq(StepNames) BY DEF StepNames
  <2>2. "repository_manifest" \notin ToSet(s) /\ "repository_manifest" \notin ToSet(t) BY DEF ToSet
  <2>3. Build \in Seq(StepNames) /\ Verify \in Seq(StepNames) BY RefreshSteps
  <2> HIDE DEF s, t
  <2>4. s \o Build \in Seq(StepNames) /\ s \o Build \o Verify \in Seq(StepNames) BY <2>1, <2>3
  <2>5. ToSet(s \o Build \o Verify \o t) = ToSet(s) \cup ToSet(Build) \cup ToSet(Verify) \cup ToSet(t)
    <3> DEFINE a == s \o Build
               b == a \o Verify
    <3>1. ToSet(a) = ToSet(s) \cup ToSet(Build) BY <2>1, <2>3, ToSetConcat
    <3>2. a \in Seq(StepNames) /\ b \in Seq(StepNames) BY <2>4
    <3> HIDE DEF a
    <3>3. ToSet(b) = ToSet(a) \cup ToSet(Verify) BY <2>3, <3>2, ToSetConcat
    <3> HIDE DEF b
    <3>4. ToSet(b \o t) = ToSet(b) \cup ToSet(t) BY <2>1, <3>2, ToSetConcat
    <3> QED BY <3>1, <3>3, <3>4 DEF a, b
  <2> QED BY <1>1, <2>2, <2>5 DEF VerifyAll, s, t
<1>3. ASSUME NEW c \in Commands \ {"refresh", "run_tests"} PROVE "repository_manifest" \notin ToSet(Steps(c))
  <2>1. c \in {"build", "verify", "verify_all", "compare", "run_serial"} BY PipelineAssumption
  <2>2. Steps(c) \in {Build, Verify, VerifyAll, Compare, <<"tests">>} BY <2>1 DEF Steps
  <2> QED BY <1>1, <1>2, <2>2
<1>4. ASSUME NEW t \in TestTargets PROVE "repository_manifest" \notin ToSet(Producer(t))
  <2>1. t \in {"repo_verification_summary", "cain_2026_integration_summary", "build_summary",
               "verification_summary"}
    BY PipelineAssumption
  <2>2. Producer(t) \in {Build, Verify, VerifyAll, Compare} BY <2>1 DEF Producer
  <2> QED BY <1>1, <1>2, <2>2
<1> QED BY <1>3, <1>4

(* What is left.                                                           *)
LEMMA TailSet ==
  ASSUME NEW S, NEW s \in Seq(S), s # << >>
  PROVE  ToSet(Tail(s)) \subseteq ToSet(s)
<1>1. Len(s) \in Nat /\ Len(s) >= 1 /\ DOMAIN s = 1 .. Len(s) OBVIOUS
<1>2. Tail(s) \in Seq(S) /\ Len(Tail(s)) = Len(s) - 1 /\ \A i \in 1 .. Len(s) - 1 : Tail(s)[i] = s[i + 1] OBVIOUS
<1> DEFINE t == Tail(s)
<1>3. DOMAIN t = 1 .. Len(s) - 1 BY <1>1, <1>2
<1> HIDE DEF t
<1>4. \A i \in 1 .. Len(s) - 1 : t[i] = s[i + 1] /\ i + 1 \in 1 .. Len(s) BY <1>1, <1>2 DEF t
<1> QED BY <1>1, <1>3, <1>4 DEF ToSet, t

(* Initially.                                                              *)
LEMMA TestsAtInit == Init => TestsAt
BY DEF Init, TestsAt, Rewriting, NoTests, ToSet

(* Only a test that runs in parallel truncates a file and goes on.         *)
LEMMA TestsAtStep ==
  ASSUME Typed, Kept, TestsAt, [Next]_vars
  PROVE  TestsAt'
<1> DEFINE M == "repository_manifest"
<1>1. /\ Rewriting => Running("tests") /\ command.name = "run_tests"
      /\ M \in ToSet(todo) => Planned
      /\ refreshes \in 0 .. 2
  BY DEF TestsAt
<1>2. todo \in Seq(StepNames) BY DEF Typed
<1>3. ~Rewriting \/ (todo # << >> /\ Head(todo) = "tests" /\ Planned)
  BY <1>1 DEF Running, Planned
<1>4. M \notin ToSet(<< >>) /\ M \notin ToSet(<<"tests">>) /\ M \notin ToSet(<<"research">>)
  BY DEF ToSet
<1>5. todo # << >> => M \notin ToSet(Tail(todo)) \/ Planned BY <1>1, <1>2, TailSet
<1>6. ASSUME tests' = tests, ~Rewriting PROVE ~Rewriting' BY <1>6 DEF Rewriting
<1>7. "tests" \notin Writers /\ M \notin Writers BY DEF Writers, StepNames
<1>8. ASSUME command'.name = command.name PROVE Planned' = Planned BY <1>8 DEF Planned
<1>9. ASSUME Finish, todo # << >> PROVE command'.name = command.name /\ (M \in ToSet(todo') => Planned')
  <2>1. command'.name = command.name BY <1>9 DEF Finish, Typed
  <2> QED BY <1>5, <1>8, <1>9, <2>1 DEF Finish
<1>10. CASE UNCHANGED vars
  BY <1>1, <1>10 DEF vars, TestsAt, Rewriting, Running, Planned
<1>11. ASSUME NEW c \in Commands, Start(c) PROVE TestsAt'
  <2>1. ~Rewriting' BY <1>3, <1>6, <1>11 DEF Start
  <2>2. todo' = Steps(c) /\ command'.name = c /\ refreshes' = refreshes BY <1>11 DEF Start
  <2>3. M \in ToSet(todo') => Planned' BY <2>2, PlansOnly DEF Planned
  <2> QED BY <1>1, <2>1, <2>2, <2>3 DEF TestsAt
<1>12. CASE Perform
  <2>1. ~Rewriting' BY <1>3, <1>6, <1>7, <1>12, WritesAre DEF Perform
  <2> QED BY <1>1, <1>9, <1>12, <2>1 DEF TestsAt, Perform
<1>13. CASE Raise
  <2>1. ~Rewriting' BY <1>3, <1>6, <1>7, <1>13, WritesAre DEF Raise
  <2>2. todo' \in {<< >>, <<"tests">>} /\ refreshes' = refreshes BY <1>13 DEF Raise
  <2> QED BY <1>1, <1>4, <2>1, <2>2 DEF TestsAt
<1>14. ASSUME NEW s \in Seq(StepNames), M \notin ToSet(s), todo # << >>, todo' = s \o Tail(todo)
       PROVE  M \in ToSet(todo') => Planned
  <2>1. Tail(todo) \in Seq(StepNames) BY <1>14, HeadOf
  <2>2. ToSet(todo') = ToSet(s) \cup ToSet(Tail(todo)) BY <1>14, <2>1, ToSetConcat
  <2> QED BY <1>5, <1>14, <2>2
<1>15. /\ <<"build", "cain_transfer", "verified">> \in Seq(StepNames) /\ <<"verified">> \in Seq(StepNames)
       /\ <<"cain_summary", "shown">> \in Seq(StepNames) /\ <<"shown">> \in Seq(StepNames)
       /\ <<"research">> \in Seq(StepNames)
  BY DEF StepNames
<1>16. /\ M \notin ToSet(<<"build", "cain_transfer", "verified">>) /\ M \notin ToSet(<<"verified">>)
       /\ M \notin ToSet(<<"cain_summary", "shown">>) /\ M \notin ToSet(<<"shown">>)
  BY DEF ToSet
<1>17. CASE Load
  <2>1. ~Rewriting' /\ todo # << >> BY <1>3, <1>6, <1>17 DEF Load, Running
  <2>2. M \in ToSet(todo') => Planned
    <3>1. \E s \in Seq(StepNames) : M \notin ToSet(s) /\ todo' = s \o Tail(todo) BY <1>15, <1>16, <1>17 DEF Load
    <3> QED BY <1>14, <2>1, <3>1
  <2>3. Planned' = Planned BY <1>8, <1>17 DEF Load
  <2> QED BY <1>1, <1>17, <2>1, <2>2, <2>3 DEF TestsAt, Load
<1>18. CASE CompareCain
  <2>1. ~Rewriting' /\ todo # << >> BY <1>3, <1>6, <1>18 DEF CompareCain, Running
  <2>2. M \in ToSet(todo') => Planned
    <3>1. \E s \in Seq(StepNames) : M \notin ToSet(s) /\ todo' = s \o Tail(todo)
      BY <1>15, <1>16, <1>18 DEF CompareCain
    <3> QED BY <1>14, <2>1, <3>1
  <2>3. Planned' = Planned BY <1>8, <1>18 DEF CompareCain
  <2> QED BY <1>1, <1>18, <2>1, <2>2, <2>3 DEF TestsAt, CompareCain
<1>19. CASE WriteProofManifest \/ WriteRepositoryManifest
  <2>1. ~Rewriting' /\ todo # << >> /\ Finish
    BY <1>3, <1>6, <1>19 DEF WriteProofManifest, WriteRepositoryManifest, Running
  <2>2. refreshes' \in 0 .. 2 BY <1>1, <1>19 DEF WriteProofManifest, WriteRepositoryManifest
  <2> QED BY <1>9, <2>1, <2>2 DEF TestsAt
<1>20. ASSUME NEW t \in TestTargets, EnsureTarget(t) PROVE TestsAt'
  <2>1. tests'.research = tests.research BY <1>20 DEF EnsureTarget, Typed
  <2>2. todo # << >> /\ command' = command /\ refreshes' = refreshes BY <1>20 DEF EnsureTarget, Running
  <2>3. Planned' = Planned /\ Rewriting' = Rewriting BY <2>1, <2>2 DEF Planned, Rewriting
  <2>4. CASE Planned
    <3>1. todo' = todo BY <1>20, <2>4, PlannedEnsure
    <3> QED BY <1>1, <2>2, <2>3, <3>1 DEF TestsAt, Running
  <2>5. CASE ~Planned
    <3>1. todo' = Producer(t) \o todo BY <1>20, <2>5 DEF EnsureTarget, Reuses, Planned
    <3>2. Producer(t) \in Seq(StepNames) /\ M \notin ToSet(Producer(t)) BY StepsAre, PlansOnly
    <3>3. ToSet(todo') = ToSet(Producer(t)) \cup ToSet(todo) BY <1>2, <3>1, <3>2, ToSetConcat
    <3> QED BY <1>1, <1>3, <2>2, <2>3, <2>5, <3>2, <3>3 DEF TestsAt
  <2> QED BY <2>4, <2>5
<1>21. CASE SerialResearchTest
  <2>1. ~Rewriting'
    <3>1. tests'.research = 16 BY <1>21, OrdersAre DEF SerialResearchTest, Typed, ResearchDone
    <3> QED BY <3>1 DEF Rewriting
  <2>2. command' = command /\ refreshes' = refreshes /\ todo' = <<"research">> \o todo
    BY <1>21 DEF SerialResearchTest
  <2>3. ToSet(todo') = ToSet(<<"research">>) \cup ToSet(todo) BY <1>2, <1>15, <2>2, ToSetConcat
  <2>4. Planned' = Planned BY <2>2 DEF Planned
  <2> QED BY <1>1, <1>4, <2>1, <2>2, <2>3, <2>4 DEF TestsAt
<1>22. CASE ParallelResearchTest
  <2>1. Running("tests") /\ command.name = "run_tests" /\ UNCHANGED <<todo, command, refreshes>>
    BY <1>22 DEF ParallelResearchTest
  <2> QED BY <1>1, <2>1 DEF TestsAt, Running, Planned
<1>23. CASE ManifestTest
  <2>1. tests'.research = tests.research BY <1>23 DEF ManifestTest, Typed
  <2>2. UNCHANGED <<todo, command, refreshes>> BY <1>23 DEF ManifestTest
  <2> QED BY <1>1, <2>1, <2>2 DEF TestsAt, Running, Planned, Rewriting
<1>24. CASE EndTests
  <2>1. ~Rewriting' BY <1>24 DEF EndTests, NoTests, Rewriting
  <2>2. todo # << >> /\ Finish /\ refreshes' = refreshes BY <1>24 DEF EndTests, Running
  <2> QED BY <1>1, <1>9, <2>1, <2>2 DEF TestsAt
<1>25. ASSUME NEW n \in Cuts, NEW torn \in BOOLEAN, Crash(n, torn) PROVE TestsAt'
  <2>1. ~Rewriting' BY <1>25 DEF Crash, NoTests, Rewriting
  <2>2. todo' = << >> /\ refreshes' = 0 BY <1>25 DEF Crash
  <2> QED BY <1>4, <2>1, <2>2 DEF TestsAt
<1>26. ASSUME todo = << >>, todo' = todo, tests' = tests, refreshes' = 0 PROVE TestsAt'
  <2>1. ~Rewriting' BY <1>3, <1>6, <1>26
  <2> QED BY <1>4, <1>26, <2>1 DEF TestsAt
<1>27. ASSUME NEW p \in Editable, Edit(p) PROVE TestsAt' BY <1>26, <1>27 DEF Edit
<1>28. ASSUME NEW f \in Removable, Delete(f) PROVE TestsAt' BY <1>26, <1>28 DEF Delete
<1> QED BY <1>10, <1>11, <1>12, <1>13, <1>17, <1>18, <1>19, <1>20, <1>21, <1>22, <1>23, <1>24, <1>25, <1>27, <1>28
        DEF Next

(* What is settled stays so while the sources stay.                        *)
LEMMA StillSettled ==
  ASSUME source' = source, qsharp' = qsharp, Progress' \in Nat,
         NEW T, Settled(Mended', T), Turned(Progress') \subseteq T
  PROVE  SettledSoFar'
<1>1. \A f \in Files : Content(Mended, f)' = Content(Mended', f) BY SameSources
<1>2. \A f \in Turned(Progress') : f \in Files BY DEF Turned
<1>3. Turned(Progress)' = Turned(Progress') BY DEF Turned, Turn
<1>4. \A f \in Turned(Progress') : Mended'[f] = Whole(Content(Mended, f)')
  BY <1>1, <1>2 DEF Settled
<1>5. \A f \in Turned(Progress') : Whole(Content(Mended, f)') = Whole(Content(Mended, f))' BY DEF Whole
<1> QED BY <1>3, <1>4, <1>5 DEF SettledSoFar, Settled

(* After an edit or a fault the refreshes start from nothing.              *)
LEMMA NothingSettled ==
  ASSUME todo' = << >>, refreshes' = 0
  PROVE  SettledSoFar'
<1>1. Progress' = 0 BY DEF Progress, Refreshing
<1>2. \A f \in Files : Turn(f) \in Nat /\ Turn(f) > 0 BY EveryTurn, TurnIs
<1>3. Turned(0) = {} BY <1>2 DEF Turned
<1>4. Turned(Progress)' = {}
  <2>1. Turned(Progress)' = Turned(Progress') BY DEF Turned, Turn
  <2> QED BY <1>1, <1>3, <2>1
<1> QED BY <1>4 DEF SettledSoFar, Settled

(* The progress of the refreshes ...                                       *)
ProgressKnown ==
  /\ Progress \in Nat /\ refreshes \in 0 .. 2
  /\ ~Refreshing => Progress = 18 * refreshes
  /\ Refreshing => Progress = 18 * refreshes + Performed /\ Performed \in 0 .. 17

(* ... before a step ...                                                   *)
LEMMA ProgressIs == TestsAt /\ Typed /\ Kept => ProgressKnown
<1> SUFFICES ASSUME TestsAt, Typed, Kept PROVE ProgressKnown OBVIOUS
<1>1. refreshes \in 0 .. 2 BY DEF TestsAt
<1>2. Refreshing => Performed \in 0 .. 17
  <2> SUFFICES ASSUME Refreshing PROVE Performed \in 0 .. 17 OBVIOUS
  <2>1. Performed \in 0 .. 19 BY HeadStep DEF Refreshing, Kept, OnCourse, Courses
  <2>2. Performed < 18 BY DEF Refreshing
  <2> HIDE DEF Performed
  <2> QED BY <2>1, <2>2
<1>3. Progress = 18 * refreshes + (IF Refreshing THEN Performed ELSE 0) BY DEF Progress
<1> DEFINE P == Performed
<1> HIDE DEF P
<1>4. Progress = 18 * refreshes + (IF Refreshing THEN P ELSE 0) BY <1>3 DEF P
<1>5. Refreshing => P \in 0 .. 17 BY <1>2 DEF P
<1>6. /\ ~Refreshing => Progress = 18 * refreshes
      /\ Refreshing => Progress = 18 * refreshes + P
      /\ Progress \in Nat
  BY <1>1, <1>4, <1>5
<1> QED BY <1>1, <1>2, <1>6 DEF P, ProgressKnown

(* ... and after a step.                                                   *)
LEMMA ProgressThen == TestsAt' /\ Typed' /\ Kept' => ProgressKnown'
BY ProgressIs, PTL

(* The same of what a write makes.                                         *)
LEMMA SameRewrite ==
  ASSUME NEW CONSTANT d, source' = source, qsharp' = qsharp, NEW CONSTANT f \in Files
  PROVE  Rewrite(d, f)' = Rewrite(d, f)
<1>1. Content(d, f)' = Content(d, f) BY SameSources
<1>2. Whole(Content(d, f))' = Whole(Content(d, f)) BY <1>1 DEF Whole
<1> QED BY <1>2 DEF Rewrite

(* The file the research test writes next.                                 *)
LEMMA InResearch ==
  ASSUME Typed, Rewriting \/ tests.research < ResearchDone
  PROVE  /\ ResearchOrder[tests.research \div 2 + 1] \in Files \ {Results}
         /\ tests.research \in 0 .. 15
<1> DEFINE r == tests.research
<1>1. r \in 0 .. 16 BY OrdersAre DEF Typed, ResearchDone
<1> HIDE DEF r
<1>2. r % 2 = 1 \/ r < 16 BY OrdersAre DEF Rewriting, ResearchDone, r
<1>3. r \in 0 .. 15 BY <1>1, <1>2
<1>4. (r \div 2) + 1 \in 1 .. 8 BY <1>3
<1> DEFINE i == (r \div 2) + 1
<1> HIDE DEF i
<1>5. ResearchOrder[i] \in ToSet(ResearchOrder)
  <2>1. i \in 1 .. 8 BY <1>4 DEF i
  <2>2. DOMAIN ResearchOrder = 1 .. 8 BY DEF ResearchOrder
  <2> QED BY <2>1, <2>2 DEF ToSet
<1>6. ToSet(ResearchOrder) \subseteq Files \ {Results}
  BY OrdersAre, FilesAre DEF ResearchFiles, ContractFile, FoldedScaffold, Results
<1> QED BY <1>3, <1>5, <1>6 DEF r, i

(* A step that writes no file mends none.                                  *)
LEMMA SameMended ==
  ASSUME Typed, source' = source, qsharp' = qsharp, disk' = disk,
         tests'.research = tests.research \/ (~Rewriting /\ ~Rewriting')
  PROVE  Mended' = Mended
<1>1. CASE ~Rewriting /\ ~Rewriting' BY <1>1 DEF Mended
<1>2. CASE tests'.research = tests.research
  <2>1. Rewriting' <=> Rewriting BY <1>2 DEF Rewriting
  <2>2. CASE ~Rewriting BY <2>1, <2>2 DEF Mended
  <2>3. CASE Rewriting
    <3> DEFINE f == ResearchOrder[tests.research \div 2 + 1]
    <3>1. f \in Files BY <2>3, InResearch
    <3>2. Mended = Rewrite(disk, f) BY <2>3 DEF Mended
    <3>3. f' = f BY <1>2
    <3>4. Mended' = Rewrite(disk, f)' BY <2>1, <2>3 DEF Mended
    <3> HIDE DEF f
    <3>5. Rewrite(disk, f)' = Rewrite(disk, f) BY <3>1, <3>3, SameRewrite
    <3> QED BY <3>2, <3>4, <3>5
  <2> QED BY <2>2, <2>3
<1> QED BY <1>1, <1>2

(* A step that writes no file.                                             *)
LEMMA StaySettled ==
  ASSUME Typed, SettledSoFar, source' = source, qsharp' = qsharp, disk' = disk,
         tests'.research = tests.research \/ (~Rewriting /\ ~Rewriting'),
         Progress' \in Nat, Turned(Progress') \subseteq Turned(Progress)
  PROVE  SettledSoFar'
<1>1. Mended' = Mended BY SameMended
<1>2. Settled(Mended', Turned(Progress)) BY <1>1 DEF SettledSoFar
<1> QED BY <1>2, StillSettled

(* Writes of files that are settled, or whose turn has not come.           *)
LEMMA WritesOnly ==
  ASSUME Typed, SettledSoFar, source' = source, qsharp' = qsharp, ~Rewriting, ~Rewriting',
         NEW s \in Seq(Files), disk' = WriteAll(disk, s), Progress \in Nat, Progress' \in Nat,
         Turned(Progress') \subseteq Turned(Progress)
  PROVE  SettledSoFar'
<1> DEFINE S == Turned(Progress)
<1>1. Mended = disk /\ Mended' = disk' BY DEF Mended
<1>2. Tree(disk) /\ Closed(S) /\ Settled(disk, S) BY <1>1, TurnedClosed DEF Typed, SettledSoFar
<1> HIDE DEF S
<1>3. \A i, j \in 1 .. Len(s) : s[i] \in S \ S /\ s[j] \in MadeOf(s[i]) => j < i OBVIOUS
<1>4. S \subseteq S /\ S \subseteq S \cup ToSet(s) OBVIOUS
<1>5. Settled(disk', S) BY <1>2, <1>3, <1>4, WritesSettle
<1> QED BY <1>1, <1>5, StillSettled DEF S

(* A step of a refresh settles the files whose turn it is.                 *)
LEMMA WritesInTurn ==
  ASSUME Typed, SettledSoFar, source' = source, qsharp' = qsharp, ~Rewriting, ~Rewriting',
         NEW st \in Writers, disk' = WriteAll(disk, Writes[st]), Progress \in Nat,
         Progress' = Progress + 1, Turned(Progress + 1) \subseteq Turned(Progress) \cup WrittenBy[st]
  PROVE  SettledSoFar'
<1> DEFINE S == Turned(Progress)
           T == Turned(Progress + 1)
           s == Writes[st]
<1>1. Mended = disk /\ Mended' = disk' BY DEF Mended
<1>2. Tree(disk) /\ Closed(S) /\ Settled(disk, S) BY <1>1, TurnedClosed DEF Typed, SettledSoFar
<1>3. Progress + 1 \in Nat /\ Progress <= Progress + 1 OBVIOUS
<1>4. Closed(T) BY <1>3, TurnedClosed
<1>5. S \subseteq T
  <2>1. \A f \in Files : Turn(f) \in Nat BY EveryTurn, TurnIs
  <2> QED BY <1>3, <2>1 DEF Turned
<1>6. s \in Seq(Files) /\ ToSet(s) = WrittenBy[st] BY WritesAre
<1>7. \A i, j \in 1 .. Len(s) : s[j] \in MadeOf(s[i]) => j < i BY WritesInOrder DEF InOrder
<1>8. T \subseteq S \cup ToSet(s) BY <1>6
<1> HIDE DEF S, T, s
<1>9. Settled(WriteAll(disk, s), T) BY <1>2, <1>4, <1>5, <1>6, <1>7, <1>8, WritesSettle
<1>10. Settled(Mended', T) BY <1>1, <1>9 DEF s
<1>11. Turned(Progress') \subseteq T BY DEF T
<1> QED BY <1>3, <1>10, <1>11, StillSettled

(* The files whose turn comes next.                                        *)
LEMMA NextTurn ==
  ASSUME NEW r \in 0 .. 2, NEW k \in 0 .. 17, NEW f \in Turned(18 * r + k + 1), f \notin Turned(18 * r + k)
  PROVE  f \in Files /\ Turn(f) = 18 * r + k + 1
<1>1. f \in Files /\ Turn(f) <= 18 * r + k + 1 /\ ~(Turn(f) <= 18 * r + k) BY DEF Turned
<1>2. Turn(f) \in Nat BY <1>1, EveryTurn, TurnIs
<1> DEFINE t == Turn(f)
<1> HIDE DEF t
<1>3. t \in Nat /\ t <= 18 * r + k + 1 /\ ~(t <= 18 * r + k) BY <1>1, <1>2 DEF t
<1>4. t = 18 * r + k + 1 BY <1>3
<1> QED BY <1>1, <1>4 DEF t

(* A step that ends: of a refresh the next one, of others any.             *)
LEMMA PerformSettles ==
  ASSUME Typed, Kept, TestsAt, SettledSoFar, Typed', Kept', TestsAt', Perform
  PROVE  SettledSoFar'
<1> DEFINE h == Head(todo)
<1>1. h \in Writers /\ todo # << >> /\ disk' = WriteAll(disk, Writes[h]) /\ Finish BY WritesAre DEF Perform
<1>2. UNCHANGED <<source, qsharp, refreshes, tests>> BY DEF Perform
<1>3. ~Rewriting /\ ~Rewriting'
  <2>1. h # "tests" BY <1>1 DEF Writers, StepNames
  <2>2. ~Rewriting BY <2>1 DEF TestsAt, Running
  <2> QED BY <1>2, <2>2 DEF Rewriting
<1>4. ProgressKnown /\ ProgressKnown' BY ProgressIs, ProgressThen
<1>5. Progress \in Nat /\ Progress' \in Nat /\ refreshes \in 0 .. 2 BY <1>4 DEF ProgressKnown
<1>6. command'.name = command.name BY <1>1 DEF Finish, Typed
<1>7. Planned' = Planned BY <1>6 DEF Planned
<1>8. Writes[h] \in Seq(Files) BY <1>1, WritesAre
<1>9. CASE ~Planned
  <2>1. Progress = 18 * refreshes /\ Progress' = 18 * refreshes'
    BY <1>4, <1>7, <1>9 DEF ProgressKnown, Refreshing
  <2>2. Turned(Progress') \subseteq Turned(Progress) BY <1>2, <2>1
  <2> HIDE DEF h
  <2> QED BY <1>1, <1>2, <1>3, <1>5, <1>8, <2>2, WritesOnly
<1>10. CASE Planned
  <2> DEFINE k == Performed
  <2>1. Follows BY <1>1, <1>10 DEF Kept, OnCourse, Courses
  <2>2. k \in 0 .. 19 BY <1>1, <2>1, HeadStep
  <2>3. /\ h = "projection" => k \in {0, 7}
        /\ h = "rebuild_summary" => k = 1
        /\ h = "research" => k = 2
        /\ h = "build" => k \in {3, 9}
        /\ h = "cain_transfer" => k \in {4, 10}
        /\ h = "zkp_inputs" => k \in {5, 11}
        /\ h = "verified" => k \in {6, 12}
        /\ h = "audits" => k = 8
        /\ h = "repo_summary" => k = 13
        /\ h = "cain_summary" => k = 14
        /\ h = "figures" => k = 15
        /\ h = "shown" => k = 18
    BY <1>1, <2>1, HeadIs
  <2>4. todo' = Tail(todo) BY <1>1 DEF Finish
  <2>5. Performed' = Performed + 1 BY <1>1, <1>6, <2>1, <2>4, NextStep
  <2>6. Len(todo) = 1 => k = 17 \/ k = 19 BY <1>1, <1>10, <2>1, LastStep
  <2>7. todo' = << >> <=> Len(todo) = 1 BY <1>1, <1>10, <2>1, <2>4, LastStep
  <2>8. CASE h = "shown"
    <3>1. ~Refreshing /\ ~Refreshing'
      <4>1. ~(Performed < 18) /\ ~(Performed + 1 < 18) BY <2>3, <2>8
      <4> QED BY <2>5, <4>1 DEF Refreshing
    <3>2. Progress = 18 * refreshes /\ Progress' = 18 * refreshes' BY <1>4, <3>1 DEF ProgressKnown
    <3>3. Turned(Progress') \subseteq Turned(Progress) BY <1>2, <3>2
    <3> HIDE DEF h
    <3> QED BY <1>1, <1>2, <1>3, <1>5, <1>8, <3>3, WritesOnly
  <2>9. CASE h # "shown"
    <3> HIDE DEF h, k
    <3>1. k \in 0 .. 15 BY <1>1, <2>3, <2>9 DEF Writers, StepNames
    <3>2. k < 18 /\ k + 1 < 18 /\ k # 17 /\ k # 19 /\ k \in 0 .. 17 BY <3>1
    <3>3. Refreshing BY <1>1, <1>10, <3>2 DEF Refreshing, k
    <3>4. Refreshing'
      <4>1. todo' # << >> BY <2>6, <2>7, <3>2
      <4>2. Performed' < 18 BY <2>5, <3>2 DEF k
      <4> QED BY <1>7, <1>10, <4>1, <4>2 DEF Refreshing
    <3>5. Progress = 18 * refreshes + k BY <1>4, <3>3 DEF ProgressKnown, k
    <3>6. Progress' = 18 * refreshes + (k + 1)
      <4>1. Progress' = 18 * refreshes' + Performed' BY <1>4, <3>4 DEF ProgressKnown
      <4> QED BY <1>2, <2>5, <4>1 DEF k
    <3>7. Progress' = Progress + 1 /\ Progress + 1 = 18 * refreshes + k + 1 BY <1>5, <3>1, <3>5, <3>6
    <3>8. ASSUME NEW f \in Turned(Progress + 1), f \notin Turned(Progress) PROVE f \in WrittenBy[h]
      <4>1. f \in Files /\ Turn(f) = 18 * refreshes + k + 1
        BY <1>5, <3>2, <3>5, <3>7, <3>8, NextTurn
      <4>2. \/ k = 1 /\ f = "verifier_rebuild_summary"
            \/ k = 2 /\ f \in ResearchFiles
            \/ k = 3 /\ f \in BuildFiles
            \/ k = 4 /\ f = "cain_exact_transfer"
            \/ k = 5 /\ f = "zkp_attestation_input"
            \/ k = 7 /\ f \in ProjectionFiles
            \/ k = 8 /\ f \in AuditFiles
            \/ k = 9 /\ f \in BuildFiles
            \/ k = 12 /\ f = "verification_summary"
            \/ k = 13 /\ f = "repo_verification_summary"
            \/ k = 14 /\ f = "cain_2026_integration_summary"
            \/ k = 15 /\ f = "figures"
        BY <1>5, <3>2, <4>1, TurnStep
      <4>3. /\ k = 1 => h = "rebuild_summary"
            /\ k = 2 => h = "research"
            /\ k = 3 => h = "build"
            /\ k = 4 => h = "cain_transfer"
            /\ k = 5 => h = "zkp_inputs"
            /\ k = 7 => h = "projection"
            /\ k = 8 => h = "audits"
            /\ k = 9 => h = "build"
            /\ k = 12 => h = "verified"
            /\ k = 13 => h = "repo_summary"
            /\ k = 14 => h = "cain_summary"
            /\ k = 15 => h = "figures"
        BY <1>1, <2>3, <2>9 DEF Writers, StepNames
      <4> QED BY <4>2, <4>3 DEF WrittenBy
    <3>9. Turned(Progress + 1) \subseteq Turned(Progress) \cup WrittenBy[h] BY <3>8
    <3> QED BY <1>1, <1>2, <1>3, <1>5, <3>7, <3>9, WritesInTurn DEF h
  <2> QED BY <2>8, <2>9
<1> QED BY <1>9, <1>10

(* A step that raises.                                                     *)
LEMMA RaiseSettles ==
  ASSUME Typed, Kept, TestsAt, SettledSoFar, Typed', Kept', TestsAt', Raise
  PROVE  SettledSoFar'
<1> DEFINE s == WrittenBefore(disk, Head(todo))
<1>1. Head(todo) \in Writers /\ todo # << >> /\ disk' = WriteAll(disk, s) BY WritesAre DEF Raise
<1>2. UNCHANGED <<source, qsharp, refreshes, tests>> BY DEF Raise
<1>3. ~Rewriting /\ ~Rewriting'
  <2>1. Head(todo) # "tests" BY <1>1 DEF Writers, StepNames
  <2>2. ~Rewriting BY <2>1 DEF TestsAt, Running
  <2> QED BY <1>2, <2>2 DEF Rewriting
<1>4. ProgressKnown /\ ProgressKnown' BY ProgressIs, ProgressThen
<1>5. ~Refreshing'
  <2>1. CASE command.name = "run_serial"
    <3>1. command' = command BY <2>1 DEF Raise
    <3> QED BY <2>1, <3>1 DEF Refreshing, Planned
  <2>2. CASE command.name # "run_serial" BY <2>2 DEF Raise, Refreshing
  <2> QED BY <2>1, <2>2
<1>6. Progress \in Nat /\ Progress' \in Nat /\ Progress' <= Progress
  <2>1. Progress' = 18 * refreshes BY <1>2, <1>4, <1>5 DEF ProgressKnown
  <2>2. Progress \in Nat /\ Progress' \in Nat /\ refreshes \in 0 .. 2
        /\ (Progress = 18 * refreshes \/ \E k \in 0 .. 17 : Progress = 18 * refreshes + k)
    BY <1>4 DEF ProgressKnown
  <2> QED BY <2>1, <2>2
<1>7. Turned(Progress') \subseteq Turned(Progress)
  <2>1. \A f \in Files : Turn(f) \in Nat BY EveryTurn, TurnIs
  <2> QED BY <1>6, <2>1 DEF Turned
<1>8. s \in Seq(Files) BY WrittenBeforeIs
<1> HIDE DEF s
<1> QED BY <1>1, <1>2, <1>3, <1>6, <1>7, <1>8, WritesOnly

(* The manifests come last, when no file is left to settle.                *)
LEMMA ManifestSettles ==
  ASSUME Typed, Kept, TestsAt, SettledSoFar, Typed', Kept', TestsAt',
         WriteProofManifest \/ WriteRepositoryManifest
  PROVE  SettledSoFar'
<1>1. Head(todo) \in {"proof_manifest", "repository_manifest"} /\ todo # << >> /\ Finish
  BY DEF WriteProofManifest, WriteRepositoryManifest, Running
<1>2. UNCHANGED <<source, qsharp, disk, tests>> BY DEF WriteProofManifest, WriteRepositoryManifest, tree
<1>3. ProgressKnown /\ ProgressKnown' BY ProgressIs, ProgressThen
<1>4. command'.name = command.name /\ todo' = Tail(todo) BY <1>1 DEF Finish, Typed
<1>5. Planned' = Planned BY <1>4 DEF Planned
<1>6. /\ Head(todo) = "repository_manifest" => WriteRepositoryManifest
      /\ Head(todo) = "proof_manifest" => WriteProofManifest
  BY DEF WriteProofManifest, WriteRepositoryManifest, Running
<1>7. Planned \/ (refreshes' = refreshes /\ ~Refreshing /\ ~Refreshing')
  <2> SUFFICES ASSUME ~Planned PROVE refreshes' = refreshes /\ ~Refreshing /\ ~Refreshing' OBVIOUS
  <2>1. Head(todo) # "repository_manifest"
    <3>1. Head(todo) \in ToSet(todo)
      <4>1. 1 \in DOMAIN todo /\ Head(todo) = todo[1] BY <1>1 DEF Typed
      <4> QED BY <4>1 DEF ToSet
    <3> QED BY <3>1 DEF TestsAt
  <2>2. WriteProofManifest BY <1>1, <1>6, <2>1
  <2> QED BY <1>5, <2>2 DEF WriteProofManifest, Refreshing
<1>8. /\ refreshes \in 0 .. 2 /\ Progress \in Nat /\ Progress' \in Nat
      /\ ~Refreshing => Progress = 18 * refreshes
      /\ ~Refreshing' => Progress' = 18 * refreshes'
      /\ Refreshing => Progress = 18 * refreshes + Performed
      /\ Refreshing' => Progress' = 18 * refreshes' + Performed'
  BY <1>3 DEF ProgressKnown
<1>9. Turned(Progress') \subseteq Turned(Progress)
  <2>1. CASE ~Planned
    <3>1. Progress' = Progress BY <1>7, <1>8, <2>1
    <3> QED BY <3>1
  <2>2. CASE Planned
    <3>1. Follows BY <1>1, <2>2 DEF Kept, OnCourse, Courses
    <3>2. Performed' = Performed + 1 BY <1>1, <1>4, <3>1, NextStep
    <3>3. CASE Head(todo) = "proof_manifest"
      <4>1. Performed = 16 BY <1>1, <3>1, <3>3, HeadIs
      <4>2. Performed' = 17 BY <3>2, <4>1
      <4>3. todo' # << >>
        <5>1. Len(todo) # 1
          <6>1. Performed # 17 /\ Performed # 19 BY <4>1
          <6> QED BY <1>1, <2>2, <3>1, <6>1, LastStep
        <5> QED BY <1>1, <1>4, <2>2, <3>1, <5>1, LastStep
      <4>4. Refreshing /\ Refreshing'
        <5>1. Performed < 18 /\ Performed' < 18 BY <4>1, <4>2
        <5> QED BY <1>1, <1>5, <2>2, <4>3, <5>1 DEF Refreshing
      <4>5. refreshes' = refreshes BY <1>6, <3>3 DEF WriteProofManifest
      <4>6. Progress = 18 * refreshes + 16 /\ Progress' = 18 * refreshes + 17 BY <1>8, <4>1, <4>2, <4>4, <4>5
      <4>7. ASSUME NEW f \in Turned(Progress'), f \notin Turned(Progress) PROVE FALSE
        <5>1. Progress' = 18 * refreshes + 16 + 1 BY <1>8, <4>6
        <5>2. f \in Files /\ Turn(f) = 18 * refreshes + 16 + 1 BY <1>8, <4>6, <4>7, <5>1, NextTurn
        <5> QED BY <1>8, <5>2, TurnStep
      <4> QED BY <4>7
    <3>4. CASE Head(todo) = "repository_manifest"
      <4>1. Performed = 17 BY <1>1, <3>1, <3>4, HeadIs
      <4>2. Performed' = 18 BY <3>2, <4>1
      <4>3. Refreshing
        <5>1. Performed < 18 BY <4>1
        <5> QED BY <1>1, <2>2, <5>1 DEF Refreshing
      <4>4. ~Refreshing'
        <5>1. ~(Performed' < 18) BY <4>2
        <5> QED BY <5>1 DEF Refreshing
      <4>5. refreshes' = IF refreshes = 2 THEN 2 ELSE refreshes + 1
        BY <1>6, <3>4 DEF WriteRepositoryManifest
      <4>6. Progress = 18 * refreshes + 17 /\ Progress' = 18 * refreshes' BY <1>8, <4>1, <4>3, <4>4
      <4>7. CASE refreshes = 2
        <5>1. Progress' <= Progress BY <4>5, <4>6, <4>7
        <5>2. \A f \in Files : Turn(f) \in Nat BY EveryTurn, TurnIs
        <5> QED BY <1>8, <5>1, <5>2 DEF Turned
      <4>8. CASE refreshes # 2
        <5>1. Progress' = 18 * refreshes + 17 + 1 BY <1>8, <4>5, <4>6, <4>8
        <5>2. ASSUME NEW f \in Turned(Progress'), f \notin Turned(Progress) PROVE FALSE
          <6>1. f \in Files /\ Turn(f) = 18 * refreshes + 17 + 1 BY <1>8, <4>6, <5>1, <5>2, NextTurn
          <6> QED BY <1>8, <6>1, TurnStep
        <5> QED BY <5>2
      <4> QED BY <4>7, <4>8
    <3> QED BY <1>1, <3>3, <3>4
  <2> QED BY <2>1, <2>2
<1> QED BY <1>2, <1>8, <1>9, StaySettled

(* While the research test rewrites the files of a settled tree, the file  *)
(* that it has truncated is not one of those it is made from.              *)
LEMMA ResearchTestSettles ==
  ASSUME Typed, Kept, TestsAt, SettledSoFar, Typed', Kept', TestsAt', ParallelResearchTest
  PROVE  SettledSoFar'
<1> DEFINE r == tests.research
           f == ResearchOrder[r \div 2 + 1]
           S == Turned(Progress)
<1>1. /\ disk' = IF r % 2 = 0 THEN [disk EXCEPT ![f] = Torn] ELSE Rewrite(disk, f)
      /\ UNCHANGED <<source, qsharp, todo, command, refreshes>>
      /\ Running("tests") /\ command.name = "run_tests" /\ r < ResearchDone
  BY DEF ParallelResearchTest
<1>2. tests'.research = r + 1 BY DEF ParallelResearchTest, Typed
<1>3. f \in Files /\ f # Results /\ r \in 0 .. 15 BY <1>1, InResearch
<1>4. ProgressKnown /\ ProgressKnown' BY ProgressIs, ProgressThen
<1>5. Progress \in Nat /\ Progress' = Progress
  <2>1. Planned /\ Planned' /\ Performed' = Performed BY <1>1 DEF Planned, Performed
  <2>2. Refreshing' = Refreshing BY <1>1, <2>1 DEF Refreshing
  <2> QED BY <1>1, <1>4, <2>1, <2>2 DEF ProgressKnown
<1>6. Tree(disk) /\ Closed(S) /\ Settled(Mended, S) BY <1>5, TurnedClosed DEF Typed, SettledSoFar
<1>7. Turned(Progress') \subseteq S BY <1>5
<1>8. Settled(Mended', S)
  <2>1. CASE r % 2 = 1
    <3>1. Rewriting /\ Mended = Rewrite(disk, f) BY <2>1 DEF Rewriting, Mended
    <3>2. ~Rewriting'
      <4>1. (r + 1) % 2 = 0 BY <1>3, <2>1
      <4> QED BY <1>2, <4>1 DEF Rewriting
    <3>3. Mended' = disk' BY <3>2 DEF Mended
    <3>4. disk' = Rewrite(disk, f) BY <1>1, <2>1
    <3> QED BY <1>6, <3>1, <3>3, <3>4
  <2>2. CASE r % 2 = 0
    <3>1. (r + 1) % 2 = 1 /\ (r + 1) \div 2 = r \div 2 BY <1>3, <2>2
    <3>2. ~Rewriting /\ Rewriting' BY <1>2, <2>2, <3>1 DEF Rewriting
    <3>3. Mended = disk BY <3>2 DEF Mended
    <3>4. disk' = [disk EXCEPT ![f] = Torn] BY <1>1, <2>2
    <3>5. f' = f BY <1>2, <3>1
    <3>6. Mended' = Rewrite(disk, f)' BY <3>2 DEF Mended
    <3> HIDE DEF f, r, S
    <3>7. Mended' = Rewrite(disk', f) BY <1>1, <1>3, <3>5, <3>6, SameRewrite
    <3>8. Tree(disk') /\ (\A g \in Files : g # f => disk'[g] = disk[g])
      <4>1. Tree(disk) BY <1>6
      <4>2. /\ Tree([disk EXCEPT ![f] = Torn])
            /\ \A g \in Files : g # f => [disk EXCEPT ![f] = Torn][g] = disk[g]
        BY <4>1, Truncated
      <4> QED BY <3>4, <4>2
    <3>9. Content(disk', f) = Content(disk, f)
      <4>1. \A g \in MadeOf(f) : g \in Files /\ g # f BY <1>3, TurnsGrow, NotOfItself
      <4> QED BY <1>3, <3>8, <4>1, SameContent
    <3>10. /\ \A g \in Files : g # f => Rewrite(disk', f)[g] = disk'[g]
           /\ Rewrite(disk', f)[f] = Whole(Content(disk', f))
      BY <1>3, <3>8, RewriteIs
    <3>11. /\ \A g \in Files : g # f => Rewrite(disk, f)[g] = disk[g]
           /\ Rewrite(disk, f)[f] = Whole(Content(disk, f))
      BY <1>3, <1>6, RewriteIs
    <3>12. \A g \in Files : Rewrite(disk', f)[g] = Rewrite(disk, f)[g] BY <3>8, <3>9, <3>10, <3>11
    <3>13. Settled(Rewrite(disk, f), S) BY <1>6, <3>3, WriteSettles
    <3>14. \A g \in S : Rewrite(disk', f)[g] = Rewrite(disk, f)[g] BY <1>6, <3>12 DEF Closed
    <3>15. Settled(Rewrite(disk', f), S) BY <1>6, <3>13, <3>14, SettledAlike
    <3> QED BY <3>7, <3>15
  <2> QED BY <1>3, <2>1, <2>2
<1> HIDE DEF f, r, S
<1> QED BY <1>1, <1>5, <1>7, <1>8, StillSettled

(* Initially.                                                              *)
LEMMA SettledInit == Init => SettledSoFar
<1> SUFFICES ASSUME Init PROVE SettledSoFar OBVIOUS
<1>1. Mended = disk BY DEF Init, NoTests, Mended, Rewriting
<1>2. disk = Released BY DEF Init
<1>3. Turned(Progress) \subseteq Files BY DEF Turned
<1> QED BY <1>1, <1>2, <1>3, ReleasedSettled DEF SettledSoFar, Settled

(* Every step.                                                             *)
LEMMA SettledStep ==
  ASSUME Typed, Kept, TestsAt, SettledSoFar, Typed', Kept', TestsAt', [Next]_vars
  PROVE  SettledSoFar'
<1>1. ProgressKnown /\ ProgressKnown' BY ProgressIs, ProgressThen
<1>2. /\ Progress' \in Nat
      /\ ~Refreshing => Progress = 18 * refreshes
      /\ ~Refreshing' => Progress' = 18 * refreshes'
      /\ Refreshing => Progress = 18 * refreshes + Performed
      /\ Refreshing' => Progress' = 18 * refreshes' + Performed'
      /\ refreshes \in 0 .. 2
  BY <1>1 DEF ProgressKnown
<1>3. ASSUME source' = source, qsharp' = qsharp, disk' = disk, Progress' = Progress,
             tests'.research = tests.research \/ (~Rewriting /\ ~Rewriting')
      PROVE  SettledSoFar'
  BY <1>2, <1>3, StaySettled
<1>4. ASSUME refreshes' = refreshes, todo' = todo, command'.name = command.name
      PROVE  Progress' = Progress
  <2>1. Performed' = Performed /\ Planned' = Planned BY <1>4 DEF Performed, Planned
  <2>2. Refreshing' = Refreshing BY <1>4, <2>1 DEF Refreshing
  <2> QED BY <1>2, <1>4, <2>1, <2>2
<1>5. ASSUME refreshes' = refreshes, ~Planned, ~Planned' PROVE Progress' = Progress
  <2>1. ~Refreshing /\ ~Refreshing' BY <1>5 DEF Refreshing
  <2> QED BY <1>2, <1>5, <2>1
<1>6. CASE UNCHANGED vars BY <1>3, <1>4, <1>6 DEF vars
<1>7. ASSUME NEW c \in Commands, Start(c) PROVE SettledSoFar'
  <2>1. todo = << >> /\ UNCHANGED <<source, qsharp, disk, refreshes, tests>> BY <1>7 DEF Start, tree
  <2>2. Progress = 18 * refreshes BY <1>2, <2>1 DEF Refreshing
  <2>3. Planned' => Performed' = 0 BY <1>7, Starts
  <2>4. Progress' = Progress
    <3>1. CASE Refreshing'
      <4>1. Performed' = 0 BY <2>3, <3>1 DEF Refreshing
      <4>2. Progress' = 18 * refreshes + 0 BY <1>2, <2>1, <3>1, <4>1
      <4> QED BY <1>2, <2>2, <4>2
    <3>2. CASE ~Refreshing' BY <1>2, <2>1, <2>2, <3>2
    <3> QED BY <3>1, <3>2
  <2> QED BY <1>3, <2>1, <2>4
<1>8. CASE Perform BY <1>8, PerformSettles
<1>9. CASE Raise BY <1>9, RaiseSettles
<1>10. CASE Load \/ CompareCain
  <2>1. /\ UNCHANGED <<source, qsharp, disk, refreshes, tests, command>> /\ todo # << >>
    BY <1>10 DEF Load, CompareCain, tree, Running
  <2>2. Planned' = Planned BY <2>1 DEF Planned
  <2>3. CASE Planned
    <3>1. Performed' = Performed /\ todo' # << >> BY <1>10, <2>3, PlannedLoad, PlannedCompare
    <3>2. Refreshing' = Refreshing BY <2>1, <2>2, <3>1 DEF Refreshing
    <3>3. Progress' = Progress BY <1>2, <2>1, <3>1, <3>2
    <3> QED BY <1>3, <2>1, <3>3
  <2>4. CASE ~Planned BY <1>3, <1>5, <2>1, <2>2, <2>4
  <2> QED BY <2>3, <2>4
<1>11. CASE WriteProofManifest \/ WriteRepositoryManifest BY <1>11, ManifestSettles
<1>12. ASSUME NEW t \in TestTargets, EnsureTarget(t) PROVE SettledSoFar'
  <2>1. /\ UNCHANGED <<source, qsharp, disk, refreshes, command>> /\ tests'.research = tests.research
    BY <1>12 DEF EnsureTarget, tree, Typed
  <2>2. Planned' = Planned BY <2>1 DEF Planned
  <2>3. CASE Planned
    <3>1. todo' = todo BY <1>12, <2>3, PlannedEnsure
    <3> QED BY <1>3, <1>4, <2>1, <3>1
  <2>4. CASE ~Planned BY <1>3, <1>5, <2>1, <2>2, <2>4
  <2> QED BY <2>3, <2>4
<1>13. CASE SerialResearchTest
  <2>1. UNCHANGED <<source, qsharp, disk, refreshes, command>> BY <1>13 DEF SerialResearchTest, tree
  <2>2. ~Planned /\ ~Planned' BY <1>13, <2>1 DEF SerialResearchTest, Planned
  <2>3. ~Rewriting /\ ~Rewriting'
    <3>1. ~Rewriting BY <1>13 DEF SerialResearchTest, TestsAt
    <3>2. ~Rewriting' BY <2>1, <2>2 DEF TestsAt, Planned
    <3> QED BY <3>1, <3>2
  <2> QED BY <1>3, <1>5, <2>1, <2>2, <2>3
<1>14. CASE ParallelResearchTest BY <1>14, ResearchTestSettles
<1>15. CASE ManifestTest
  <2>1. /\ UNCHANGED <<source, qsharp, disk, refreshes, command, todo>> /\ tests'.research = tests.research
    BY <1>15 DEF ManifestTest, tree, Typed
  <2> QED BY <1>3, <1>4, <2>1
<1>16. CASE EndTests
  <2>1. /\ UNCHANGED <<source, qsharp, disk, refreshes>> /\ todo # << >> /\ Finish
        /\ tests.research \in {0, ResearchDone} /\ tests' = NoTests
    BY <1>16 DEF EndTests, tree, Running
  <2>2. ~Rewriting /\ ~Rewriting'
    <3>1. tests.research \in {0, 16} /\ tests'.research = 0 BY <2>1, OrdersAre DEF ResearchDone, NoTests
    <3> QED BY <3>1 DEF Rewriting
  <2>3. command'.name = command.name BY <2>1 DEF Finish, Typed
  <2>4. Planned' = Planned BY <2>3 DEF Planned
  <2>5. CASE Planned
    <3>1. Performed = 19 BY <1>16, <2>5, PlannedTests DEF EndTests
    <3>2. todo' = << >> BY <1>16, <2>5, PlannedEndTests
    <3>3. ~(Performed < 18) BY <3>1
    <3>4. ~Refreshing /\ ~Refreshing' BY <3>2, <3>3 DEF Refreshing
    <3>5. Progress' = Progress BY <1>2, <2>1, <3>4
    <3> QED BY <1>3, <2>1, <2>2, <3>5
  <2>6. CASE ~Planned BY <1>3, <1>5, <2>1, <2>2, <2>4, <2>6
  <2> QED BY <2>5, <2>6
<1>17. ASSUME NEW n \in Cuts, NEW torn \in BOOLEAN, Crash(n, torn) PROVE SettledSoFar'
  BY <1>17, NothingSettled DEF Crash
<1>18. ASSUME NEW p \in Editable, Edit(p) PROVE SettledSoFar' BY <1>18, NothingSettled DEF Edit
<1>19. ASSUME NEW f \in Removable, Delete(f) PROVE SettledSoFar' BY <1>19, NothingSettled DEF Delete
<1> QED BY <1>6, <1>7, <1>8, <1>9, <1>10, <1>11, <1>12, <1>13, <1>14, <1>15, <1>16, <1>17, <1>18, <1>19
        DEF Next

(* The inductive invariant holds.                                          *)
LEMMA SettlingHolds == Spec => [](Typed /\ Kept /\ TestsAt /\ SettledSoFar)
<1>1. Init => Typed /\ Kept /\ TestsAt /\ SettledSoFar BY TypedInit, KeptInit, TestsAtInit, SettledInit
<1>2. Typed /\ Kept /\ TestsAt /\ SettledSoFar /\ [Next]_vars
        => Typed' /\ Kept' /\ TestsAt' /\ SettledSoFar'
  <2> SUFFICES ASSUME Typed, Kept, TestsAt, SettledSoFar, [Next]_vars
               PROVE  Typed' /\ Kept' /\ TestsAt' /\ SettledSoFar'
    OBVIOUS
  <2>1. Typed' /\ Kept' /\ TestsAt' BY TypedStep, KeptStep, TestsAtStep
  <2> QED BY <2>1, SettledStep
<1> QED BY <1>1, <1>2, PTL DEF Spec

(* After one uninterrupted refresh since the last edit or fault every file *)
(* but what the research pass derived from the old projection, and the     *)
(* figures, is what its writer would make now; after two, every file is.   *)
THEOREM RefreshesSettle == Spec => []RefreshSettles
<1>1. Typed /\ Kept /\ TestsAt /\ SettledSoFar => RefreshSettles
  <2> SUFFICES ASSUME Typed, Kept, TestsAt, SettledSoFar, todo = << >>
               PROVE  /\ refreshes >= 1 => \A f \in Files \ (FromProjection \cup {"figures"}) : Current(f)
                      /\ refreshes = 2  => \A f \in Files : Current(f)
    BY DEF RefreshSettles
  <2>1. ProgressKnown BY ProgressIs
  <2>2. Progress = 18 * refreshes /\ refreshes \in 0 .. 2 BY <2>1 DEF ProgressKnown, Refreshing
  <2>3. Mended = disk BY DEF TestsAt, Running, Mended
  <2>4. \A f \in Turned(Progress) : Current(f) BY <2>3 DEF SettledSoFar, Settled, Current
  <2>5. \A f \in Files : /\ Turn(f) \in Nat /\ Turn(f) <= 36
                         /\ f \notin FromProjection \cup {"figures"} => Turn(f) <= 18
    BY EveryTurn, TurnIs
  <2>6. refreshes >= 1 => Progress >= 18 BY <2>2
  <2>7. refreshes = 2 => Progress = 36 BY <2>2
  <2>8. Progress \in Nat BY <2>1 DEF ProgressKnown
  <2>9. ASSUME refreshes >= 1, NEW f \in Files \ (FromProjection \cup {"figures"}) PROVE Current(f)
    <3>1. Turn(f) <= Progress BY <2>5, <2>6, <2>8, <2>9
    <3> QED BY <2>4, <2>9, <3>1 DEF Turned
  <2>10. ASSUME refreshes = 2, NEW f \in Files PROVE Current(f)
    <3>1. Turn(f) <= Progress BY <2>5, <2>7, <2>8, <2>10
    <3> QED BY <2>4, <3>1 DEF Turned
  <2> QED BY <2>9, <2>10
<1> QED BY <1>1, SettlingHolds, PTL
=============================================================================
