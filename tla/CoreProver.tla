----------------------------- MODULE CoreProver -----------------------------
(***************************************************************************)
(* The core-only prover (zkp_attestation/script/src/core_only.rs): one     *)
(* call of prove_core, the services it talks to, and the SP1 controller    *)
(* and worker client they use, which are no part of the repository.        *)
(*                                                                         *)
(* The controller cuts the execution into shards.  A ProveShard service    *)
(* proves one after another, a task of its own uploads the events a core   *)
(* shard deferred, and the shards made of such events come once every      *)
(* upload has completed its marker.  A shard is its range.                 *)
(***************************************************************************)
EXTENDS Integers, Sequences, FiniteSets, Functions

CONSTANTS Core,        \* shards with a chunk of the trace; they defer events
          Memory,      \* shards of global memory
          Precompile,  \* shards of deferred events
          None

Shards == Core \cup Memory \cup Precompile

ASSUME ShardAssumption ==
  /\ Shards \subseteq Nat /\ None \notin Shards
  /\ Core \cap Memory = {} /\ Precompile \cap (Core \cup Memory) = {}

VARIABLES
  main,        \* prove_core: "start", "joined", "ok", "error"
  waited,      \* wait_executor has its ExecutionOutput
  collector,   \* the shard whose task the collector waits for
  collected,   \* the collector has returned
  proofs,      \* shard_proofs
  executor,    \* status of the CoreExecute task
  requested,   \* shards whose ProveShard task was submitted
  announced,   \* shards whose ProofData was sent
  messages,    \* ProofData sent and not received
  closed,      \* no more ProofData will be sent
  task,        \* status of the ProveShard tasks
  queue,       \* ProveShard tasks submitted and not received
  serving,     \* what the ProveShard service works on
  at,          \* where in prove_core_shard_only it is
  outcome,     \* what prove_core_shard_only returns
  deferring,   \* state of the upload task of a core shard
  artifacts,   \* the artifacts there are
  refs         \* <<core shard, shard that still reads a slice of its events>>

clientVars == <<main, waited, collector, collected, proofs>>
controllerVars == <<executor, requested, announced, messages, closed>>
serviceVars == <<task, queue, serving, at, outcome>>
vars == <<clientVars, controllerVars, serviceVars, deferring, artifacts, refs>>

Record(s) == <<"record", s>>
Output(s) == <<"output", s>>
Events(c) == <<"events", c>>
Elf == <<"elf", 0>>
CommonInput == <<"common_input", 0>>
ExecutionOutput == <<"execution_output", 0>>
INPUTS == <<Elf, <<"stdin", 0>>, CommonInput>>
ENDED == {"Succeeded", "FailedRetryable", "FailedFatal"}

Elements(seq) == {seq[i] : i \in DOMAIN seq}

Init ==
  /\ main = "start" /\ waited = FALSE /\ collector = None
  /\ collected = FALSE /\ proofs = << >>
  /\ executor = "none" /\ requested = {} /\ announced = {}
  /\ messages = << >> /\ closed = FALSE
  /\ task = [s \in Shards |-> "none"] /\ queue = << >>
  /\ serving = None /\ at = "idle" /\ outcome = "none"
  /\ deferring = [c \in Core |-> "none"]
  /\ artifacts = {} /\ refs = {}
-----------------------------------------------------------------------------
(***************************************************************************)
(* prove_core.                                                             *)
(***************************************************************************)
(* Uploads the inputs and submits CoreExecute; any upload may fail.        *)
Prepare ==
  /\ main = "start"
  /\ \E n \in 0 .. Len(INPUTS) :
       /\ artifacts' = artifacts \cup Elements(SubSeq(INPUTS, 1, n))
       /\ main' = "error"
  /\ UNCHANGED <<waited, collector, collected, proofs, controllerVars, serviceVars, deferring, refs>>
Submit ==
  /\ main = "start"
  /\ artifacts' = artifacts \cup Elements(INPUTS)
  /\ main' = "joined" /\ executor' = "queued"
  /\ UNCHANGED <<waited, collector, collected, proofs, requested, announced, messages, closed,
                 serviceVars, deferring, refs>>

(* wait_executor. *)
WaitExecutor ==
  /\ main = "joined" /\ ~waited /\ executor \in ENDED
  /\ IF executor = "Succeeded" /\ ExecutionOutput \in artifacts
     THEN waited' = TRUE /\ UNCHANGED main
     ELSE main' = "error" /\ UNCHANGED waited
  /\ UNCHANGED <<collector, collected, proofs, controllerVars, serviceVars, deferring, artifacts, refs>>

(* collect_core_proofs_direct: messages are received until there will be   *)
(* no more; the task of each is waited for and its proof fetched.          *)
Receive ==
  /\ main = "joined" /\ ~collected /\ collector = None /\ messages # << >>
  /\ collector' = Head(messages) /\ messages' = Tail(messages)
  /\ UNCHANGED <<main, waited, collected, proofs, executor, requested, announced, closed,
                 serviceVars, deferring, artifacts, refs>>
Collect ==
  /\ main = "joined" /\ collector # None /\ task[collector] \in ENDED
  /\ IF task[collector] = "Succeeded" /\ Output(collector) \in artifacts
     THEN proofs' = Append(proofs, collector) /\ collector' = None /\ UNCHANGED main
     ELSE main' = "error" /\ UNCHANGED <<proofs, collector>>
  /\ UNCHANGED <<waited, collected, controllerVars, serviceVars, deferring, artifacts, refs>>

(* sort_by_key: the same proofs, by their ranges.                          *)
SortByRange(seq) ==
  CHOOSE sorted \in {[i \in DOMAIN seq |-> seq[p[i]]] : p \in Bijection(DOMAIN seq, DOMAIN seq)} :
    \A i, j \in DOMAIN seq : i < j => sorted[i] <= sorted[j]
Sort ==
  /\ main = "joined" /\ ~collected /\ collector = None /\ messages = << >> /\ closed
  /\ collected' = TRUE
  /\ proofs' = SortByRange(proofs)
  /\ UNCHANGED <<main, waited, collector, controllerVars, serviceVars, deferring, artifacts, refs>>

(* Fault: the first of the two to end decides. *)
ReturnFirst ==
  /\ main = "joined" /\ (waited \/ collected)
  /\ main' = "ok" /\ artifacts' = artifacts \ (Elements(INPUTS) \cup {ExecutionOutput})
  /\ UNCHANGED <<waited, collector, collected, proofs, controllerVars, serviceVars, deferring, refs>>
(* try_join! has both; the inputs are deleted, and a deletion may fail.    *)
Return ==
  /\ main = "joined" /\ waited /\ collected
  /\ \/ main' = "ok" /\ artifacts' = artifacts \ (Elements(INPUTS) \cup {ExecutionOutput})
     \/ \E n \in 0 .. Len(INPUTS) :
          main' = "error" /\ artifacts' = artifacts \ Elements(SubSeq(INPUTS, 1, n))
  /\ UNCHANGED <<waited, collector, collected, proofs, controllerVars, serviceVars, deferring, refs>>
-----------------------------------------------------------------------------
(***************************************************************************)
(* The CoreExecute service and the controller it runs (external).          *)
(***************************************************************************)
Marked == \A c \in Core : deferring[c] = "marked"
Cut == IF Marked /\ Core \cup Memory \subseteq requested THEN Shards ELSE Core \cup Memory

Execute ==
  /\ executor = "queued" /\ executor' = "running"
  /\ UNCHANGED <<clientVars, requested, announced, messages, closed, serviceVars, deferring, artifacts, refs>>

(* The record of a shard is stored and its task submitted; the slices of   *)
(* all deferred events get their references before the first shard of them.*)
RequestShard(s) ==
  /\ executor = "running" /\ s \in Cut \ requested
  /\ requested' = requested \cup {s}
  /\ artifacts' = artifacts \cup {Record(s)}
  /\ task' = [task EXCEPT ![s] = "submitted"] /\ queue' = Append(queue, s)
  /\ refs' = IF Precompile \cap requested = {} /\ s \in Precompile THEN Core \X Precompile ELSE refs
  /\ UNCHANGED <<clientVars, executor, announced, messages, closed, serving, at, outcome, deferring>>
Announce(s) ==
  /\ executor = "running" /\ s \in requested \ announced
  /\ announced' = announced \cup {s} /\ messages' = Append(messages, s)
  /\ UNCHANGED <<clientVars, executor, requested, closed, serviceVars, deferring, artifacts, refs>>
FinishExecution ==
  /\ executor = "running" /\ announced = Shards
  /\ closed' = TRUE /\ artifacts' = artifacts \cup {ExecutionOutput}
  /\ executor' = "Succeeded"
  /\ UNCHANGED <<clientVars, requested, announced, messages, serviceVars, deferring, refs>>
(* execute returns an error; it may or may not have closed its messages.   *)
FailExecution ==
  /\ executor = "running"
  /\ executor' = "FailedFatal" /\ closed' \in BOOLEAN
  /\ UNCHANGED <<clientVars, requested, announced, messages, serviceVars, deferring, artifacts, refs>>
-----------------------------------------------------------------------------
(***************************************************************************)
(* The ProveShard service.                                                 *)
(***************************************************************************)
(* Fault: the next task is taken while one is being proved. *)
ServeBusy ==
  /\ queue # << >>
  /\ serving' = Head(queue) /\ queue' = Tail(queue) /\ at' = "download"
  /\ UNCHANGED <<clientVars, controllerVars, task, outcome, deferring, artifacts, refs>>
Serve ==
  /\ at = "idle" /\ queue # << >>
  /\ serving' = Head(queue) /\ queue' = Tail(queue) /\ at' = "download"
  /\ UNCHANGED <<clientVars, controllerVars, task, outcome, deferring, artifacts, refs>>

Needed(s) == {Elf, CommonInput, Record(s)}
               \cup (IF s \in Precompile THEN {Events(c) : c \in Core} ELSE {})

(* Whatever step it is at, an error of its own ends prove_core_shard_only. *)
Failing(where, kind) == at = where /\ at' = "report" /\ outcome' = kind

Download ==
  /\ \/ at = "download" /\ Needed(serving) \subseteq artifacts
        /\ at' = "trace" /\ UNCHANGED outcome
     \/ \E kind \in {"FailedRetryable", "FailedFatal"} : Failing("download", kind)
  /\ UNCHANGED <<clientVars, controllerVars, task, queue, serving, deferring, artifacts, refs>>

(* A core shard's record is traced, its deferred events go to a task.      *)
Trace ==
  /\ \/ /\ at = "trace" /\ at' = "prove" /\ UNCHANGED outcome
        /\ deferring' = IF serving \in Core THEN [deferring EXCEPT ![serving] = "uploading"]
                        ELSE deferring
     \/ Failing("trace", "FailedFatal") /\ UNCHANGED deferring
  /\ UNCHANGED <<clientVars, controllerVars, task, queue, serving, artifacts, refs>>

Prove ==
  /\ \/ at = "prove" /\ at' = "upload" /\ UNCHANGED outcome
     \/ Failing("prove", "FailedFatal")
  /\ UNCHANGED <<clientVars, controllerVars, task, queue, serving, deferring, artifacts, refs>>

Upload ==
  /\ \/ /\ at = "upload" /\ at' = "cleanup" /\ UNCHANGED outcome
        /\ artifacts' = artifacts \cup {Output(serving)}
     \/ \E kind \in {"FailedRetryable", "FailedFatal"} :
          Failing("upload", kind) /\ UNCHANGED artifacts
  /\ UNCHANGED <<clientVars, controllerVars, task, queue, serving, deferring, refs>>

(* Fault: the events are deleted with the first shard that has read them.  *)
CleanUpAll ==
  /\ at = "cleanup" /\ at' = "join"
  /\ artifacts' = (artifacts \ {Record(serving)})
                    \ (IF serving \in Precompile THEN {Events(c) : c \in Core} ELSE {})
  /\ UNCHANGED <<clientVars, controllerVars, task, queue, serving, outcome, deferring, refs>>
(* try_delete of the record and remove_ref of the slices: an artifact goes *)
(* with its last reference.  Their errors are ignored.                     *)
CleanUp ==
  /\ at = "cleanup" /\ at' = "join"
  /\ refs' = refs \ (Core \X {serving})
  /\ LET unread == {c \in Core : <<c, serving>> \in refs /\ ~\E s \in Shards : <<c, s>> \in refs'}
     IN  artifacts' = artifacts \ ({Record(serving)} \cup {Events(c) : c \in unread})
  /\ UNCHANGED <<clientVars, controllerVars, task, queue, serving, outcome, deferring>>

(* Fault: the upload of the deferred events is left to itself. *)
JoinUploadDetached ==
  /\ at = "join" /\ at' = "report" /\ outcome' = "Succeeded"
  /\ UNCHANGED <<clientVars, controllerVars, task, queue, serving, deferring, artifacts, refs>>
JoinUpload ==
  /\ at = "join" /\ at' = "report"
  /\ \/ serving \notin Core /\ outcome' = "Succeeded"
     \/ /\ serving \in Core
        /\ \/ deferring[serving] = "marked" /\ outcome' = "Succeeded"
           \/ deferring[serving] = "failed" /\ outcome' \in {"FailedRetryable", "FailedFatal"}
  /\ UNCHANGED <<clientVars, controllerVars, task, queue, serving, deferring, artifacts, refs>>

(* complete_task or update_task_status.                                    *)
Report ==
  /\ at = "report" /\ at' = "idle" /\ serving' = None /\ outcome' = "none"
  /\ task' = [task EXCEPT ![serving] = outcome]
  /\ UNCHANGED <<clientVars, controllerVars, queue, deferring, artifacts, refs>>
-----------------------------------------------------------------------------
(* The task that uploads the events core shard c deferred.  It outlives a  *)
(* failure of the shard.                                                   *)
UploadEvents(c) ==
  /\ deferring[c] = "uploading"
  /\ \/ deferring' = [deferring EXCEPT ![c] = "uploaded"] /\ artifacts' = artifacts \cup {Events(c)}
     \/ deferring' = [deferring EXCEPT ![c] = "failed"] /\ UNCHANGED artifacts
  /\ UNCHANGED <<clientVars, controllerVars, serviceVars, refs>>
CompleteMarker(c) ==
  /\ deferring[c] = "uploaded"
  /\ \E state \in {"marked", "failed"} : deferring' = [deferring EXCEPT ![c] = state]
  /\ UNCHANGED <<clientVars, controllerVars, serviceVars, artifacts, refs>>

Returned == main \in {"ok", "error"} /\ UNCHANGED vars
-----------------------------------------------------------------------------
Client == Prepare \/ Submit \/ WaitExecutor \/ Receive \/ Collect \/ Sort \/ Return

(* The runtime has one thread: the tasks advance while prove_core waits.   *)
Waiting == main = "joined"
Controller ==
  Waiting /\ (Execute \/ (\E s \in Shards : RequestShard(s) \/ Announce(s)) \/ FinishExecution)
Service ==
  Waiting /\ (Serve \/ Download \/ Trace \/ Prove \/ Upload \/ CleanUp \/ JoinUpload \/ Report)
Deferred(c) == Waiting /\ (UploadEvents(c) \/ CompleteMarker(c))

Next == \/ Client \/ Controller \/ Service
        \/ Waiting /\ FailExecution
        \/ \E c \in Core : Deferred(c)
        \/ Returned

Spec == Init /\ [][Next]_vars

(* The runtime polls every task that is ready, and blocking work ends.     *)
Fairness ==
  /\ WF_vars(Prepare \/ Submit) /\ WF_vars(WaitExecutor)
  /\ WF_vars(Receive \/ Collect \/ Sort) /\ WF_vars(Return)
  /\ WF_vars(Controller) /\ WF_vars(Service)
  /\ \A c \in Core : WF_vars(Deferred(c))

FairSpec == Spec /\ Fairness
-----------------------------------------------------------------------------
(* The values the parts of a call take.                                    *)
TypeOK ==
  /\ main \in {"start", "joined", "ok", "error"} /\ waited \in BOOLEAN /\ collected \in BOOLEAN
  /\ collector \in Shards \cup {None} /\ Elements(proofs) \subseteq Shards
  /\ executor \in {"none", "queued", "running", "Succeeded", "FailedFatal"}
  /\ announced \subseteq requested /\ requested \subseteq Shards
  /\ Elements(messages) \subseteq Shards /\ closed \in BOOLEAN
  /\ task \in [Shards -> {"none", "submitted"} \cup ENDED] /\ Elements(queue) \subseteq Shards
  /\ serving \in Shards \cup {None} /\ (serving = None <=> at = "idle")
  /\ outcome \in {"none"} \cup ENDED /\ (outcome = "none" <=> at # "report")
  /\ deferring \in [Core -> {"none", "uploading", "uploaded", "marked", "failed"}]
  /\ refs \subseteq Core \X Precompile

(* Until a download of the call fails for a reason of its own, a ProveShard *)
(* task finds what it downloads: nothing a task still has to read is gone. *)
TasksFindTheirInputs ==
  /\ main = "joined" /\ at = "download" => Needed(serving) \subseteq artifacts
  /\ main = "ok" => at = "idle" /\ queue = << >>

Promise == INSTANCE CoreProof WITH
  state <- IF main \in {"ok", "error"} THEN main ELSE "pending",
  proofs <- IF main = "ok" THEN proofs ELSE << >>

(* prove_core answers at most once: all the proofs in order, or an error.  *)
OneWholeAnswer == Promise!OneAnswer
(* ... and answers, whichever of its parts fails and whenever.             *)
EveryCallAnswers == Promise!Answered
=============================================================================
