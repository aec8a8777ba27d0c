------------------------------ MODULE LinearRun ------------------------------
(***************************************************************************)
(* One linear flow run of FlowExecutor, followed through failure, crash,   *)
(* cancellation and resume, in the sync and the async lane                 *)
(* (chainweaver/executor.py, _execution/context.py, checkpoint.py).        *)
(*                                                                         *)
(* The module follows a single trace id: every execute_flow call draws a   *)
(* fresh one, so runs meet only through resume_flow(trace_id), which       *)
(* reloads the snapshot of the same trace.  Values are abstracted to the   *)
(* step that wrote them: the context maps a key to Absent, Initial or the  *)
(* number of the step whose output it holds.                               *)
(***************************************************************************)
EXTENDS Integers, Sequences

CONSTANTS
  N,                \* number of steps of the flow
  Key,              \* context keys
  In,               \* In[s]: context keys step s's input_mapping names
  Out,              \* Out[s]: context keys step s's tool contributes
  FallbackOut,      \* FallbackOut[s]: those its fallback tool can contribute
  Mapped,           \* Mapped[s]: step s declares an output_mapping
  OnError,          \* OnError[s]: "fail", "skip" or "fallback"
  Policy,           \* the flow's on_context_collision
  Dynamic,          \* keys of the run's dynamic_params
  InputReq,         \* keys input_schema requires
  OutputReq,        \* keys output_schema requires
  CtxReq,           \* keys context_schema requires
  DeleteOnSuccess,  \* FlowExecutor(delete_on_success=...)
  Hash,             \* tool schema hashes
  Missing,          \* a tool that is not registered
  Version,          \* flow versions
  MaxResumes,       \* bound: calls of resume_flow on the trace
  MaxEdits          \* bound: registrations between calls

Step == 1 .. N

ASSUME FlowAssumption ==
  /\ N \in Nat
  /\ In \in [Step -> SUBSET Key]
  /\ Out \in [Step -> SUBSET Key]
  /\ FallbackOut \in [Step -> SUBSET Key]
  /\ Mapped \in [Step -> BOOLEAN]
  /\ OnError \in [Step -> {"fail", "skip", "fallback"}]
  /\ Policy \in {"overwrite", "warn", "error"}
  /\ Dynamic \subseteq Key
  /\ InputReq \subseteq Key
  /\ OutputReq \subseteq Key
  /\ CtxReq \subseteq Key

ASSUME DeploymentAssumption ==
  /\ DeleteOnSuccess \in BOOLEAN
  /\ Missing \notin Hash
  /\ MaxResumes \in Nat
  /\ MaxEdits \in Nat

VARIABLES
  pc,        \* where the call is: see Place
  mode,      \* "none" before the first call, then "execute" or "resume"
  lane,      \* "sync" or "async"
  idx,       \* the step the loop is at
  given,     \* keys of initial_input
  ctx,       \* the execution context
  log,       \* the execution log, a sequence of step records
  exit,      \* how the latest call ended, or will end once pc is "result"
  cancel,    \* the deadline passed or the token was cancelled
  running,   \* _local.active_flow_version
  store,     \* the checkpointer's snapshot of this trace
  hash,      \* schema hash of the tool registered under each step's name
  version,   \* the latest registered version of the flow
  active,    \* active[v]: the status of version v is ACTIVE
  runs,      \* runs[s]: how often step s's tool has been dispatched
  resumes, edits

callVars == <<pc, mode, lane, idx, given, ctx, log, exit, cancel, running>>
envVars  == <<hash, version, active, edits>>
vars     == <<callVars, store, runs, resumes, envVars>>

Place == {"idle", "boundary", "tool", "save", "result", "flowend"}
Exit  == {"none", "success", "failure", "cancelled",      \* a result is built
          "collision", "mapping", "saveerror",            \* an exception escapes
          "crashed", "refused"}
Succeeded == {"ok", "fallback", "skipped"}                \* StepRecord.success
Outcome   == Succeeded \cup {"failed", "invalid"}

Absent  == -1
Initial == 0
Context == [Key -> Absent .. N]
Record  == [step : 0 .. N + 1, res : Outcome, hash : Hash \cup {Missing}]

EmptyContext == [k \in Key |-> Absent]
NoSnapshot ==
  [done |-> 0, ctx |-> EmptyContext, log |-> <<>>,
   hash |-> [s \in Step |-> Missing], version |-> CHOOSE v \in Version : TRUE]

Has(c, keys) == \A k \in keys : c[k] # Absent
SeedContext(g) == [k \in Key |-> IF k \in g \cup Dynamic THEN Initial ELSE Absent]

(* The synthetic records of _validate_flow_schema carry FLOW_INPUT_STEP_INDEX *)
(* (here 0) or flow_output_step_index (here N + 1); they name no tool.        *)
InputRecord  == [step |-> 0, res |-> "invalid", hash |-> Missing]
OutputRecord == [step |-> N + 1, res |-> "invalid", hash |-> Missing]
StepRec(s, r) == [step |-> s, res |-> r, hash |-> hash[s]]

-----------------------------------------------------------------------------
(* apply_output_mapping and merge_step_outputs.                            *)

Produced(s, r) ==
  CASE r = "ok"       -> Out[s]
    [] r = "fallback" -> FallbackOut[s]
    [] OTHER          -> {}

(* apply_output_mapping raises OutputMappingError: a mapped output key is  *)
(* absent from the outputs.  Without a mapping nothing can be missing.     *)
MappingRaises(s, r) == Mapped[s] /\ ~(Out[s] \subseteq Produced(s, r))

Contribution(s, r) == IF Mapped[s] THEN Out[s] ELSE Produced(s, r)

(* Only the execute lanes merge through merge_step_outputs; a resumed run  *)
(* calls context.update directly, whatever the policy.                     *)
CollisionRaises(s, r) ==
  /\ mode = "execute"
  /\ Policy = "error"
  /\ \E k \in Contribution(s, r) : ctx[k] # Absent

(* Variant (see the README on variants): the first writer of a key wins.   *)
MergeFirstWins(c, s, r) ==
  [k \in Key |-> IF k \in Contribution(s, r) /\ c[k] = Absent THEN s ELSE c[k]]

Merge(c, s, r) == [k \in Key |-> IF k \in Contribution(s, r) THEN s ELSE c[k]]

-----------------------------------------------------------------------------
Init ==
  /\ pc = "idle" /\ mode = "none" /\ lane = "sync" /\ idx = 1
  /\ given = {} /\ ctx = EmptyContext /\ log = <<>>
  /\ exit = "none" /\ cancel = FALSE
  /\ version \in Version /\ running = version
  /\ store = NoSnapshot /\ active = [v \in Version |-> TRUE]
  /\ hash \in [Step -> Hash \cup {Missing}]
  /\ runs = [s \in Step |-> 0]
  /\ resumes = 0 /\ edits = 0

(* execute_flow / execute_flow_async up to the step loop: the status guard *)
(* raises before anything happens (no call of the model passes force=True), *)
(* and flow_start fires before the flow-level input validation.            *)
Begin(l, g, v) ==
  /\ pc = "idle" /\ mode = "none" /\ active[v]
  /\ mode' = "execute" /\ lane' = l /\ given' = g /\ running' = v
  /\ idx' = 1
  /\ UNCHANGED <<cancel, store, runs, resumes, envVars>>

Start(l, g, v) ==
  /\ Begin(l, g, v)
  /\ InputReq \subseteq g
  /\ pc' = "boundary" /\ ctx' = SeedContext(g) /\ log' = <<>>
  /\ UNCHANGED exit

StartInvalid(l, g, v) ==
  /\ Begin(l, g, v)
  /\ ~(InputReq \subseteq g)
  /\ pc' = "result" /\ log' = <<InputRecord>> /\ exit' = "failure"
  /\ UNCHANGED ctx

-----------------------------------------------------------------------------
(* The step loop.                                                          *)

CancelDue == mode = "execute" /\ cancel

(* _check_cancellation at a step boundary: only the execute lanes call it. *)
Cancel ==
  /\ pc = "boundary" /\ idx \in Step /\ CancelDue
  /\ pc' = "result" /\ exit' = "cancelled"
  /\ UNCHANGED <<mode, lane, idx, given, ctx, log, cancel, running,
                 store, runs, resumes, envVars>>

Resolvable(s) == hash[s] # Missing /\ Has(ctx, In[s])

(* _execute_step fails before the tool runs: ToolNotFoundError or          *)
(* InputMappingError; on_error does not apply.                             *)
FailBeforeTool ==
  /\ pc = "boundary" /\ idx \in Step /\ ~CancelDue
  /\ ~Resolvable(idx)
  /\ log' = Append(log, StepRec(idx, "failed"))
  /\ pc' = "result" /\ exit' = "failure"
  /\ UNCHANGED <<mode, lane, idx, given, ctx, cancel, running,
                 store, runs, resumes, envVars>>

(* The tool is invoked; its side effects may happen from here on.          *)
Dispatch ==
  /\ pc = "boundary" /\ idx \in Step /\ ~CancelDue
  /\ Resolvable(idx)
  /\ runs' = [runs EXCEPT ![idx] = @ + 1]
  /\ pc' = "tool"
  /\ UNCHANGED <<mode, lane, idx, given, ctx, log, exit, cancel, running,
                 store, resumes, envVars>>

(* What _execute_step can return: on_error turns a failed tool into a      *)
(* skipped or a fallback record; a step-contract failure bypasses it, and  *)
(* the fallback may fail too.                                              *)
Returns(s) ==
  {"ok", "failed"} \cup (IF OnError[s] = "skip" THEN {"skipped"} ELSE {})
                   \cup (IF OnError[s] = "fallback" THEN {"fallback"} ELSE {})

StepFails ==
  /\ pc = "tool"
  /\ log' = Append(log, StepRec(idx, "failed"))
  /\ pc' = "result" /\ exit' = "failure"
  /\ UNCHANGED <<mode, lane, idx, given, ctx, cancel, running,
                 store, runs, resumes, envVars>>

StepSucceeds(r) ==
  /\ pc = "tool" /\ r \in Returns(idx) \cap Succeeded
  /\ ~MappingRaises(idx, r) /\ ~CollisionRaises(idx, r)
  /\ log' = Append(log, StepRec(idx, r))
  /\ ctx' = Merge(ctx, idx, r)
  /\ pc' = "save"
  /\ UNCHANGED <<mode, lane, idx, given, exit, cancel, running,
                 store, runs, resumes, envVars>>

(* An exception leaves the call: its frame, with the log and the context,  *)
(* is gone and on_flow_end has not fired.                                  *)
Raise(why) ==
  /\ pc' = "idle" /\ exit' = why
  /\ log' = <<>> /\ ctx' = EmptyContext
  /\ UNCHANGED <<mode, lane, idx, given, cancel, running,
                 store, runs, resumes, envVars>>

MergeRaises(r) ==
  /\ pc = "tool" /\ r \in Returns(idx) \cap Succeeded
  /\ \/ MappingRaises(idx, r) /\ Raise("mapping")
     \/ ~MappingRaises(idx, r) /\ CollisionRaises(idx, r) /\ Raise("collision")

Snapshot ==
  [done |-> idx, ctx |-> ctx, log |-> log, hash |-> hash, version |-> running]

(* _save_linear_snapshot; FileCheckpointer.save writes a temporary file    *)
(* and renames it, so a save is one step: a crash leaves the old snapshot. *)
Save ==
  /\ pc = "save"
  /\ store' = Snapshot
  /\ idx' = idx + 1 /\ pc' = "boundary"
  /\ UNCHANGED <<mode, lane, given, ctx, log, exit, cancel, running,
                 runs, resumes, envVars>>

SaveFails == pc = "save" /\ Raise("saveerror")

-----------------------------------------------------------------------------
(* After the loop: output_schema in both lanes, context_schema in the sync *)
(* lane only.                                                              *)

OutputValid  == Has(ctx, OutputReq)
ContextValid == lane = "sync" => Has(ctx, CtxReq)

Invalid ==
  /\ pc = "boundary" /\ idx = N + 1
  /\ ~(OutputValid /\ ContextValid)
  /\ log' = Append(log, OutputRecord)
  /\ pc' = "result" /\ exit' = "failure"
  /\ UNCHANGED <<mode, lane, idx, given, ctx, cancel, running,
                 store, runs, resumes, envVars>>

(* Variant: a resumed run never gets to its result.                        *)
CompleteExecuted ==
  /\ pc = "boundary" /\ idx = N + 1 /\ mode = "execute"
  /\ OutputValid /\ ContextValid
  /\ pc' = "result" /\ exit' = "success"
  /\ UNCHANGED <<mode, lane, idx, given, ctx, log, cancel, running,
                 store, runs, resumes, envVars>>

Complete ==
  /\ pc = "boundary" /\ idx = N + 1
  /\ OutputValid /\ ContextValid
  /\ pc' = "result" /\ exit' = "success"
  /\ UNCHANGED <<mode, lane, idx, given, ctx, log, cancel, running,
                 store, runs, resumes, envVars>>

(* Variant: every result deletes the snapshot.                             *)
ResumeWindowAlwaysCloses == TRUE

ResumeWindowCloses == DeleteOnSuccess /\ exit = "success"

(* _make_result: delete the snapshot on success, then fire on_flow_end.    *)
MakeResult ==
  /\ pc = "result"
  /\ store' = IF ResumeWindowCloses THEN NoSnapshot ELSE store
  /\ pc' = "flowend"
  /\ UNCHANGED <<mode, lane, idx, given, ctx, log, exit, cancel, running,
                 runs, resumes, envVars>>

FireFlowEnd ==
  /\ pc = "flowend"
  /\ pc' = "idle"
  /\ UNCHANGED <<mode, lane, idx, given, ctx, log, exit, cancel, running,
                 store, runs, resumes, envVars>>

-----------------------------------------------------------------------------
(* The process dies: only the snapshot and the tools' effects remain.      *)
Crash == pc # "idle" /\ Raise("crashed")

(* _load_snapshot_for_resume: the latest flow version must be the          *)
(* snapshot's, and every recorded tool hash must still be the registered   *)
(* one.  A tool that was unregistered when the snapshot was written has no *)
(* recorded hash.                                                          *)
VersionUnchanged == store.version = version

(* Variant: only the steps still to run are compared.                      *)
RemainingToolsUnchanged ==
  \A s \in Step :
    s > store.done /\ store.hash[s] # Missing => store.hash[s] = hash[s]

ToolsUnchanged ==
  \A s \in Step : store.hash[s] # Missing => store.hash[s] = hash[s]

Resumable == store.done > 0 /\ VersionUnchanged /\ ToolsUnchanged

(* Variant: the last completed step is executed again.                     *)
ResumeFromLast == store.done

ResumeFrom == store.done + 1

(* resume_flow / resume_flow_async, with _resume_linear_flow(_async) up to *)
(* the loop.  Neither status guard nor input validation is repeated.       *)
Resume(l) ==
  /\ pc = "idle" /\ mode # "none" /\ resumes < MaxResumes
  /\ Resumable
  /\ mode' = "resume" /\ lane' = l /\ running' = version
  /\ ctx' = store.ctx /\ log' = store.log /\ idx' = ResumeFrom
  /\ pc' = "boundary" /\ exit' = "none"
  /\ resumes' = resumes + 1
  /\ UNCHANGED <<given, cancel, store, runs, envVars>>

(* CheckpointNotFoundError or CheckpointDriftError.                        *)
RefuseResume ==
  /\ pc = "idle" /\ mode # "none" /\ resumes < MaxResumes
  /\ ~Resumable
  /\ exit' = "refused" /\ log' = <<>> /\ ctx' = EmptyContext
  /\ resumes' = resumes + 1
  /\ UNCHANGED <<pc, mode, lane, idx, given, cancel, running,
                 store, runs, envVars>>

-----------------------------------------------------------------------------
(* The environment.  Tools and flows are registered between calls.         *)

RequestCancel ==
  /\ pc # "idle" /\ mode = "execute" /\ ~cancel
  /\ cancel' = TRUE
  /\ UNCHANGED <<pc, mode, lane, idx, given, ctx, log, exit, running,
                 store, runs, resumes, envVars>>

(* register_tool, or a new process that registers another tool, or none,   *)
(* under the name.  Replacing a registered tool marks the versions whose   *)
(* tool_schema_hashes disagree (drifted) NEEDS_REVIEW.                     *)
RegisterTool(s, h, drifted) ==
  /\ pc = "idle" /\ edits < MaxEdits /\ h # hash[s]
  /\ drifted # {} => hash[s] # Missing /\ h # Missing
  /\ hash' = [hash EXCEPT ![s] = h]
  /\ active' = [v \in Version |-> active[v] /\ v \notin drifted]
  /\ edits' = edits + 1
  /\ UNCHANGED <<callVars, store, runs, resumes, version>>

RegisterFlow(v) ==
  /\ pc = "idle" /\ edits < MaxEdits /\ v # version
  /\ version' = v
  /\ edits' = edits + 1
  /\ UNCHANGED <<callVars, store, runs, resumes, hash, active>>

(* set_flow_status, and accept_drift, which sets ACTIVE again.             *)
SetStatus(v) ==
  /\ pc = "idle" /\ edits < MaxEdits
  /\ active' = [active EXCEPT ![v] = ~@]
  /\ edits' = edits + 1
  /\ UNCHANGED <<callVars, store, runs, resumes, hash, version>>

-----------------------------------------------------------------------------
Advance ==
  \/ Cancel \/ FailBeforeTool \/ Dispatch \/ StepFails
  \/ \E r \in Succeeded : StepSucceeds(r)
  \/ \E r \in Succeeded : MergeRaises(r)
  \/ Save \/ Invalid \/ Complete \/ MakeResult \/ FireFlowEnd

Next ==
  \/ \E l \in {"sync", "async"}, g \in SUBSET Key, v \in Version :
       Start(l, g, v) \/ StartInvalid(l, g, v)
  \/ Advance
  \/ SaveFails \/ Crash
  \/ \E l \in {"sync", "async"} : Resume(l)
  \/ RefuseResume
  \/ RequestCancel
  \/ \E s \in Step, h \in Hash \cup {Missing}, drifted \in SUBSET Version :
       RegisterTool(s, h, drifted)
  \/ \E v \in Version : RegisterFlow(v) \/ SetStatus(v)

Spec == Init /\ [][Next]_vars

(* The interpreter keeps executing the call and every tool returns (tools  *)
(* that can hang carry a timeout); calls, crashes and cancellations are    *)
(* never owed.                                                             *)
FairSpec == Spec /\ WF_vars(Advance)

-----------------------------------------------------------------------------
(* Properties.                                                             *)

Running == pc \in {"boundary", "tool", "save"}
Built   == ~Running /\ exit \in {"success", "failure", "cancelled"}

(* Every variable stays in its set; in particular the step counter and the *)
(* snapshot's completed_steps never leave the flow.                        *)
TypeOK ==
  /\ pc \in Place /\ mode \in {"none", "execute", "resume"}
  /\ lane \in {"sync", "async"}
  /\ idx \in 1 .. N + 1 /\ given \subseteq Key
  /\ ctx \in Context /\ log \in Seq(Record) /\ exit \in Exit
  /\ cancel \in BOOLEAN /\ running \in Version
  /\ store \in [done : 0 .. N, ctx : Context, log : Seq(Record),
                hash : [Step -> Hash \cup {Missing}], version : Version]
  /\ hash \in [Step -> Hash \cup {Missing}] /\ version \in Version
  /\ active \in [Version -> BOOLEAN]
  /\ runs \in [Step -> Nat]
  /\ resumes \in Nat /\ edits \in Nat

(* The records of l are those of steps 1 .. n, all successful.             *)
Completed(l, n) ==
  /\ Len(l) = n
  /\ \A i \in 1 .. n : l[i].step = i /\ l[i].res \in Succeeded

(* Record i of l wrote k into the context.                                 *)
Wrote(l, i, k) == l[i].res \in Succeeded /\ k \in Contribution(i, l[i].res)

(* c is what merging the outputs recorded in l, in log order, into the     *)
(* context seeded with g gives: each key holds its latest writer's value.  *)
Matches(g, c, l) ==
  \A k \in Key :
    \/ /\ c[k] \in 1 .. Len(l) /\ Wrote(l, c[k], k)
       /\ \A j \in 1 .. Len(l) : j > c[k] => ~Wrote(l, j, k)
    \/ /\ c[k] = SeedContext(g)[k]
       /\ \A j \in 1 .. Len(l) : ~Wrote(l, j, k)

(* How many steps the log of a running or finished call has completed.     *)
Progress == IF pc = "save" THEN idx ELSE idx - 1

(* The execution log names every step once, in flow order, whichever calls *)
(* of execute_flow and resume_flow it was gathered over: all its records   *)
(* but the last succeeded, and the last one tells how the call ended       *)
(* (ExecutionResult.execution_log, StepRecord.step_index).                 *)
LogTellsTheRun ==
  /\ Running \/ (Built /\ exit = "cancelled") => Completed(log, Progress)
  /\ Built /\ exit = "success" => Completed(log, N)
  /\ Built /\ exit = "failure" =>
       \/ log = <<InputRecord>>
       \/ /\ Len(log) = idx
          /\ \A i \in 1 .. idx - 1 : log[i].step = i /\ log[i].res \in Succeeded
          /\ log[idx].step = idx /\ log[idx].res \notin Succeeded

(* The context a step reads, and the final_output a caller gets, hold for  *)
(* every key the value of the latest step of the log that contributed it,  *)
(* or the initial value: no output is lost and none appears twice, across  *)
(* any number of crashes and resumes (merge_step_outputs, context.update). *)
ContextMatchesLog ==
  Running \/ (Built /\ exit = "success") => Matches(given, ctx, log)

(* A stored snapshot is internally consistent: its log is that of exactly  *)
(* completed_steps successful steps and its context is the one that log    *)
(* builds, so whoever resumes from it continues the same run.              *)
SnapshotConsistent ==
  store.done > 0 => Completed(store.log, store.done) /\ Matches(given, store.ctx, store.log)

(* While a call runs, and in every failed or cancelled result, the         *)
(* snapshot holds all the steps that completed before the one in hand: a   *)
(* crash loses at most the step in flight, and a partial result that the   *)
(* caller sees is the one a later resume continues (_check_cancellation:   *)
(* "the crash-resume snapshot is preserved").                              *)
SnapshotKeepsUp ==
  Running \/ (Built /\ exit \in {"failure", "cancelled"}) =>
    /\ store.done = idx - 1
    /\ \A i \in 1 .. store.done : store.log[i] = log[i]

(* What a resume relies on: the snapshot is consistent and keeps up.       *)
SnapshotSound == SnapshotConsistent /\ SnapshotKeepsUp

(* A run that completes has executed every step with the tool schemas that *)
(* are registered when it completes, although tools may be re-registered   *)
(* between the calls it took (_load_snapshot_for_resume's drift check).    *)
NoMixedSchemas ==
  pc \in {"result", "flowend"} /\ exit = "success" =>
    \A i \in 1 .. Len(log) : log[i].hash = hash[i]

(* A trace never changes the flow version it runs.                         *)
OneFlowVersion == [][mode # "none" => running' = running]_vars

(* A step whose completion a snapshot records is never dispatched again.   *)
NeverRerunCheckpointed ==
  [][\A s \in Step : runs'[s] # runs[s] => s > store.done]_vars

(* Every call that is begun ends, in a result or in an exception.          *)
EveryCallEnds == (pc # "idle") ~> (pc = "idle")

-----------------------------------------------------------------------------
(* What the documentation says and the code does not do.                   *)

(* docs/data-integrity.md:56: the collision policy "applies uniformly to   *)
(* linear and DAG flows and to both execution lanes": under "error" no     *)
(* step overwrites a key that is present.                                  *)
PolicyIsUniform ==
  [][pc = "tool" /\ pc' = "save" /\ Policy = "error" =>
       \A k \in Key : ctx[k] # Absent => ctx'[k] = ctx[k]]_vars

-----------------------------------------------------------------------------
(* The trace implements the durable frontier of DurableRun.  A deleted     *)
(* snapshot leaves idx at N + 1: the run is complete for good.             *)
Durable == INSTANCE DurableRun WITH
             frontier <- IF idx = N + 1 THEN N ELSE store.done,
             attempts <- runs

(* Across crashes, failures, cancellations and resumes in either lane, the *)
(* steps are attempted in order, each is committed once, none is committed *)
(* unattempted and none is attempted after its commit.                     *)
RefinesDurableRun == Durable!Spec
=============================================================================
