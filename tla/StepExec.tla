------------------------------ MODULE StepExec -------------------------------
(***************************************************************************)
(* The step pipeline of FlowExecutor, in both lanes (_execute_step,        *)
(* _execute_step_async): decision point, checks before the tool, safety    *)
(* gate, guardrail, dry run, step cache, invocation with timeout and       *)
(* retry, on_error policy, output contract, cache write.                   *)
(*                                                                         *)
(* Steps are executed one after another on one executor and share its      *)
(* cache.  Inputs are not modelled: two executions whose cache keys agree  *)
(* have the same tool, schema hash and input.  A tool attempt runs on a    *)
(* worker that outlives its timeout.                                       *)
(***************************************************************************)
EXTENDS Integers, Sequences, FiniteSets

CONSTANTS
  Tool,
  Effect,         \* Effect[t]: SideEffectLevel, 0 NONE, 1 READ, 2 WRITE ...
  NeedsApproval,  \* tools with requires_approval
  UnsafeRetry,    \* tools _retry_disallowed_by_contract holds of
  DryFn,          \* tools with a dry_run_fn
  Cacheable,      \* tools with cacheable=True
  Streaming,      \* StreamingTools
  Timed,          \* tools with timeout_seconds
  Value,          \* what tools return
  Sid,            \* step definitions
  Primary,        \* Primary[s]: tool_name
  Candidates,     \* Candidates[s]: decision_candidates, or {}
  OnError,        \* OnError[s]: "fail", "skip" or "fallback"
  Fallback,       \* Fallback[s]: the tool on_error names
  Retries,        \* Retries[s]: retry.max_retries, or -1 for no policy
  Accepts,        \* Accepts[s]: outputs its output_contract accepts
  Executor,       \* executor configurations
  MaxSteps,       \* bound: steps executed
  MaxHash,        \* bound: schema versions of a tool
  MaxChunks       \* bound: chunks of a stream

NoTool == "none"
None   == "none"
READ   == 1

ASSUME ToolAssumption ==
  /\ NoTool \notin Tool /\ None \notin Value /\ None \notin Sid
  /\ {"running", "raised", "fatal"} \cap Value = {}
  /\ Effect \in [Tool -> Nat]
  /\ NeedsApproval \subseteq Tool /\ UnsafeRetry \subseteq Tool
  /\ DryFn \subseteq Tool /\ Cacheable \subseteq Tool
  /\ Streaming \subseteq Tool /\ Timed \subseteq Tool

ASSUME StepAssumption ==
  /\ Primary \in [Sid -> Tool] /\ Candidates \in [Sid -> SUBSET Tool]
  /\ OnError \in [Sid -> {"fail", "skip", "fallback"}] /\ Fallback \in [Sid -> Tool]
  /\ Retries \in [Sid -> Int] /\ \A s \in Sid : Retries[s] >= -1
  /\ Accepts \in [Sid -> SUBSET Value]
  /\ MaxSteps \in Nat /\ MaxHash \in Nat \ {0} /\ MaxChunks \in Nat

(* strict_safety, max_side_effect_level, approval_callback,                *)
(* guardrail_callback, step_cache, decision_callback, and what             *)
(* DecisionPolicy does about a timeout.                                    *)
ASSUME ExecutorAssumption ==
  Executor \subseteq [strict : BOOLEAN, ceiling : Nat, approves : BOOLEAN,
                      guards : BOOLEAN, caches : BOOLEAN,
                      decides : {"never", "untimed", "error", "default"}]

VARIABLES
  ex,        \* the executor's configuration
  hash,      \* hash[t]: schema hash of the registered tool
  cache,     \* cache[t][h]: the cached output, or None
  pc,        \* where the step is
  cur,       \* the step in hand
  tool,      \* the tool it is bound to
  acting,    \* the tool at the gate or running: tool, or the fallback
  fb,        \* _apply_on_error is running the fallback
  approved,  \* history: tools the approval callback approved for this step
  attempts,  \* tool_attempts[0]
  worker,    \* worker[a]: the thread or task of the a-th invocation of the step
  out,       \* the output in hand
  cached,    \* the output came from the cache
  keyed,     \* cache_key is set
  rec,       \* the outcome of the latest step
  events,    \* events fired for the step
  produced,  \* history: outputs real invocations returned, by tool and hash
  steps

stepVars == <<cur, tool, acting, fb, approved, attempts, worker, out, cached, keyed, rec, events>>
vars == <<ex, hash, cache, pc, stepVars, produced, steps>>

Place == {"idle", "decide", "precheck", "gate", "guard", "dry", "lookup",
          "invoke", "wait", "onerror", "contract", "end"}
Outcome == {"none", "ok", "skipped", "fallback", "failed"}
NoStep  == [sid |-> None, lane |-> "sync", dry |-> FALSE, abort |-> FALSE, replay |-> FALSE]
WorkerState == {"running", "raised", "fatal"} \cup Value   \* fatal: not a retryable error

Init ==
  /\ ex \in Executor
  /\ hash = [t \in Tool |-> 1]
  /\ cache = [t \in Tool |-> [h \in 1 .. MaxHash |-> None]]
  /\ pc = "idle" /\ cur = NoStep /\ tool = NoTool /\ acting = NoTool /\ fb = FALSE
  /\ approved = {} /\ attempts = 0 /\ worker = <<>> /\ out = None
  /\ cached = FALSE /\ keyed = FALSE /\ rec = "none" /\ events = <<>>
  /\ produced = {} /\ steps = 0

S == cur.sid
Latest == worker[Len(worker)]

-----------------------------------------------------------------------------
(* The flow loop hands a step to the pipeline.  Only the sync lane has     *)
(* dry_run, with on_unsupported "skip" or "abort", and replay_flow; the    *)
(* async lane refuses flows with decision_candidates up front.             *)
Begin(s, lane, dry, abort, replay) ==
  /\ pc = "idle" /\ steps < MaxSteps
  /\ lane = "async" => ~dry /\ ~replay /\ Candidates[s] = {}
  /\ abort => dry
  /\ cur' = [sid |-> s, lane |-> lane, dry |-> dry, abort |-> abort, replay |-> replay]
  /\ pc' = "decide" /\ steps' = steps + 1
  /\ tool' = Primary[s] /\ acting' = Primary[s] /\ fb' = FALSE
  /\ approved' = {} /\ attempts' = 0 /\ worker' = <<>> /\ out' = None
  /\ cached' = FALSE /\ keyed' = FALSE /\ rec' = "none" /\ events' = <<>>
  /\ UNCHANGED <<ex, hash, cache, produced>>

(* Early returns: the record is built, _finish fires on_step_end.          *)
Finish(r, o) ==
  /\ rec' = r /\ out' = o /\ pc' = "end"
Fail ==
  /\ Finish("failed", None)
  /\ UNCHANGED <<ex, hash, cache, cur, tool, acting, fb, approved, attempts, worker, cached,
                 keyed, events, produced, steps>>

-----------------------------------------------------------------------------
(* _resolve_decision.  Its budget (max_decisions_per_flow) belongs to the  *)
(* run and is not modelled here.                                           *)
Deciding == pc = "decide" /\ Candidates[S] # {} /\ ex.decides # "never"

Bind(t) ==
  /\ tool' = t /\ acting' = t /\ pc' = "precheck"
  /\ UNCHANGED <<ex, hash, cache, cur, fb, approved, attempts, worker, out, cached, keyed,
                 rec, events, produced, steps>>

NoDecision == pc = "decide" /\ ~Deciding /\ Bind(Primary[S])
Decide(t) == Deciding /\ t \in Candidates[S] /\ Bind(t)
DecisionTimesOut == Deciding /\ ex.decides = "default" /\ Bind(Primary[S])

(* The callback raised, answered outside the candidates, or timed out      *)
(* under on_timeout="error".                                               *)
DecisionFails == Deciding /\ Fail

(* ToolNotFoundError, InputMappingError or a broken input contract: no     *)
(* on_step_start.                                                          *)
FailBeforeStart == pc = "precheck" /\ Fail

StartStep ==
  /\ pc = "precheck"
  /\ events' = Append(events, "start") /\ pc' = "gate"
  /\ UNCHANGED <<ex, hash, cache, cur, tool, acting, fb, approved, attempts, worker, out,
                 cached, keyed, rec, produced, steps>>

-----------------------------------------------------------------------------
(* _evaluate_safety_gate, for the primary tool and again for a fallback.   *)
AboveCeiling(t) == Effect[t] > ex.ceiling
Unapprovable(t) == t \in NeedsApproval /\ ~ex.approves /\ ex.strict
Asks(t) == t \in NeedsApproval /\ ex.approves

(* The last case: the callback denied, raised or returned no decision.     *)
GateRefuses ==
  /\ pc = "gate"
  /\ AboveCeiling(acting) \/ Unapprovable(acting) \/ Asks(acting)
  /\ Fail

GatePasses ==
  /\ pc = "gate" /\ ~AboveCeiling(acting) /\ ~Unapprovable(acting)
  /\ approved' = approved \cup {t \in {acting} : Asks(t)}
  /\ pc' = IF fb THEN "dry" ELSE "guard"
  /\ UNCHANGED <<ex, hash, cache, cur, tool, acting, fb, attempts, worker, out, cached, keyed,
                 rec, events, produced, steps>>

(* _evaluate_input_guardrail.                                              *)
GuardBlocks == pc = "guard" /\ ex.guards /\ Fail
GuardPasses ==
  /\ pc = "guard" /\ pc' = "dry"
  /\ UNCHANGED <<ex, hash, cache, stepVars, produced, steps>>

-----------------------------------------------------------------------------
(* _dry_run_step.                                                          *)

Rehearsed == cur.dry /\ Effect[acting] > READ

RunForReal ==
  /\ pc = "dry" /\ ~Rehearsed
  /\ pc' = IF fb THEN "invoke" ELSE "lookup"
  /\ UNCHANGED <<ex, hash, cache, stepVars, produced, steps>>

Preview(v) ==
  /\ pc = "dry" /\ Rehearsed /\ acting \in DryFn
  /\ Finish(IF fb THEN "fallback" ELSE "ok", v)
  /\ UNCHANGED <<ex, hash, cache, cur, tool, acting, fb, approved, attempts, worker, cached,
                 keyed, events, produced, steps>>

PreviewFails ==
  /\ pc = "dry" /\ Rehearsed
  /\ acting \in DryFn \/ cur.abort
  /\ Fail

Stub ==
  /\ pc = "dry" /\ Rehearsed /\ acting \notin DryFn /\ ~cur.abort
  /\ Finish("skipped", None)
  /\ UNCHANGED <<ex, hash, cache, cur, tool, acting, fb, approved, attempts, worker, cached,
                 keyed, events, produced, steps>>

-----------------------------------------------------------------------------
(* The step cache.  A StreamingTool bypasses it in the async lane.         *)
Streams == cur.lane = "async" /\ tool \in Streaming
UsesCache == ex.caches /\ tool \in Cacheable /\ ~cur.replay /\ ~cur.dry /\ ~Streams

(* Variant: the schema hash is not part of the key.                        *)
HitOfAnySchema ==
  /\ pc = "lookup" /\ UsesCache
  /\ \E h \in 1 .. MaxHash : cache[tool][h] # None /\ out' = cache[tool][h]
  /\ cached' = TRUE /\ pc' = "contract"
  /\ UNCHANGED <<ex, hash, cache, cur, tool, acting, fb, approved, attempts, worker, keyed,
                 rec, events, produced, steps>>

CacheHit ==
  /\ pc = "lookup" /\ UsesCache /\ cache[tool][hash[tool]] # None
  /\ out' = cache[tool][hash[tool]] /\ cached' = TRUE /\ pc' = "contract"
  /\ UNCHANGED <<ex, hash, cache, cur, tool, acting, fb, approved, attempts, worker, keyed,
                 rec, events, produced, steps>>

CacheMiss ==
  /\ pc = "lookup" /\ (UsesCache => cache[tool][hash[tool]] = None)
  /\ keyed' = UsesCache /\ pc' = "invoke"
  /\ UNCHANGED <<ex, hash, cache, cur, tool, acting, fb, approved, attempts, worker, out,
                 cached, rec, events, produced, steps>>

-----------------------------------------------------------------------------
(* _invoke_tool, Tool._call_fn and their async twins.                      *)
Invoke ==
  /\ pc = "invoke"
  /\ attempts' = IF fb THEN attempts ELSE attempts + 1
  /\ worker' = Append(worker, [tool |-> acting, hash |-> hash[acting], st |-> "running"])
  /\ pc' = "wait"
  /\ UNCHANGED <<ex, hash, cache, cur, tool, acting, fb, approved, out, cached, keyed, rec,
                 events, produced, steps>>

(* A worker finishes, in time or long after its timeout.                   *)
WorkerEnds(a, r) ==
  /\ a \in 1 .. Len(worker) /\ worker[a].st = "running"
  /\ worker' = [worker EXCEPT ![a].st = r]
  /\ produced' = produced \cup {<<worker[a].tool, worker[a].hash, v>> : v \in {r} \cap Value}
  /\ UNCHANGED <<ex, hash, cache, pc, cur, tool, acting, fb, approved, attempts, out, cached,
                 keyed, rec, events, steps>>

Chunk ==
  /\ pc = "wait" /\ Streams /\ ~fb /\ Latest.st = "running"
  /\ Len(events) <= MaxChunks
  /\ events' = Append(events, "chunk")
  /\ UNCHANGED <<ex, hash, cache, pc, cur, tool, acting, fb, approved, attempts, worker, out,
                 cached, keyed, rec, produced, steps>>

(* Variant: the attempts share one result box.                             *)
AnyAnswer == {worker[a].st : a \in 1 .. Len(worker)} \cap Value

(* Each attempt has its own box.                                           *)
Answer == {Latest.st} \cap Value

TakeResult(v) ==
  /\ pc = "wait" /\ v \in Answer /\ out' = v
  /\ pc' = IF fb THEN "end" ELSE "contract"
  /\ rec' = IF fb THEN "fallback" ELSE rec
  /\ UNCHANGED <<ex, hash, cache, cur, tool, acting, fb, approved, attempts, worker, cached,
                 keyed, events, produced, steps>>

(* Variant: strict_safety does not suppress the policy.                    *)
RetriesAllowedLax == Retries[S] >= 0 /\ ~Streams

RetriesAllowed ==
  Retries[S] >= 0 /\ ~(ex.strict /\ tool \in UnsafeRetry) /\ ~Streams

AttemptsLeft == attempts < Retries[S] + 1

(* Variant: an error that is not retryable escapes the step.               *)
AttemptFailsRetryable(retryable) ==
  /\ pc = "wait" /\ ~fb /\ retryable
  /\ Latest.st = "raised" \/ (Latest.st = "running" /\ acting \in Timed)
  /\ pc' = IF RetriesAllowed /\ AttemptsLeft THEN "invoke" ELSE "onerror"
  /\ UNCHANGED <<ex, hash, cache, stepVars, produced, steps>>

(* The attempt raised, or control came back at the timeout.                *)
AttemptFails(retryable) ==
  /\ pc = "wait" /\ ~fb
  /\ \/ Latest.st = IF retryable THEN "raised" ELSE "fatal"
     \/ Latest.st = "running" /\ acting \in Timed
  /\ pc' = IF RetriesAllowed /\ retryable /\ AttemptsLeft THEN "invoke" ELSE "onerror"
  /\ UNCHANGED <<ex, hash, cache, stepVars, produced, steps>>

FallbackFails ==
  /\ pc = "wait" /\ fb
  /\ Latest.st \in {"raised", "fatal"} \/ (Latest.st = "running" /\ acting \in Timed)
  /\ Fail

-----------------------------------------------------------------------------
(* _apply_on_error.                                                        *)
GiveUp == pc = "onerror" /\ OnError[S] = "fail" /\ Fail

(* Variant: any policy but "fail" skips.                                   *)
SkipUnlessFail ==
  /\ pc = "onerror" /\ OnError[S] # "fail"
  /\ Finish("skipped", None)
  /\ UNCHANGED <<ex, hash, cache, cur, tool, acting, fb, approved, attempts, worker, cached,
                 keyed, events, produced, steps>>

SkipStep ==
  /\ pc = "onerror" /\ OnError[S] = "skip"
  /\ Finish("skipped", None)
  /\ UNCHANGED <<ex, hash, cache, cur, tool, acting, fb, approved, attempts, worker, cached,
                 keyed, events, produced, steps>>

FallbackMissing == pc = "onerror" /\ OnError[S] = "fallback" /\ Fail

(* Variant: the fallback runs on the primary's approval.                   *)
FallBackUngated ==
  /\ pc = "onerror" /\ OnError[S] = "fallback"
  /\ fb' = TRUE /\ acting' = Fallback[S] /\ pc' = "dry"
  /\ UNCHANGED <<ex, hash, cache, cur, tool, approved, attempts, worker, out, cached, keyed,
                 rec, events, produced, steps>>

FallBack ==
  /\ pc = "onerror" /\ OnError[S] = "fallback"
  /\ fb' = TRUE /\ acting' = Fallback[S] /\ pc' = "gate"
  /\ UNCHANGED <<ex, hash, cache, cur, tool, approved, attempts, worker, out, cached, keyed,
                 rec, events, produced, steps>>

-----------------------------------------------------------------------------
(* The output contract, checked on a cache hit too.                        *)
BreaksContract == pc = "contract" /\ out \notin Accepts[S] /\ Fail

(* Variant: a cached output is taken as it is.                             *)
MeetsContractIfFresh == pc = "contract" /\ (cached \/ out \in Accepts[S])

MeetsContract == pc = "contract" /\ out \in Accepts[S]

(* A fresh output of a keyed step is stored after the contract accepted    *)
(* it.                                                                     *)
Succeed ==
  /\ MeetsContract
  /\ cache' = IF keyed /\ ~cached
                THEN [cache EXCEPT ![tool][hash[tool]] = out] ELSE cache
  /\ rec' = "ok" /\ pc' = "end"
  /\ UNCHANGED <<ex, hash, cur, tool, acting, fb, approved, attempts, worker, out, cached,
                 keyed, events, produced, steps>>

(* Variant: a step that was refused fires no on_step_end.                  *)
EndStepIfStarted ==
  /\ pc = "end" /\ pc' = "idle"
  /\ events' = IF events = <<>> THEN events ELSE Append(events, "end")
  /\ UNCHANGED <<ex, hash, cache, cur, tool, acting, fb, approved, attempts, worker, out,
                 cached, keyed, rec, produced, steps>>

EndStep ==
  /\ pc = "end" /\ pc' = "idle"
  /\ events' = Append(events, "end")
  /\ UNCHANGED <<ex, hash, cache, cur, tool, acting, fb, approved, attempts, worker, out,
                 cached, keyed, rec, produced, steps>>

(* register_tool replaces a tool between steps.                            *)
RegisterTool(t) ==
  /\ pc = "idle" /\ hash[t] < MaxHash
  /\ hash' = [hash EXCEPT ![t] = @ + 1]
  /\ UNCHANGED <<ex, cache, pc, stepVars, produced, steps>>

-----------------------------------------------------------------------------
Advance ==
  \/ NoDecision \/ DecisionTimesOut \/ DecisionFails \/ \E t \in Tool : Decide(t)
  \/ FailBeforeStart \/ StartStep
  \/ GateRefuses \/ GatePasses \/ GuardBlocks \/ GuardPasses
  \/ RunForReal \/ PreviewFails \/ Stub
  \/ \E v \in Value : Preview(v) \/ TakeResult(v)
  \/ CacheHit \/ CacheMiss \/ Invoke
  \/ \E retryable \in BOOLEAN : AttemptFails(retryable)
  \/ FallbackFails \/ GiveUp \/ SkipStep \/ FallbackMissing \/ FallBack
  \/ BreaksContract \/ Succeed \/ EndStep

ToolReturns == \E r \in WorkerState \ {"running"} : WorkerEnds(Len(worker), r)

Next ==
  \/ \E s \in Sid, lane \in {"sync", "async"}, dry, abort, replay \in BOOLEAN :
       Begin(s, lane, dry, abort, replay)
  \/ Advance
  \/ \E a \in 1 .. Len(worker), r \in WorkerState \ {"running"} : WorkerEnds(a, r)
  \/ Chunk
  \/ \E t \in Tool : RegisterTool(t)

Spec == Init /\ [][Next]_vars

(* The interpreter keeps executing the step, and a tool without a timeout  *)
(* returns; callbacks return.                                              *)
FairSpec == Spec /\ WF_vars(Advance) /\ WF_vars(ToolReturns)

-----------------------------------------------------------------------------
(* Properties.                                                             *)

Worker == [tool : Tool, hash : 1 .. MaxHash, st : WorkerState]
Event  == {"start", "chunk", "end"}
MaxAttempts(s) == IF Retries[s] > 0 THEN Retries[s] + 1 ELSE 1

TypeOK ==
  /\ ex \in Executor /\ hash \in [Tool -> 1 .. MaxHash]
  /\ cache \in [Tool -> [1 .. MaxHash -> Value \cup {None}]]
  /\ pc \in Place
  /\ cur \in [sid : Sid \cup {None}, lane : {"sync", "async"}, dry : BOOLEAN,
              abort : BOOLEAN, replay : BOOLEAN]
  /\ tool \in Tool \cup {NoTool} /\ acting \in Tool \cup {NoTool} /\ fb \in BOOLEAN
  /\ approved \subseteq Tool /\ attempts \in Nat
  /\ S # None => attempts <= MaxAttempts(S)
  /\ worker \in Seq(Worker)
  /\ out \in Value \cup {None} /\ cached \in BOOLEAN /\ keyed \in BOOLEAN
  /\ rec \in Outcome /\ events \in Seq(Event)
  /\ produced \subseteq Tool \X (1 .. MaxHash) \X Value
  /\ steps \in Nat

(* A real invocation of t starts.                                          *)
Runs(t) == Len(worker') > Len(worker) /\ worker'[Len(worker')].tool = t

(* No path to a tool avoids the safety gate: whatever really runs,         *)
(* as primary, as a decision's choice or as a fallback, is under the       *)
(* ceiling and has its own approval when one is required and enforceable;  *)
(* and a rehearsal (dry_run=True) runs no tool that writes.                *)
NothingRunsUnapproved ==
  [][\A t \in Tool : Runs(t) =>
       /\ Effect[t] <= ex.ceiling /\ (cur.dry => Effect[t] <= READ)
       /\ t \in NeedsApproval /\ (ex.strict \/ ex.approves) => t \in approved]_vars

(* A cached output is one the tool itself really returned under the schema *)
(* the key names: no fallback, preview or outdated output is served.       *)
CacheIsSound ==
  /\ \A t \in Tool, h \in 1 .. MaxHash :
       cache[t][h] # None => <<t, h, cache[t][h]>> \in produced
  /\ cached => <<tool, hash[tool], out>> \in produced \/ pc = "idle" \/ out = None

(* A step that succeeds with its own tool's output, fresh or cached by     *)
(* another step, satisfies its own output_contract.                        *)
ContractKept == rec = "ok" /\ ~cur.dry => out \in Accepts[S]

(* Under strict_safety a tool that must not be retried is invoked once per *)
(* step, unless the step names it as its own fallback.                     *)
UnsafeInvokedOnce ==
  ex.strict /\ tool \in UnsafeRetry /\ Fallback[S] # tool =>
    Cardinality({a \in 1 .. Len(worker) : worker[a].tool = tool}) <= 1

(* A result that arrives after its timeout is never used: the output of a  *)
(* step, previews apart, is what the last attempt returned, although       *)
(* earlier attempts may still be running.                                  *)
LateResultIsDiscarded ==
  rec \in {"ok", "fallback"} /\ ~cached /\ ~Rehearsed /\ worker # <<>> => out = Latest.st

(* Every step fires on_step_end once and last; everything else it fires    *)
(* lies between on_step_start and on_step_end, and no tool is invoked      *)
(* before on_step_start.                                                   *)
EventsBracketed ==
  /\ pc = "idle" /\ steps > 0 =>
       \E n \in 0 .. MaxChunks :
         events \in {<<"end">>, <<"start">> \o [i \in 1 .. n |-> "chunk"] \o <<"end">>}
  /\ worker # <<>> => events # <<>> /\ events[1] = "start"

(* Every step that is begun ends with a record.                            *)
EveryStepEnds == (pc # "idle") ~> (pc = "idle")

Promise == INSTANCE StepPromise WITH
  step <- IF pc = "idle" THEN "none" ELSE S,
  dry  <- pc # "idle" /\ cur.dry,
  res  <- IF pc = "idle" THEN rec ELSE "none"

(* The pipeline keeps the promise the flow loops rely on.                  *)
RefinesStepPromise == Promise!Spec

(* executor.py:5077: the output contract "Validates the tool's outputs     *)
(* against the step's declared shape ... before the outputs are merged     *)
(* into the accumulated context."                                          *)
MergedOutputsMeetContract ==
  pc = "idle" /\ rec \in {"ok", "fallback"} /\ ~cur.dry => out \in Accepts[S]
=============================================================================
