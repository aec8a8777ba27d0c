----------------------------- MODULE Composition -----------------------------
(***************************************************************************)
(* Runs that nest: a composed step calls execute_flow for its sub-flow, in *)
(* a run scope copied from the caller's, and folds the sub-flow's result   *)
(* back into the parent's log (chainweaver/executor.py).                   *)
(*                                                                         *)
(* The module follows one executor through a sequence of calls of          *)
(* execute_flow, stream_flow, resume_flow and replay_flow on a root flow,  *)
(* while flows are re-registered or leave ACTIVE under it and the cancel   *)
(* token is set at any moment.  A frame is one activation of               *)
(* _execute_flow_impl with its run scope; a record of an execution log     *)
(* keeps how many tool steps it stands for, its own or those in the log of *)
(* its sub_result at every depth, so what a result says of the whole       *)
(* composition can be compared with what ran.  A step's output is          *)
(* abstracted to a member of Outputs; retries, contracts and flow-level    *)
(* schemas are the subject of StepExec and LinearRun.                      *)
(***************************************************************************)
EXTENDS Integers, Sequences, FiniteSets, SequencesExt

CONSTANTS
  NestFlows,     \* names of registered flows
  RootFlow,      \* the flow the callers run
  Bodies,        \* Bodies[f]: the step sequences f may be registered with
  NoFlow,        \* flow_name of a step that invokes a tool
  Outputs,       \* what a successful step may return
  BlankOutputs,  \* those without a field, or with no value in any field
  MaxNesting,    \* FlowExecutor(max_composition_depth=...)
  MaxDecisions,  \* DecisionPolicy(max_decisions_per_flow=...)
  MaxNestRuns,   \* bound: calls made to the executor
  MaxNestEdits   \* bound: registrations and status changes during them

ASSUME CompositionAssumption ==
  /\ RootFlow \in NestFlows /\ NoFlow \notin NestFlows
  /\ "none" \notin Outputs /\ BlankOutputs \subseteq Outputs \cup {"input"}
  /\ \A f \in NestFlows : \A body \in Bodies[f] : DOMAIN body = 1 .. Len(body)
  /\ MaxNesting \in Nat /\ MaxDecisions \in Nat
  /\ MaxNestRuns \in Nat /\ MaxNestEdits \in Nat

VARIABLES
  nestReg,    \* flow -> the body registered now
  inactive,   \* flows whose status is not ACTIVE
  call,       \* the call being served: kind, dry_run, resume_from_step
  frames,     \* the activations on the stack, outermost first
  partial,    \* <<log>> while FlowCancelledError unwinds, else <<>>
  ended,      \* how the call ended: "none" while it runs
  lastLog,    \* <<log, success>> of the last result a caller got, or <<>>
  replayed,   \* <<log, success>> of the result replay_flow was given, or <<>>
  nestSnap,   \* <<completed steps, log>> the checkpointer holds, or <<>>
  ambient,    \* decision_count of the caller thread's own scope
  token,      \* the cancel_token is set
  tape,       \* events the middleware chain has been handed, in order
  readTo,     \* how many of them the stream's consumer has taken
  worker,     \* the thread of stream_flow
  reader,     \* the generator of stream_flow
  holder,     \* exc_holder is filled
  tally,      \* records of tool steps made for the call, recovered ones too
  effects,    \* side effects carried out in the call
  nestRuns, nestEdits

streamVars == <<readTo, worker, reader, holder>>
runVars == <<frames, partial, ended, lastLog, nestSnap, ambient, tape, tally, effects>>
compositionVars ==
  <<nestReg, inactive, call, replayed, token, nestRuns, nestEdits, streamVars, runVars>>

NoFlowCall == [kind |-> "none", dry |-> FALSE, from |-> 0]

-----------------------------------------------------------------------------
(* Records, results and what they count.                                   *)

Succeeds(log) == \A i \in DOMAIN log : log[i].ok

\* The tool steps in a log: a composed record is a container and counts for
\* those its sub-flow ran.
ToolSteps(log) == UNION {{i} \X (1 .. log[i].tools) : i \in DOMAIN log}
CountComposed(log) == Cardinality(ToolSteps(log))

\* The context a flow hands back: its input, if no step has added to it.
FinalOutput(log) ==
  LET telling == {i \in DOMAIN log : log[i].out \notin BlankOutputs} IN
  IF ~Succeeds(log) THEN "none"
  ELSE IF telling = {} THEN "input" ELSE log[Max(telling)].out

ToolRecord(out) == [ok |-> out # "none", out |-> out, tools |-> 1]

ComposedRecord(log) ==
  [ok |-> Succeeds(log), out |-> FinalOutput(log), tools |-> CountComposed(log)]

CancelledRecord(log) == [ok |-> FALSE, out |-> "none", tools |-> CountComposed(log)]

\* "outputs or {}", compared field by field with get: a failed step, which
\* has no outputs, shows as one whose outputs hold nothing.
Shown(out) == IF out \in BlankOutputs THEN "none" ELSE out

\* The steps whose outputs VERIFY reports as changed.
Diffs(orig, new, from) ==
  {i \in DOMAIN new : i + from \in DOMAIN orig /\ Shown(new[i].out) # Shown(orig[i + from].out)}

-----------------------------------------------------------------------------
(* Entering a flow: status, composition and the scope it runs in.          *)

SubFlows(f) == {nestReg[f][i].sub : i \in DOMAIN nestReg[f]} \ {NoFlow}

\* The chains of sub-flows that visit follows from f.
Paths(f) ==
  {p \in UNION {[1 .. n -> NestFlows] : n \in 1 .. MaxNesting + 1} :
     p[1] = f /\ \A k \in 1 .. Len(p) - 1 : p[k + 1] \in SubFlows(p[k])}

Visit(f) ==
  \A p \in Paths(f) : \A sub \in SubFlows(p[Len(p)]) :
    sub \notin Range(p) /\ Len(p) <= MaxNesting /\ sub \in NestFlows

\* What get_flow, the status guard and _validate_composition let through.
Enterable(f) == f \in NestFlows /\ f \notin inactive /\ Visit(f)

Event(kind, f) == [kind |-> kind, flow |-> f]

\* A run scope copies the markers of the enclosing scope, never its
\* decision_count; the token travels as an argument.
Frame(f, dry, cancellable) ==
  [flow |-> f, body |-> nestReg[f], at |-> 1, log |-> <<>>, decisions |-> 0,
   dry |-> dry, cancellable |-> cancellable]

SubFrame(f, parent) == Frame(f, parent.dry, parent.cancellable)

Top == frames[Len(frames)]

Running == ended = "none" /\ call # NoFlowCall /\ frames # <<>> /\ partial = <<>>

AtStep == Running /\ Succeeds(Top.log) /\ Top.at <= Len(Top.body)

Interrupted == token /\ Top.cancellable

-----------------------------------------------------------------------------
(* How the call ends.                                                      *)

\* With a result: it goes to the caller, and a success deletes the snapshot.
Finishes(log, how) ==
  /\ ended' = how
  /\ lastLog' = <<log, how = "success">>
  /\ nestSnap' = IF how = "success" THEN <<>> ELSE nestSnap

\* With an exception no frame handles: no flow on the stack reports its end.
Propagates ==
  /\ ended' = "error" /\ frames' = <<>>
  /\ UNCHANGED <<partial, lastLog, nestSnap>>

-----------------------------------------------------------------------------
(* The entry points.                                                       *)

Free == call = NoFlowCall /\ nestRuns < MaxNestRuns

Called(kind, dry, from) ==
  /\ Free
  /\ call' = [kind |-> kind, dry |-> dry, from |-> from]
  /\ nestRuns' = nestRuns + 1
  /\ worker' = IF kind = "stream" THEN "running" ELSE "none"
  /\ reader' = IF kind = "stream" THEN "reading" ELSE "none"
  /\ UNCHANGED <<nestReg, inactive, token, nestEdits, ambient, readTo, holder,
                 partial, lastLog, effects>>

\* execute_flow at the bottom of the stack, in a scope of its own.
EnterRoot(dry, cancellable) ==
  \/ /\ Enterable(RootFlow)
     /\ frames' = <<Frame(RootFlow, dry, cancellable)>>
     /\ tape' = <<Event("flow_start", RootFlow)>>
     /\ UNCHANGED <<ended>>
  \/ /\ ~Enterable(RootFlow)
     /\ ended' = "error"
     /\ UNCHANGED <<frames, tape>>

ExecuteFlow(kind, dry) ==
  /\ Called(kind, dry, 0)
  /\ EnterRoot(dry, TRUE)
  /\ nestSnap' = <<>> /\ UNCHANGED <<replayed, tally>>

\* resume_flow binds no scope: the run counts its decisions in the thread's.
ResumeScope(frame) == [frame EXCEPT !.decisions = ambient]

ResumeFlow ==
  /\ nestSnap # <<>>
  /\ Called("resume", FALSE, 0)
  /\ frames' = <<ResumeScope([Frame(RootFlow, FALSE, FALSE) EXCEPT
                                !.at = nestSnap[1] + 1, !.log = nestSnap[2]])>>
  /\ tape' = <<Event("flow_start", RootFlow)>>
  /\ tally' = CountComposed(nestSnap[2])
  /\ UNCHANGED <<ended, nestSnap, replayed>>

\* replay_flow from the start is execute_flow with in_replay set.
ReplayFlow ==
  /\ lastLog # <<>>
  /\ Called("replay", FALSE, 0)
  /\ EnterRoot(FALSE, FALSE)
  /\ replayed' = lastLog /\ nestSnap' = <<>> /\ UNCHANGED <<tally>>

\* _replay_linear_from: no status guard, no composition check, no snapshot.
ReplayLinearFrom(from) ==
  /\ lastLog # <<>>
  /\ Called("replay", FALSE, from)
  /\ frames' = <<[Frame(RootFlow, FALSE, FALSE) EXCEPT !.at = from + 1]>>
  /\ tape' = <<Event("flow_start", RootFlow)>>
  /\ replayed' = lastLog /\ UNCHANGED <<ended, nestSnap, tally>>

-----------------------------------------------------------------------------
(* The steps of the flow on top of the stack.                              *)

Environment == <<nestReg, inactive, call, replayed, token, nestRuns, nestEdits, streamVars>>

Saves(frame) == ~frame.dry /\ ~(call.kind = "replay" /\ call.from > 0)

Recorded(frame, rec) ==
  [frame EXCEPT !.log = Append(@, rec), !.at = IF rec.ok THEN @ + 1 ELSE @]

\* The record joins the log of frame, at the given depth of the stack; the
\* snapshot is written after a successful step.
Logs(below, frame, rec) ==
  /\ frames' = Append(below, Recorded(frame, rec))
  /\ nestSnap' = IF below = <<>> /\ rec.ok /\ Saves(frame)
                 THEN <<frame.at, Append(frame.log, rec)>> ELSE nestSnap

Decides == Top.body[Top.at].decides

Counted == IF Decides THEN [Top EXCEPT !.decisions = @ + 1] ELSE Top

CountsAmbient == IF Decides /\ call.kind = "resume" /\ Len(frames) = 1
                 THEN ambient + 1 ELSE ambient

OverBudget == Decides /\ Top.decisions + 1 > MaxDecisions

\* A tool step: the decision callback, the tool and its record.  In a dry run
\* a side-effecting tool is replaced by its dry_run_fn, a stub or a failure.
ToolStep(out) ==
  /\ AtStep /\ ~Interrupted
  /\ Top.body[Top.at].sub = NoFlow /\ ~OverBudget
  /\ Logs(Front(frames), Counted, ToolRecord(out))
  /\ tape' = tape \o <<Event("step_start", Top.flow), Event("step_end", Top.flow)>>
  /\ effects' = IF Top.body[Top.at].effect /\ ~Top.dry THEN effects + 1 ELSE effects
  /\ tally' = tally + 1 /\ ambient' = CountsAmbient
  /\ UNCHANGED <<partial, ended, lastLog, Environment>>

\* The callback raises, times out or names a tool outside the candidates.
DecisionFails ==
  /\ AtStep /\ ~Interrupted /\ Decides /\ ~OverBudget
  /\ Logs(Front(frames), Counted, ToolRecord("none"))
  /\ tape' = Append(tape, Event("step_end", Top.flow))
  /\ tally' = tally + 1 /\ ambient' = CountsAmbient
  /\ UNCHANGED <<effects, partial, ended, lastLog, Environment>>

\* DecisionBudgetExceededError passes every frame.
DecisionBudgetExceeded ==
  /\ AtStep /\ ~Interrupted /\ OverBudget
  /\ Propagates
  /\ ambient' = CountsAmbient
  /\ UNCHANGED <<tape, tally, effects, Environment>>

\* A composed step whose inputs do not resolve: a failed record, no event.
SubflowInputFails ==
  /\ AtStep /\ ~Interrupted /\ Top.body[Top.at].sub # NoFlow
  /\ Logs(Front(frames), Top, ToolRecord("none"))
  /\ tally' = tally + 1
  /\ UNCHANGED <<tape, ambient, effects, partial, ended, lastLog, Environment>>

EnterSubflow ==
  /\ AtStep /\ ~Interrupted /\ Top.body[Top.at].sub # NoFlow
  /\ LET sub == Top.body[Top.at].sub
         starts == Append(tape, Event("step_start", Top.flow))
     IN \/ /\ Enterable(sub)
           /\ frames' = Append(frames, SubFrame(sub, Top))
           /\ tape' = Append(starts, Event("flow_start", sub))
           /\ UNCHANGED <<partial, ended, lastLog, nestSnap>>
        \/ /\ ~Enterable(sub)   \* FlowStatusError, FlowCompositionError
           /\ tape' = starts /\ Propagates
  /\ UNCHANGED <<ambient, tally, effects, Environment>>

\* _make_result at the end of the loop or after a failed record: the flow's
\* end is reported, and a parent receives the composed record.
EndFlow ==
  /\ Running /\ (~Succeeds(Top.log) \/ Top.at > Len(Top.body))
  /\ LET below == Front(frames)
         ends == Append(tape, Event("flow_end", Top.flow))
     IN \/ /\ below = <<>>
           /\ frames' = below /\ tape' = ends
           /\ Finishes(Top.log, IF Succeeds(Top.log) THEN "success" ELSE "failure")
        \/ /\ below # <<>>
           /\ LET parent == below[Len(below)] IN
                /\ Logs(Front(below), parent, ComposedRecord(Top.log))
                /\ tape' = Append(ends, Event("step_end", parent.flow))
           /\ UNCHANGED <<ended, lastLog>>
  /\ UNCHANGED <<partial, ambient, tally, effects, Environment>>

-----------------------------------------------------------------------------
(* Cancellation, re-anchored at every level.                               *)

Unwinds(log) ==
  /\ frames' = Front(frames)
  /\ tape' = Append(tape, Event("flow_end", Top.flow))
  /\ IF Len(frames) = 1 THEN partial' = <<>> /\ Finishes(log, "cancelled")
     ELSE partial' = <<log>> /\ UNCHANGED <<ended, lastLog, nestSnap>>
  /\ UNCHANGED <<ambient, tally, effects, Environment>>

CheckCancellation == AtStep /\ Interrupted /\ Unwinds(Top.log)

(* Variant: a sub-flow's cancellation escapes without the parent's log.    *)
PlainReraise ==
  /\ partial # <<>> /\ frames # <<>>
  /\ frames' = Front(frames)
  /\ IF Len(frames) = 1 THEN partial' = <<>> /\ Finishes(partial[1], "cancelled")
     ELSE UNCHANGED <<partial, ended, lastLog, nestSnap>>
  /\ UNCHANGED <<tape, ambient, tally, effects, Environment>>

ReraiseSubflowCancellation ==
  /\ partial # <<>> /\ frames # <<>>
  /\ Unwinds(Append(Top.log, CancelledRecord(partial[1])))

-----------------------------------------------------------------------------
(* stream_flow: the worker thread and the generator that reads its queue.  *)

\* except BaseException: the error is kept before finally puts the sentinel.
WorkerCatches ==
  /\ worker = "running" /\ ended # "none"
  /\ worker' = "caught" /\ holder' = (ended \in {"error", "cancelled"})
  /\ UNCHANGED <<readTo, reader>>

PutSentinel ==
  /\ worker = "caught"
  /\ worker' = "exiting" /\ UNCHANGED <<readTo, reader, holder>>

WorkerExits ==
  /\ worker = "exiting"
  /\ worker' = "exited" /\ UNCHANGED <<readTo, reader, holder>>

SentinelPut == worker \in {"exiting", "exited"}

Yield ==
  /\ reader = "reading" /\ readTo < Len(tape)
  /\ readTo' = readTo + 1 /\ UNCHANGED <<worker, reader, holder>>

TakeSentinel ==
  /\ reader = "reading" /\ readTo = Len(tape) /\ SentinelPut
  /\ reader' = IF holder THEN "raising" ELSE "returning"
  /\ UNCHANGED <<readTo, worker, holder>>

\* GeneratorExit at a yield: the finally block joins the thread.
Abandon ==
  /\ reader = "reading" /\ readTo > 0
  /\ reader' = "abandoning" /\ UNCHANGED <<readTo, worker, holder>>

JoinWorker ==
  /\ reader \in {"raising", "returning", "abandoning"} /\ worker = "exited"
  /\ reader' = CASE reader = "raising" -> "raised" [] reader = "returning" -> "returned"
                 [] reader = "abandoning" -> "abandoned"
  /\ UNCHANGED <<readTo, worker, holder>>

StreamStep ==
  /\ \/ WorkerCatches \/ PutSentinel \/ WorkerExits
     \/ Yield \/ TakeSentinel \/ Abandon \/ JoinWorker
  /\ UNCHANGED <<nestReg, inactive, call, replayed, token, nestRuns, nestEdits, runVars>>

-----------------------------------------------------------------------------
(* The caller has its answer; the run-scoped state goes with the scope.    *)

CallReturns ==
  /\ call # NoFlowCall /\ ended # "none"
  /\ reader \in {"none", "raised", "returned", "abandoned"}
  /\ call' = NoFlowCall /\ frames' = <<>> /\ ended' = "none" /\ tape' = <<>>
  /\ readTo' = 0 /\ worker' = "none" /\ reader' = "none" /\ holder' = FALSE
  /\ tally' = 0 /\ effects' = 0 /\ token' = FALSE /\ replayed' = <<>>
  /\ UNCHANGED <<nestReg, inactive, nestRuns, nestEdits, partial, lastLog, nestSnap, ambient>>

\* Others: the token's owner, and whoever registers flows.
CancelToken ==
  /\ call.kind \in {"execute", "stream"} /\ ended = "none" /\ ~token
  /\ token' = TRUE
  /\ UNCHANGED <<nestReg, inactive, call, replayed, nestRuns, nestEdits, streamVars, runVars>>

Reregister(f, body) ==
  /\ nestEdits < MaxNestEdits /\ f # RootFlow /\ nestReg[f] # body
  /\ nestReg' = [nestReg EXCEPT ![f] = body] /\ nestEdits' = nestEdits + 1
  /\ UNCHANGED <<inactive, call, replayed, token, nestRuns, streamVars, runVars>>

LeaveActive(f) ==
  /\ nestEdits < MaxNestEdits /\ f \notin inactive
  /\ inactive' = inactive \cup {f} /\ nestEdits' = nestEdits + 1
  /\ UNCHANGED <<nestReg, call, replayed, token, nestRuns, streamVars, runVars>>

CompositionInit ==
  /\ nestReg \in [NestFlows -> UNION {Bodies[f] : f \in NestFlows}]
  /\ \A f \in NestFlows : nestReg[f] \in Bodies[f]
  /\ inactive = {} /\ call = NoFlowCall /\ frames = <<>> /\ partial = <<>>
  /\ ended = "none" /\ lastLog = <<>> /\ replayed = <<>> /\ nestSnap = <<>>
  /\ ambient = 0 /\ token = FALSE /\ tape = <<>> /\ readTo = 0
  /\ worker = "none" /\ reader = "none" /\ holder = FALSE
  /\ tally = 0 /\ effects = 0 /\ nestRuns = 0 /\ nestEdits = 0

CompositionNext ==
  \/ \E dry \in BOOLEAN : ExecuteFlow("execute", dry)
  \/ ExecuteFlow("stream", FALSE)
  \/ ResumeFlow \/ ReplayFlow
  \/ \E from \in 1 .. Len(nestReg[RootFlow]) : ReplayLinearFrom(from)
  \/ \E out \in Outputs \cup {"none"} : ToolStep(out)
  \/ DecisionFails \/ DecisionBudgetExceeded
  \/ SubflowInputFails \/ EnterSubflow \/ EndFlow
  \/ CheckCancellation \/ ReraiseSubflowCancellation
  \/ StreamStep \/ CallReturns \/ CancelToken
  \/ \E f \in NestFlows : LeaveActive(f) \/ \E body \in Bodies[f] : Reregister(f, body)

CompositionSpec == CompositionInit /\ [][CompositionNext]_compositionVars

-----------------------------------------------------------------------------
(* Properties.                                                             *)

\* The flows a reader of the events takes to be open, outermost first.
Reads(open, e) ==
  CASE e.kind = "flow_start" -> Append(open, e.flow)
    [] e.kind = "flow_end" -> IF open # <<>> /\ open[Len(open)] = e.flow
                              THEN Front(open) ELSE <<NoFlow>>
    [] OTHER -> open

OpenFlows ==
  LET open[n \in 0 .. Len(tape)] == IF n = 0 THEN <<>> ELSE Reads(open[n - 1], tape[n])
  IN open[Len(tape)]

\* The events of nested flows close in the reverse order of their opening,
\* follow the stack while the call runs, and are all closed by a call that
\* ends with a result or with FlowCancelledError.
EventsNest ==
  /\ ended = "none" => OpenFlows = [i \in DOMAIN frames |-> frames[i].flow]
  /\ ended \in {"success", "failure", "cancelled"} => OpenFlows = <<>>

\* The result, or the partial a cancellation carries, holds every record that
\* was made for the call at every level, and its step count says so.
NothingIsLost ==
  ended \in {"success", "failure", "cancelled"} =>
    CountComposed(lastLog[1]) = tally

\* Until someone edits the registry the stack is as deep as was validated.
NestingIsBounded ==
  nestEdits = 0 => Len(frames) <= MaxNesting + 1

\* A dry run has no side effect at any depth.
RehearsalHasNoEffects == call.dry => effects = 0

\* VERIFY does not pass a failed replay of a successful run, as far as the
\* replayed log reaches (_compute_diffs is silent on a step beyond its end),
\* unless the step that failed now had returned nothing to compare with.
ReplayVerdictIsTrue ==
  call.kind = "replay" /\ ended \in {"success", "failure"}
    /\ replayed[2] /\ Len(lastLog[1]) + call.from <= Len(replayed[1])
    /\ Diffs(replayed[1], lastLog[1], call.from) = {}
    => \/ ended = "success"
       \/ \E i \in DOMAIN lastLog[1] :
            ~lastLog[1][i].ok /\ replayed[1][i + call.from].out \in BlankOutputs

\* A consumer that reads stream_flow to its end has every event and learns
\* whether the run raised, and no generator closes while its worker lives.
StreamDelivers ==
  /\ reader \in {"returned", "raised"} =>
       /\ readTo = Len(tape)
       /\ reader = "raised" <=> ended \in {"error", "cancelled"}
  /\ reader \in {"returned", "raised", "abandoned"} => ended # "none"

\* What a composed call promises its caller, whatever is re-registered,
\* cancelled or refused under it: execute_flow's nested recursion and
\* _reraise_subflow_cancellation keep events, logs and markers consistent,
\* and stream_flow hands the events on.
ComposedRunIsSound ==
  /\ EventsNest /\ NothingIsLost /\ NestingIsBounded
  /\ RehearsalHasNoEffects /\ ReplayVerdictIsTrue /\ StreamDelivers

\* "Ceiling on how many decision callbacks a single flow execution may
\* invoke" (decisions.py:150): a flow is aborted for its budget only when it
\* has asked for that many decisions itself, recovered steps included.
DecidedHere ==
  {i \in DOMAIN Top.log : Top.body[i + Top.at - 1 - Len(Top.log)].decides}

BudgetIsPerRun ==
  [][DecisionBudgetExceeded => Cardinality(DecidedHere) >= MaxDecisions]_compositionVars
=============================================================================
