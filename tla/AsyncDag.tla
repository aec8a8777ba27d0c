------------------------------- MODULE AsyncDag -------------------------------
(***************************************************************************)
(* The async lane of FlowExecutor on a DAGFlow (_execute_dag_flow_async,   *)
(* _run_dag_level_async): the steps of a level run concurrently under a    *)
(* semaphore, their records are processed in declaration order once all    *)
(* are there.                                                              *)
(*                                                                         *)
(* Everything between two awaits is one step of the event loop.  What a    *)
(* step does is StepExec's business; that mapping, collision policy and    *)
(* checkpointer can raise is DagRun's: here it is a nondeterministic       *)
(* exception.  The nested events of a composed step are left out.          *)
(***************************************************************************)
EXTENDS Integers, Sequences, FiniteSets, FiniteSetsExt

CONSTANTS
  N,           \* number of steps, numbered in log order
  Depth,       \* number of levels
  First,       \* First[l]: first step of level l; First[Depth + 1] = N + 1
  Capability,  \* steps that may be capability steps
  Composed,    \* steps that run a sub-flow
  SyncSteps,   \* steps with a sync tool, which runs in a worker thread
  Key,
  Out,         \* Out[n]: keys step n contributes
  Bound        \* max_step_concurrency

Node  == 1 .. N
Level == 1 .. Depth

ASSUME AsyncAssumption ==
  /\ N \in Nat /\ Depth \in Nat /\ Bound \in Nat \ {0}
  /\ First \in [1 .. Depth + 1 -> 1 .. N + 1]
  /\ First[1] = 1 /\ First[Depth + 1] = N + 1
  /\ \A l, m \in 1 .. Depth + 1 : l < m => First[l] < First[m]
  /\ Capability \subseteq Node /\ Composed \subseteq Node /\ SyncSteps \subseteq Node
  /\ Out \in [Node -> SUBSET Key]

VARIABLES
  caps,    \* the flow's capability steps
  pc,      \* where the run's own coroutine is
  lvl,     \* the level it is at
  task,    \* task[n]: the state of step n
  seen,    \* history: the context step n resolved its inputs from
  ctx,     \* ctx[k]: the step that wrote k, or 0
  log,     \* the execution log: steps and their results
  events,  \* the events the middleware got
  saved,   \* completed levels in the snapshot
  exit,    \* how the run ended
  token,   \* the deadline passed or the token was cancelled
  threads  \* the steps with a worker thread still in their tool

(* The run's own state, which a worker thread cannot reach.                *)
dagVars == <<caps, pc, lvl, task, seen, ctx, log, events, saved, exit, token>>

Succeeded == {"ok", "skipped"}
TaskState == {"none", "queued", "running", "failed", "raised", "cancelled"} \cup Succeeded
Record     == [step : 0 .. N, res : TaskState]
Validation == [step |-> 0, res |-> "failed"]
NoContext  == [k \in Key |-> 0]
Context    == [Key -> 0 .. N]
EventKind  == {"flow_start", "step_start", "step_end", "flow_end"}
Event(kind, n) == [kind |-> kind, step |-> n]

Init ==
  /\ caps \in SUBSET Capability /\ pc = "idle" /\ lvl = 1 /\ task = [n \in Node |-> "none"]
  /\ seen = [n \in Node |-> NoContext] /\ ctx = NoContext
  /\ log = <<>> /\ events = <<>> /\ saved = 0 /\ exit = "none" /\ token = FALSE
  /\ threads = {}

InLevel(l) == First[l] .. First[l + 1] - 1
Sequential == Bound = 1 \/ Cardinality(InLevel(lvl)) = 1
In(st) == {n \in Node : task[n] = st}
Live   == In("queued") \cup In("running")

(* _make_result: on_flow_end fires and the run is over.                    *)
Result(how, l) ==
  /\ pc' = "end" /\ exit' = how /\ log' = l
  /\ events' = Append(events, Event("flow_end", 0))

(* An exception leaves the run past _make_result.                          *)
Escapes(how) == pc' = "end" /\ exit' = how /\ UNCHANGED <<log, events>>

-----------------------------------------------------------------------------
Start ==
  /\ pc = "idle"
  /\ pc' = "boundary" /\ events' = <<Event("flow_start", 0)>>
  /\ UNCHANGED <<lvl, task, seen, ctx, log, saved, exit, token, threads>>

InvalidInput ==
  /\ pc = "boundary" /\ lvl = 1 /\ Result("failure", <<Validation>>)
  /\ UNCHANGED <<lvl, task, seen, ctx, saved, token, threads>>

CancelRun ==
  /\ pc = "boundary" /\ lvl \in Level /\ token
  /\ Result("cancelled", log)
  /\ UNCHANGED <<lvl, task, seen, ctx, saved, token, threads>>

(* The first capability step of a level fails the run before any step of   *)
(* the level has run.                                                      *)
RejectCapability ==
  /\ pc = "boundary" /\ lvl \in Level /\ ~token
  /\ InLevel(lvl) \cap caps # {}
  /\ Result("failure", Append(log, [step |-> Min(InLevel(lvl) \cap caps), res |-> "failed"]))
  /\ UNCHANGED <<lvl, task, seen, ctx, saved, token, threads>>

EnterLevel ==
  /\ pc = "boundary" /\ lvl \in Level /\ ~token
  /\ InLevel(lvl) \cap caps = {}
  /\ task' = [n \in Node |-> IF n \in InLevel(lvl) THEN "queued" ELSE task[n]]
  /\ pc' = "level"
  /\ UNCHANGED <<lvl, seen, ctx, log, events, saved, exit, token, threads>>

-----------------------------------------------------------------------------
(* The semaphore serves its waiters in the order they came, which is the   *)
(* order gather was given; a bound of 1 runs them in a plain loop.         *)
Turn(n) ==
  /\ task[n] = "queued" /\ n = Min(In("queued"))
  /\ Cardinality(In("running")) < Bound

StepStarts(n) ==
  /\ Turn(n)
  /\ task' = [task EXCEPT ![n] = "running"] /\ seen' = [seen EXCEPT ![n] = ctx]
  /\ events' = Append(events, Event("step_start", n))
  /\ threads' = threads \cup ({n} \cap SyncSteps)
  /\ UNCHANGED <<pc, lvl, ctx, log, saved, exit, token>>

(* Tool or input missing.  A composed step fires no event at all.          *)
StepRefused(n) ==
  /\ Turn(n)
  /\ task' = [task EXCEPT ![n] = "failed"]
  /\ events' = IF n \in Composed THEN events ELSE Append(events, Event("step_end", n))
  /\ UNCHANGED <<pc, lvl, seen, ctx, log, saved, exit, token, threads>>

(* The worker thread is done with its tool, or an attempt that timed out   *)
(* left it there.                                                          *)
ThreadLeft(n) == threads' \in {threads, threads \ {n}}

(* Variant: outputs are merged as they arrive.                             *)
StepReturnsMerged(n, r) ==
  /\ task[n] = "running" /\ r \in Succeeded \cup {"failed"}
  /\ task' = [task EXCEPT ![n] = r]
  /\ ctx' = [k \in Key |-> IF r = "ok" /\ k \in Out[n] THEN n ELSE ctx[k]]
  /\ events' = Append(events, Event("step_end", n)) /\ ThreadLeft(n)
  /\ UNCHANGED <<pc, lvl, seen, log, saved, exit, token>>

StepReturns(n, r) ==
  /\ task[n] = "running" /\ r \in Succeeded \cup {"failed"}
  /\ task' = [task EXCEPT ![n] = r]
  /\ events' = Append(events, Event("step_end", n)) /\ ThreadLeft(n)
  /\ UNCHANGED <<pc, lvl, seen, ctx, log, saved, exit, token>>

(* A sub-flow raises: it was cancelled between its own steps, or its merge *)
(* or its checkpointer raised.                                             *)
StepRaises(n) ==
  /\ task[n] = "running" /\ n \in Composed
  /\ task' = [task EXCEPT ![n] = "raised"] /\ ThreadLeft(n)
  /\ UNCHANGED <<pc, lvl, seen, ctx, log, events, saved, exit, token>>

(* A worker thread whose step has gone on without it, or was cancelled,    *)
(* reaches the end of its tool; nobody takes the result.                   *)
ThreadEnds(n) ==
  /\ n \in threads /\ task[n] # "running"
  /\ threads' = threads \ {n}

(* gather, without return_exceptions, passes the first exception on and    *)
(* leaves the other tasks alone; the plain loop stops.                     *)
LevelRaises ==
  /\ pc = "level" /\ In("raised") # {}
  /\ Escapes("raised")
  /\ task' = IF Sequential
               THEN [n \in Node |-> IF task[n] = "queued" THEN "none" ELSE task[n]] ELSE task
  /\ UNCHANGED <<lvl, seen, ctx, saved, token, threads>>

-----------------------------------------------------------------------------
(* The records are processed in declaration order.                         *)

Clashes(n) ==
  \E m \in InLevel(lvl) : m < n /\ task[m] = "ok" /\ task[n] = "ok" /\ Out[m] \cap Out[n] # {}
Stops(n) == task[n] = "failed" \/ Clashes(n)
Stopping == {n \in InLevel(lvl) : Stops(n)}

(* Variant: the level ends with its first failure.                         *)
SomethingFailed == pc = "level" /\ In("raised") = {} /\ (Live = {} \/ Stopping # {})

LevelDone == pc = "level" /\ In("raised") = {} /\ Live = {}

StopAt == Min(Stopping)

Records(m) ==
  [i \in 1 .. m - First[lvl] + 1 |->
     LET n == First[lvl] + i - 1
     IN  [step |-> n, res |-> IF Stops(n) THEN "failed" ELSE task[n]]]

LevelFails ==
  /\ LevelDone /\ Stopping # {}
  /\ Result("failure", log \o Records(StopAt))
  /\ UNCHANGED <<lvl, task, seen, ctx, saved, token, threads>>

Writers(k) == {n \in InLevel(lvl) : task[n] = "ok" /\ k \in Out[n]}

LevelMerges ==
  /\ LevelDone /\ Stopping = {}
  /\ log' = log \o Records(First[lvl + 1] - 1)
  /\ ctx' = [k \in Key |-> IF Writers(k) = {} THEN ctx[k] ELSE Max(Writers(k))]
  /\ saved' = lvl /\ lvl' = lvl + 1 /\ pc' = "boundary"
  /\ UNCHANGED <<task, seen, events, exit, token, threads>>

ProcessRaises ==
  /\ LevelDone /\ Escapes("raised")
  /\ UNCHANGED <<lvl, task, seen, ctx, saved, token, threads>>

(* After the last level: output_schema alone; context_schema is not        *)
(* validated in this lane.                                                 *)
Complete ==
  /\ pc = "boundary" /\ lvl = Depth + 1
  /\ \/ Result("success", log)
     \/ Result("failure", Append(log, Validation))
  /\ UNCHANGED <<lvl, task, seen, ctx, saved, token, threads>>

RequestCancel ==
  /\ pc # "end" /\ ~token /\ token' = TRUE
  /\ UNCHANGED <<pc, lvl, task, seen, ctx, log, events, saved, exit, threads>>

-----------------------------------------------------------------------------
Loop ==
  \/ Start \/ CancelRun \/ RejectCapability \/ EnterLevel
  \/ LevelRaises \/ LevelFails \/ LevelMerges \/ Complete
  \/ \E n \in Node : StepStarts(n) \/ \E r \in TaskState : StepReturns(n, r)

RunNext ==
  /\ \/ Loop \/ InvalidInput \/ ProcessRaises \/ RequestCancel
     \/ \E n \in Node : StepRefused(n) \/ StepRaises(n)
  /\ UNCHANGED caps

-----------------------------------------------------------------------------
(* Properties.                                                             *)

(* How many records of the log are records of steps.                       *)
StepRecords == IF log # <<>> /\ log[Len(log)] = Validation THEN Len(log) - 1 ELSE Len(log)

(* The log is the one a sequential run of the same results has, whatever   *)
(* order the steps of a level finished in (executor.py:2307): every step   *)
(* in declaration order up to the first failure or key clash of its level. *)
LogIsSequential ==
  /\ \A i \in 1 .. StepRecords :
       log[i].step = i \/ (i = StepRecords /\ log[i].step \in caps)
  /\ \A i \in 1 .. StepRecords - 1 : log[i].res = task[i] /\ task[i] \in Succeeded
  /\ exit = "success" => StepRecords = N

(* All steps of a level resolve their inputs from the same context, the    *)
(* one the levels before built: no step sees a sibling's output.           *)
SiblingsReadSameContext ==
  \A l \in Level : \A n \in InLevel(l) : \A k \in Key : seen[n][k] < First[l]

(* The concurrent lane computes what the sequential one does.              *)
LevelsAreSequential == LogIsSequential /\ SiblingsReadSameContext
=============================================================================
