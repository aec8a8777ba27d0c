----------------------------- MODULE AsyncStream ------------------------------
(***************************************************************************)
(* stream_flow_async: a consumer iterates over the events of an AsyncDag   *)
(* run.  The run is a task of its own; a collector middleware puts its     *)
(* events on an unbounded queue, followed by a sentinel when the task      *)
(* ends.  A consumer that stops iterating cancels the task.                *)
(***************************************************************************)
EXTENDS AsyncDag

VARIABLES
  consumer,  \* reading, closing or closed
  taken,     \* events the consumer got
  mark       \* events queued before the sentinel; -1 before it is there

vars == <<dagVars, threads, consumer, taken, mark>>

NoMark == -1

SInit == Init /\ consumer = "reading" /\ taken = 0 /\ mark = NoMark

(* _runner's finally clause queues the sentinel.                           *)
Ends == IF pc' = "end" /\ mark = NoMark THEN Len(events') ELSE mark

Run == RunNext /\ mark' = Ends /\ UNCHANGED <<consumer, taken>>

Take ==
  /\ consumer = "reading" /\ taken < (IF mark = NoMark THEN Len(events) ELSE mark)
  /\ taken' = taken + 1
  /\ UNCHANGED <<dagVars, threads, consumer, mark>>

(* Variant: the sentinel is queued only when the run returned.             *)
SentinelIfReturned == mark # NoMark /\ taken = mark /\ exit # "raised"

SentinelNext == mark # NoMark /\ taken = mark

(* The iteration stops, or the run's exception is raised again.            *)
TakeSentinel ==
  /\ consumer = "reading" /\ SentinelNext
  /\ consumer' = "closed"
  /\ UNCHANGED <<dagVars, threads, taken, mark>>

(* break, aclose, or an exception in the consumer.                         *)
Abandon ==
  /\ consumer = "reading" /\ pc # "boundary"
  /\ consumer' = IF mark = NoMark THEN "closing" ELSE "closed"
  /\ UNCHANGED <<dagVars, threads, taken, mark>>

(* Variant: only the run's own coroutine is cancelled.                     *)
CancelledAlone == task

(* Cancelling gather cancels every task of the level.  A worker thread     *)
(* cannot be cancelled (tools.py:453): those of the level stay in threads. *)
CancelledTasks == [n \in Node |-> IF n \in Live THEN "cancelled" ELSE task[n]]

(* CancelledError is thrown at the await the run is suspended in; no       *)
(* handler below catches it, so each task ends without another event.      *)
TaskCancelled ==
  /\ consumer = "closing" /\ pc \in {"idle", "level"}
  /\ Escapes("aborted") /\ task' = CancelledTasks
  /\ mark' = Ends /\ consumer' = "closed"
  /\ UNCHANGED <<caps, lvl, seen, ctx, saved, token, threads, taken>>

(* The run ended by itself before the cancellation reached it.             *)
TaskDone ==
  /\ consumer = "closing" /\ pc = "end"
  /\ consumer' = "closed"
  /\ UNCHANGED <<dagVars, threads, taken, mark>>

WorkerEnds == (\E n \in Node : ThreadEnds(n)) /\ UNCHANGED <<dagVars, consumer, taken, mark>>

SNext == Run \/ Take \/ TakeSentinel \/ Abandon \/ TaskCancelled \/ TaskDone \/ WorkerEnds

Spec == SInit /\ [][SNext]_vars

(* The event loop serves every ready task, tools return, and the consumer  *)
(* keeps iterating until it abandons the stream.                           *)
FairSpec ==
  /\ Spec
  /\ WF_vars(Loop /\ mark' = Ends /\ UNCHANGED <<caps, consumer, taken>>)
  /\ WF_vars(Take \/ TakeSentinel) /\ WF_vars(TaskCancelled \/ TaskDone)

-----------------------------------------------------------------------------
TypeOK ==
  /\ caps \subseteq Node
  /\ pc \in {"idle", "boundary", "level", "end"} /\ lvl \in 1 .. Depth + 1
  /\ task \in [Node -> TaskState] /\ Cardinality(In("running")) <= Bound
  /\ seen \in [Node -> Context] /\ ctx \in Context
  /\ log \in Seq(Record) /\ events \in Seq([kind : EventKind, step : 0 .. N])
  /\ saved \in 0 .. Depth /\ token \in BOOLEAN /\ threads \subseteq SyncSteps
  /\ exit \in {"none", "success", "failure", "cancelled", "raised", "aborted"}
  /\ consumer \in {"reading", "closing", "closed"} /\ taken \in 0 .. Len(events)
  /\ mark \in {NoMark} \cup 0 .. Len(events)

At(i, kind, n) == events[i] = Event(kind, n)

(* What the consumer gets: flow_start first, flow_end last if at all, each *)
(* step_start before its step_end, and both before flow_end, although the  *)
(* steps of a level interleave; and flow_end before the iteration stops    *)
(* when the run gave a result, success or not.                             *)
StreamIsOrdered ==
  /\ \A i \in 1 .. taken :
       /\ i = 1 <=> At(i, "flow_start", 0)
       /\ At(i, "flow_end", 0) =>
            /\ i = taken
            /\ \A n \in Node : (\E j \in 1 .. i : At(j, "step_start", n)) =>
                                 \E j \in 1 .. i : At(j, "step_end", n)
       /\ \A n \in Node : At(i, "step_start", n) =>
            ~\E j \in 1 .. i : At(j, "step_end", n)
  /\ consumer = "closed" /\ exit \in {"success", "failure", "cancelled"} /\ taken = mark =>
       At(taken, "flow_end", 0)

(* When the consumer stops iterating while the run is going on, no step of *)
(* the run is left and none starts afterwards.  All that may outlive it    *)
(* are worker threads in the tool of a step that had started: none is      *)
(* added, and what they return changes nothing.                            *)
AbandonedRunStops ==
  /\ [](exit = "aborted" => Live = {} /\ consumer = "closed" /\ \A n \in threads : task[n] # "none")
  /\ [][exit = "aborted" => threads' \subseteq threads /\ UNCHANGED dagVars]_vars

(* Every stream ends.                                                      *)
StreamEnds == <>(consumer = "closed")

(* executor.py:3464: "cancel the backing run so it cannot outlive the      *)
(* stream."  Tasks only: the worker threads are left out of it.            *)
NothingOutlivesStream == consumer = "closed" => Live = {}
=============================================================================
