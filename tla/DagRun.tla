-------------------------------- MODULE DagRun --------------------------------
(***************************************************************************)
(* One DAGFlow run of FlowExecutor's sync lane (_execute_dag_flow),        *)
(* followed through failure, crash, cancellation and resume.               *)
(*                                                                         *)
(* Steps run level by level in topological order; a level's outputs are    *)
(* merged after its last step, and a snapshot is written per level.  A     *)
(* step with branches deselects the dependents it does not route to.  As   *)
(* in LinearRun the module follows one trace id and a context value is the *)
(* step that wrote it; the drift guards of resume_flow are LinearRun's.    *)
(***************************************************************************)
EXTENDS Integers, Sequences

CONSTANTS
  N,                \* number of steps, numbered in the order they are logged
  First, Depth,     \* level l of _compute_dag_levels is First[l] .. First[l + 1] - 1
  Deps,             \* Deps[n]: depends_on
  Targets,          \* Targets[n]: branch targets and default_next of n
  HasDefault,       \* HasDefault[n]: n declares default_next
  Capability,       \* steps with step_type="capability"
  KernelBacked,     \* the executor is a KernelBackedExecutor
  Key, In, Out, FallbackOut, Mapped, OnError, Policy,   \* as in LinearRun
  Dynamic, InputReq, OutputReq, CtxReq, DeleteOnSuccess,
  MaxResumes        \* bound: calls of resume_flow on the trace

Node  == 1 .. N
Level == 1 .. Depth
Dependents(n) == {m \in Node : n \in Deps[m]}

(* validate_dag_topology and the validators of DAGFlowStep.                *)
ASSUME GraphAssumption ==
  /\ N \in Nat /\ Depth \in Nat
  /\ First \in [1 .. Depth + 1 -> 1 .. N + 1]
  /\ First[1] = 1 /\ First[Depth + 1] = N + 1
  /\ \A l, m \in 1 .. Depth + 1 : l < m => First[l] < First[m]
  /\ Deps \in [Node -> SUBSET Node]
  /\ \A l \in Level : \A n \in First[l] .. First[l + 1] - 1 :
       Deps[n] \subseteq 1 .. First[l] - 1
  /\ Targets \in [Node -> SUBSET Node]
  /\ \A n \in Node : Targets[n] \subseteq Dependents(n)
  /\ HasDefault \in [Node -> BOOLEAN]
  /\ \A n \in Node : HasDefault[n] => Targets[n] # {}
  /\ Capability \subseteq Node /\ KernelBacked \in BOOLEAN
  /\ \A n \in Capability : Targets[n] = {}

ASSUME StepAssumption ==
  /\ In \in [Node -> SUBSET Key]
  /\ Out \in [Node -> SUBSET Key]
  /\ FallbackOut \in [Node -> SUBSET Key]
  /\ Mapped \in [Node -> BOOLEAN]
  /\ OnError \in [Node -> {"fail", "skip", "fallback"}]
  /\ Policy \in {"overwrite", "warn", "error"}
  /\ Dynamic \subseteq Key
  /\ InputReq \subseteq Key /\ OutputReq \subseteq Key /\ CtxReq \subseteq Key
  /\ DeleteOnSuccess \in BOOLEAN /\ MaxResumes \in Nat

VARIABLES
  pc,        \* where the call is: see Place
  mode,      \* "none" before the first call, then "execute" or "resume"
  lvl,       \* the level the loop is at (absolute_level_idx + 1)
  at,        \* the step of the level in hand
  given,     \* keys of initial_input
  ctx,       \* the execution context
  log,       \* the execution log
  recs,      \* level_records
  outs,      \* level_outputs, as key -> writer
  skipped,   \* skipped_ids
  exit,      \* how the latest call ended, or will end
  cancel,    \* the deadline passed or the token was cancelled
  store,     \* the snapshot of this trace
  runs,      \* runs[n]: how often step n's tool has been dispatched
  resumes,
  chosen     \* history: the branch target each step selected

vars == <<pc, mode, lvl, at, given, ctx, log, recs, outs, skipped, exit, cancel,
          store, runs, resumes, chosen>>

Place == {"idle", "boundary", "step", "tool", "save", "result", "flowend"}
Exit  == {"none", "success", "failure", "cancelled",
          "collision", "mapping", "saveerror", "crashed", "refused"}
Ran       == {"ok", "fallback", "skipped"}    \* the step ran and succeeded
Succeeded == Ran \cup {"deselected"}
Outcome   == Succeeded \cup {"failed", "invalid"}

Absent   == -1
Initial  == 0
NoTarget == 0
Context  == [Key -> Absent .. N]
Record   == [step : 0 .. N, res : Outcome]

EmptyContext == [k \in Key |-> Absent]
NoSnapshot   == [done |-> 0, ctx |-> EmptyContext, log |-> <<>>]
Has(c, keys) == \A k \in keys : c[k] # Absent
SeedContext(g) == [k \in Key |-> IF k \in g \cup Dynamic THEN Initial ELSE Absent]
Rec(n, r)    == [step |-> n, res |-> r]
Validation   == Rec(0, "invalid")

Produced(n, r) ==
  CASE r = "ok"       -> Out[n]
    [] r = "fallback" -> FallbackOut[n]
    [] OTHER          -> {}
MappingRaises(n, r) == Mapped[n] /\ ~(Out[n] \subseteq Produced(n, r))
Contribution(n, r)  == IF Mapped[n] THEN Out[n] ELSE Produced(n, r)

-----------------------------------------------------------------------------
Init ==
  /\ pc = "idle" /\ mode = "none" /\ lvl = 1 /\ at = 1
  /\ given = {} /\ ctx = EmptyContext /\ log = <<>>
  /\ recs = <<>> /\ outs = EmptyContext /\ skipped = {}
  /\ exit = "none" /\ cancel = FALSE
  /\ store = NoSnapshot /\ runs = [n \in Node |-> 0] /\ resumes = 0
  /\ chosen = [n \in Node |-> NoTarget]

(* execute_flow on a DAGFlow, up to the level loop.                        *)
Start(g) ==
  /\ pc = "idle" /\ mode = "none"
  /\ mode' = "execute" /\ given' = g
  /\ \/ /\ InputReq \subseteq g
        /\ pc' = "boundary" /\ ctx' = SeedContext(g)
        /\ UNCHANGED <<log, exit>>
     \/ /\ ~(InputReq \subseteq g)
        /\ pc' = "result" /\ exit' = "failure" /\ log' = <<Validation>>
        /\ UNCHANGED ctx
  /\ UNCHANGED <<lvl, at, recs, outs, skipped, cancel, store, runs, resumes, chosen>>

-----------------------------------------------------------------------------
(* The level loop.                                                         *)

(* _resume_dag_flow passes neither deadline nor token.                     *)
CancelDue == mode = "execute" /\ cancel

(* Cancellation is checked between levels only.                            *)
Cancel ==
  /\ pc = "boundary" /\ lvl \in Level /\ CancelDue
  /\ pc' = "result" /\ exit' = "cancelled"
  /\ UNCHANGED <<mode, lvl, at, given, ctx, log, recs, outs, skipped, cancel, store,
                 runs, resumes, chosen>>

BeginLevel ==
  /\ pc = "boundary" /\ lvl \in Level /\ ~CancelDue
  /\ pc' = "step" /\ at' = First[lvl] /\ recs' = <<>> /\ outs' = EmptyContext
  /\ UNCHANGED <<mode, lvl, given, ctx, log, skipped, exit, cancel, store, runs,
                 resumes, chosen>>

InLevel == at < First[lvl + 1]

(* Variant: one skipped predecessor is enough.                             *)
AnyDeadPath(n) == Deps[n] \cap skipped # {}

(* Skip propagation: no live path reaches a step all of whose predecessors *)
(* are skipped.                                                            *)
NoLivePath(n) == Deps[n] # {} /\ Deps[n] \subseteq skipped

SkipStep ==
  /\ pc = "step" /\ InLevel
  /\ at \in skipped \/ NoLivePath(at)
  /\ skipped' = skipped \cup {at}
  /\ recs' = Append(recs, Rec(at, "deselected"))
  /\ at' = at + 1
  /\ UNCHANGED <<pc, mode, lvl, given, ctx, log, outs, exit, cancel, store, runs,
                 resumes, chosen>>

Selected == pc = "step" /\ InLevel /\ at \notin skipped /\ ~NoLivePath(at)

(* The level is cut short: the records gathered so far and this one reach  *)
(* the log, the level's outputs do not reach the context.                  *)
Abort(record) ==
  /\ log' = log \o Append(recs, record)
  /\ pc' = "result" /\ exit' = "failure"
  /\ UNCHANGED <<mode, lvl, at, given, ctx, recs, outs, skipped, cancel, store, runs,
                 resumes, chosen>>

(* The base executor rejects capability steps, KernelBackedExecutor sends  *)
(* them to its kernel.  Inputs come from the context: what siblings of the *)
(* level produced is not in it yet.                                        *)
Resolvable(n) == (n \in Capability => KernelBacked) /\ Has(ctx, In[n])
FailBeforeTool == Selected /\ ~Resolvable(at) /\ Abort(Rec(at, "failed"))

Dispatch ==
  /\ Selected /\ Resolvable(at)
  /\ runs' = [runs EXCEPT ![at] = @ + 1]
  /\ pc' = "tool"
  /\ UNCHANGED <<mode, lvl, at, given, ctx, log, recs, outs, skipped, exit, cancel,
                 store, resumes, chosen>>

(* on_error applies to tool steps; a capability step never retries,        *)
(* skips or falls back.                                                    *)
Returns(n) ==
  {r \in Ran :
     \/ r = "ok"
     \/ r = "skipped" /\ OnError[n] = "skip" /\ n \notin Capability
     \/ r = "fallback" /\ OnError[n] = "fallback" /\ n \notin Capability}

StepFails == pc = "tool" /\ Abort(Rec(at, "failed"))

Raise(why) ==
  /\ pc' = "idle" /\ exit' = why
  /\ log' = <<>> /\ ctx' = EmptyContext /\ recs' = <<>> /\ outs' = EmptyContext
  /\ UNCHANGED <<mode, lvl, at, given, skipped, cancel, store, runs, resumes, chosen>>

MapRaises(r) ==
  /\ pc = "tool" /\ r \in Returns(at) /\ MappingRaises(at, r)
  /\ Raise("mapping")

(* Variant: siblings' keys are not compared.                               *)
NeverConflicts(n, r) == FALSE

(* Two steps of a level produced the same key.                             *)
Conflicts(n, r) == \E k \in Contribution(n, r) : outs[k] # Absent

SiblingConflict(r) ==
  /\ pc = "tool" /\ r \in Returns(at) /\ ~MappingRaises(at, r)
  /\ Conflicts(at, r)
  /\ Abort(Rec(at, "failed"))

(* _select_branch raises PredicateSyntaxError: the step's record becomes a *)
(* failed one, in place.                                                   *)
BranchFails(r) ==
  /\ pc = "tool" /\ r \in Returns(at) /\ ~MappingRaises(at, r)
  /\ ~Conflicts(at, r) /\ Targets[at] # {}
  /\ Abort(Rec(at, "failed"))

(* _select_branch: the first predicate that holds of the context, or       *)
(* default_next, or nothing.                                               *)
Routes(n) == Targets[n] \cup (IF HasDefault[n] THEN {} ELSE {NoTarget})

Deselected(n, t) == IF t = NoTarget THEN {} ELSE Dependents(n) \ {t}

StepSucceeds(r, t) ==
  /\ pc = "tool" /\ r \in Returns(at) /\ t \in Routes(at)
  /\ ~MappingRaises(at, r) /\ ~Conflicts(at, r)
  /\ recs' = Append(recs, Rec(at, r))
  /\ outs' = [k \in Key |-> IF k \in Contribution(at, r) THEN at ELSE outs[k]]
  /\ skipped' = skipped \cup Deselected(at, t)
  /\ chosen' = [chosen EXCEPT ![at] = t]
  /\ pc' = "step" /\ at' = at + 1
  /\ UNCHANGED <<mode, lvl, given, ctx, log, exit, cancel, store, runs, resumes>>

(* The level's last step is done: the records reach the log, the outputs   *)
(* the context, unless the collision policy forbids it.  DAG runs honour   *)
(* the policy when resumed, too.                                           *)
LevelDone == pc = "step" /\ ~InLevel
Collides == Policy = "error" /\ \E k \in Key : outs[k] # Absent /\ ctx[k] # Absent

(* Variant: the level's outputs take the place of the context.             *)
MergeReplaces(c, o) == o

Merge(c, o) == [k \in Key |-> IF o[k] # Absent THEN o[k] ELSE c[k]]

MergeLevel ==
  /\ LevelDone /\ ~Collides
  /\ log' = log \o recs /\ ctx' = Merge(ctx, outs)
  /\ recs' = <<>> /\ outs' = EmptyContext
  /\ pc' = "save"
  /\ UNCHANGED <<mode, lvl, at, given, skipped, exit, cancel, store, runs, resumes, chosen>>

LevelCollides == LevelDone /\ Collides /\ Raise("collision")

(* Variant: the snapshot is written before the level's records arrive.     *)
SnapshotEarly == [done |-> lvl, ctx |-> ctx, log |-> store.log]

Snapshot == [done |-> lvl, ctx |-> ctx, log |-> log]

Save ==
  /\ pc = "save"
  /\ store' = Snapshot
  /\ lvl' = lvl + 1 /\ pc' = "boundary"
  /\ UNCHANGED <<mode, at, given, ctx, log, recs, outs, skipped, exit, cancel, runs,
                 resumes, chosen>>

SaveFails == pc = "save" /\ Raise("saveerror")

-----------------------------------------------------------------------------
Valid == Has(ctx, OutputReq) /\ Has(ctx, CtxReq)

Invalid ==
  /\ pc = "boundary" /\ lvl = Depth + 1 /\ ~Valid
  /\ log' = Append(log, Validation)
  /\ pc' = "result" /\ exit' = "failure"
  /\ UNCHANGED <<mode, lvl, at, given, ctx, recs, outs, skipped, cancel, store, runs,
                 resumes, chosen>>

(* Variant: a resumed run never gets to its result.                        *)
CompleteExecuted ==
  /\ pc = "boundary" /\ lvl = Depth + 1 /\ Valid /\ mode = "execute"
  /\ pc' = "result" /\ exit' = "success"
  /\ UNCHANGED <<mode, lvl, at, given, ctx, log, recs, outs, skipped, cancel, store,
                 runs, resumes, chosen>>

Complete ==
  /\ pc = "boundary" /\ lvl = Depth + 1 /\ Valid
  /\ pc' = "result" /\ exit' = "success"
  /\ UNCHANGED <<mode, lvl, at, given, ctx, log, recs, outs, skipped, cancel, store,
                 runs, resumes, chosen>>

MakeResult ==
  /\ pc = "result"
  /\ store' = IF DeleteOnSuccess /\ exit = "success" THEN NoSnapshot ELSE store
  /\ pc' = "flowend"
  /\ UNCHANGED <<mode, lvl, at, given, ctx, log, recs, outs, skipped, exit, cancel,
                 runs, resumes, chosen>>

FireFlowEnd ==
  /\ pc = "flowend" /\ pc' = "idle"
  /\ UNCHANGED <<mode, lvl, at, given, ctx, log, recs, outs, skipped, exit, cancel,
                 store, runs, resumes, chosen>>

-----------------------------------------------------------------------------
Crash == pc # "idle" /\ Raise("crashed")

(* Variant: the level before the snapshot is replayed.                     *)
ResumeLevelBefore == IF store.done > 1 THEN store.done ELSE store.done + 1

ResumeLevel == store.done + 1

(* _resume_dag_flow: context, log and level come from the snapshot;        *)
(* skipped_ids starts empty.  The drift guards are in LinearRun.           *)
Resume ==
  /\ pc = "idle" /\ mode # "none" /\ resumes < MaxResumes /\ store.done > 0
  /\ mode' = "resume" /\ pc' = "boundary" /\ exit' = "none"
  /\ ctx' = store.ctx /\ log' = store.log
  /\ lvl' = ResumeLevel
  /\ skipped' = {} /\ recs' = <<>> /\ outs' = EmptyContext
  /\ chosen' = [n \in Node |-> IF n >= First[store.done + 1] THEN NoTarget ELSE chosen[n]]
  /\ resumes' = resumes + 1
  /\ UNCHANGED <<at, given, cancel, store, runs>>

RefuseResume ==
  /\ pc = "idle" /\ mode # "none" /\ resumes < MaxResumes /\ store.done = 0
  /\ exit' = "refused" /\ resumes' = resumes + 1 /\ log' = <<>> /\ ctx' = EmptyContext
  /\ UNCHANGED <<pc, mode, lvl, at, given, recs, outs, skipped, cancel, store, runs,
                 chosen>>

RequestCancel ==
  /\ pc # "idle" /\ mode = "execute" /\ ~cancel /\ cancel' = TRUE
  /\ UNCHANGED <<pc, mode, lvl, at, given, ctx, log, recs, outs, skipped, exit, store,
                 runs, resumes, chosen>>

-----------------------------------------------------------------------------
Advance ==
  \/ Cancel \/ BeginLevel \/ SkipStep \/ FailBeforeTool \/ Dispatch \/ StepFails
  \/ \E r \in Ran : MapRaises(r) \/ SiblingConflict(r) \/ BranchFails(r)
  \/ \E r \in Ran, t \in 0 .. N : StepSucceeds(r, t)
  \/ MergeLevel \/ LevelCollides \/ Save
  \/ Invalid \/ Complete \/ MakeResult \/ FireFlowEnd

Next ==
  \/ \E g \in SUBSET Key : Start(g)
  \/ Advance
  \/ SaveFails \/ Crash \/ Resume \/ RefuseResume \/ RequestCancel

Spec == Init /\ [][Next]_vars

(* Tools return, and the interpreter keeps executing the call.             *)
FairSpec == Spec /\ WF_vars(Advance)

-----------------------------------------------------------------------------
(* Properties.                                                             *)

Running == pc \in {"boundary", "step", "tool", "save"}
Built   == ~Running /\ exit \in {"success", "failure", "cancelled"}

(* Every variable stays in its set: neither the level nor the position in  *)
(* it leaves the graph.                                                    *)
TypeOK ==
  /\ pc \in Place /\ mode \in {"none", "execute", "resume"}
  /\ lvl \in 1 .. Depth + 1 /\ at \in 1 .. N + 1 /\ given \subseteq Key
  /\ ctx \in Context /\ log \in Seq(Record)
  /\ recs \in Seq(Record) /\ outs \in Context /\ skipped \subseteq Node
  /\ exit \in Exit /\ cancel \in BOOLEAN
  /\ store \in [done : 0 .. Depth, ctx : Context, log : Seq(Record)]
  /\ runs \in [Node -> Nat] /\ resumes \in Nat
  /\ chosen \in [Node -> 0 .. N]

(* The records of l are those of the steps 1 .. n, all successful.         *)
Completed(l, n) ==
  /\ Len(l) = n
  /\ \A i \in 1 .. n : l[i].step = i /\ l[i].res \in Succeeded

(* The number of steps in the levels before level l.                       *)
Before(l) == First[l] - 1

(* Record i of l wrote k into the context.                                 *)
Wrote(l, i, k) == l[i].res \in Ran /\ k \in Contribution(i, l[i].res)

(* Each key of c holds the value of its latest writer in l, or its initial *)
(* value.                                                                  *)
Matches(g, c, l) ==
  \A k \in Key :
    \/ /\ c[k] \in 1 .. Len(l) /\ Wrote(l, c[k], k)
       /\ \A j \in 1 .. Len(l) : j > c[k] => ~Wrote(l, j, k)
    \/ /\ c[k] = SeedContext(g)[k]
       /\ \A j \in 1 .. Len(l) : ~Wrote(l, j, k)

(* The log holds one record per step, at the step's flat index, over all   *)
(* the calls of a trace and whatever is skipped: whole levels while the    *)
(* run proceeds, and up to the step that failed in a failed result.        *)
LogFollowsOrder ==
  /\ pc \in {"boundary", "step", "tool"} \/ (Built /\ exit = "cancelled") =>
       Completed(log, Before(lvl))
  /\ Built /\ exit = "success" => Completed(log, N)
  /\ Built /\ exit = "failure" =>
       /\ log # <<>> /\ log[Len(log)].res \notin Succeeded
       /\ \A i \in 1 .. Len(log) - 1 : log[i].res \in Succeeded
       /\ \A i \in 1 .. Len(log) : log[i].step \in {0, i}

(* What a step reads, and what the caller gets, is what the logged steps   *)
(* contributed, merged level by level, across crashes and resumes.         *)
ContextMatchesLog ==
  Running \/ (Built /\ exit = "success") => Matches(given, ctx, log)

(* A stored snapshot covers whole levels: its log has exactly the records  *)
(* of the completed levels and its context is the one they build.          *)
SnapshotConsistent ==
  store.done > 0 =>
    /\ Completed(store.log, Before(store.done + 1))
    /\ Matches(given, store.ctx, store.log)

(* While a call runs, and in every failed or cancelled result, exactly the *)
(* levels before the one in hand are in the snapshot: a crash inside a     *)
(* level loses that level only.                                            *)
SnapshotKeepsUp ==
  (Running /\ pc # "save") \/ (Built /\ exit \in {"failure", "cancelled"}) =>
    store.done = lvl - 1

(* What a resume relies on: the snapshot is consistent and keeps up.       *)
SnapshotSound == SnapshotConsistent /\ SnapshotKeepsUp

(* A step of a checkpointed level is never dispatched again, and a step is *)
(* dispatched only when every step it depends on has a successful record   *)
(* in the log, so its outputs are in the context.                          *)
DispatchedInTurn ==
  [][\A n \in Node : runs'[n] # runs[n] =>
       /\ n >= First[store.done + 1]
       /\ \A d \in Deps[n] : d <= Len(log) /\ log[d].step = d /\ log[d].res \in Succeeded]_vars

(* A predecessor of n chose another step.                                  *)
RoutedElsewhere(n) == \E d \in Deps[n] : chosen[d] \notin {NoTarget, n}

(* R holds each step that a predecessor routed around, and each step all   *)
(* of whose predecessors are in R.                                         *)
RulesOut(R) ==
  \A n \in Node :
    RoutedElsewhere(n) \/ (Deps[n] # {} /\ Deps[n] \subseteq R) => n \in R

(* The steps that branch routing rules out in the run so far: the least    *)
(* such set.                                                               *)
RuledOut == {n \in Node : \A R \in SUBSET Node : RulesOut(R) => n \in R}

(* In a run that is not resumed, exactly the steps that routing rules out  *)
(* are recorded as skipped, whatever the order of branching siblings.      *)
SkippedIffRuledOut ==
  mode = "execute" =>
    \A i \in 1 .. Len(log) : log[i].step = i =>
      (log[i].res = "deselected" <=> i \in RuledOut)

(* Two steps of a level never both contribute a key to a context that the  *)
(* run goes on with: the result does not depend on the order of siblings.  *)
SiblingsDisjoint ==
  (Running \/ (Built /\ exit = "success")) =>
    \A l \in Level : \A i, j \in First[l] .. First[l + 1] - 1 : \A k \in Key :
      i < j /\ j <= Len(log) => ~(Wrote(log, i, k) /\ Wrote(log, j, k))

(* Every call that is begun ends, in a result or in an exception.          *)
EveryCallEnds == (pc # "idle") ~> (pc = "idle")

(* flow/dag.py:50: "Non-selected immediate dependents are skipped".        *)
RoutesHonoured ==
  [][\A n \in Node : runs'[n] # runs[n] =>
       \A d \in Deps[n] : chosen[d] \in {NoTarget, n}]_vars
=============================================================================
