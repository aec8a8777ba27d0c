# ChainWeaver: a TLA+ model of the executor and what surrounds it

ChainWeaver compiles a chain of tool calls into a *flow* and executes it
deterministically. This directory holds TLA+ modules that model the parts of
the program whose correctness depends on order, failure and concurrency, the
TLC configurations that check them, and TLAPS proofs about all the modules it checks.
Paths below are relative to the repository's root, line numbers to the modelled
commit. `PROJECT.json` maps every definition to the lines it stands for.

## 1. The system

### Components

| Component | State it keeps | Operations | What makes it correct |
|---|---|---|---|
| Linear lane (`executor.py`, `_execution/context.py`) | context, log, step index, snapshot of the trace | `execute_flow`, `execute_flow_async`, `resume_flow`, `resume_flow_async` | log and context agree over every call of a trace; a checkpointed step never reruns; tools of different schemas are not mixed |
| DAG lane (`executor.py`, `flow/dag.py`) | level index, level records and outputs, skipped steps, snapshot per level | the same calls on a `DAGFlow` | steps run after what they depend on; routing skips exactly what it rules out; siblings do not clobber each other |
| Step pipeline (`executor.py`, `contracts.py`, `tools.py`, `cache.py`, `decisions.py`) | step cache, attempts, workers that outlive their timeout | decision, gate, guardrail, rehearsal, cache, invocation, retry, fallback, contract | no unapproved tool runs, no unsafe tool is retried, no late or outdated output is used |
| Async DAG levels and `stream_flow_async` | one task per step, a semaphore, an event queue, a consumer | `_run_dag_level_async`, the generator's `finally` | the log is the sequential one; the stream is ordered and ends; an abandoned run stops |
| Registry, storage, drift (`registry.py`, `storage.py`, `executor.py`) | stored versions, latest pointer, file digests, poller thread | register, update, delete, load, reload, watch, `register_tool`, `accept_drift` | the pointer is highest; drift is flagged on every version; the poller converges |
| Checkpointers (`checkpoint.py`) | a snapshot per trace id | save, load, delete | a save is atomic, so a crash leaves the snapshot before it |
| Cancellation | a token and a deadline | `cancel`, `_check_cancellation` | observed at step and level boundaries only |
| Sub-flows, run scope, replay, sync `stream_flow` (`executor.py`, `decisions.py`) | a stack of activations with a copied run scope, a decision count, recorded results, a worker thread with a queue | composed steps, `replay_flow`, `stream_flow` | events nest, nothing that ran is missing from the result, depth and decisions are bounded, a verdict of a replay is true |
| MCP client (`mcp/adapter.py`) | wrapped tools, pins | `discover_tools`, `build_pin_file` | no drifted tool is adopted, no contract is looser than the annotations |
| MCP server and security (`mcp/server.py`, `mcp/security.py`) | published flows, rate windows, audit trail | construction, `serve`, a call through the gate | what runs was cleared, in order, and within its window |
| Service, observer (`service.py`, `observer.py`) | open and completed traces, proposals, loop threads | record, analyse, approve, reject, run, stop | nothing is promoted unreviewed; one live proposal per name; a capped queue |
| Offline proposers (`compiler_llm.py`, `optimizer.py`, `_offline_llm.py`, `proposals.py`) | prompt plan, provider usage, drafts on disk | plan, invoke, repair, merge, write | prompts within budget, proposals about tools that were shown |
| Stores (`trace_store.py`, `cache.py`, `checkpoint.py`) | files shared by processes | save, delete, set, clear | no torn or foreign value is read; the log is capped and free of duplicates |
| Coding-agent traces (`traces.py`, `trace_redaction.py`) | a growing JSONL log | load, score, draft, backtest | a draft replays; support is what replays; no secret is shown |
| Compiler, analyzer, topology (`compiler.py`, `analyzer.py`, `flow/dag.py`) | none (pure) | `compile_flow`, `suggest_*`, `explain_flow` | what they accept or advise holds in a run |
| Editors (`opencode.py`, `claude.py`, `vscode.py`, `_agent_config.py`, `cli/`) | configuration files the user edits too, flow files, a trace sink | setup, revert, capture, promote, record, doctor | the user's entries survive; what a command reports is so |
| Evidence (`fuzz.py`, `attest.py`, `cli/`) | cases, failures, shrinking state | `fuzz`, `attest` | reports and exit codes say what the runs showed |
| Fixtures (`testing/replay.py`) | fixture file, session, cursors | `record_then_replay` | a replay serves what was recorded, in order |
| Export adapters, cost, visualisation, serialization | none of interest | | not modelled: see section 7 |

`PROJECT.json` lists all 36 components with what is left out of each and why,
and 40 hazards: what is hard to test in this code, at its line, with the
property that watches it.

### Interaction

A caller, an MCP request or the service calls `FlowExecutor.execute_flow`.
The executor asks the registry for the flow, runs the linear or the DAG loop,
hands each step to the step pipeline, merges what it returns into the context,
and after each step (linear) or level (DAG) writes a snapshot to the
checkpointer. Middleware is called back synchronously at `flow_start`,
`step_start`, `step_end`, `step_chunk` and `flow_end`; streaming is a
middleware that feeds a queue. The registry is shared between the executor,
the operator who edits it and the poller thread; it takes no lock. A tool with
a timeout runs on a thread or task that is abandoned, not stopped, when the
timeout passes.

Around the executor, the MCP client registers remote tools with it and the MCP
server publishes flows over them; the service records what an agent calls, mines
it and puts approved flows into the registry; the editors' hooks write the trace
log that the trace pipeline drafts flows from; the compiler and the analyzer judge
a flow before it runs, fuzz and attest after. These parts meet the executor only
through its public calls and through files, and each other through files.

### What is hard

* Crash, cancellation, failure and a failing save at any point, then resume in
  either lane, possibly after tools or flow versions changed.
* Siblings that run concurrently, finish in any order, clash on keys or raise.
* A consumer that stops reading while the run is anywhere.
* A timed-out attempt that returns during or after the retry.
* A scan that reads a file twice, aborts half way, or overlaps operator calls.
* A cancellation, a refusal or an exhausted budget several sub-flows deep.
* Analysis passes that work on copies while proposals are approved or rejected,
  and a second loop started while the first has not ended.
* A remote server that changes its tools between two discoveries, and calls that
  arrive at the edge of a rate window.
* Processes that share a directory and die between reading and replacing a file.
* Setups that stop half way over files the user keeps editing.

## 2. The modules

| Module | Models | Composes |
|---|---|---|
| `DurableRun` | abstract: steps attempted in order, each committed once | |
| `LinearRun` | the linear loops, resume, drift check | refines `DurableRun` |
| `LinearRunProofs`, `DagRunProofs`, `StepExecProofs`, `AsyncStreamProofs` | theorems about the module of that name (`AsyncStreamProofs`: also the `AsyncDag` it extends) | each extends its module |
| `EdgeProofs`, `PlatformProofs`, `FlowProofs`, `EvidenceProofs` | theorems about `McpClient`, `McpServer`, `Proposer`, `Editors` and `AgentTraces`; `Registry`, `Stores` and `Service`; `Compile`, `Analyzer` and `Composition`; `Fixtures` and `Evidence` | each extends those |
| `DagRun` | the sequential DAG loop, branches, per-level snapshots, resume | |
| `StepPromise` | abstract: what the loops rely on when they execute a step | |
| `StepExec` | the step pipeline of both lanes | refines `StepPromise` |
| `AsyncDag` | the async DAG lane: level tasks under a semaphore | |
| `AsyncStream` | `stream_flow_async` around an `AsyncDag` run | extends `AsyncDag` |
| `SeqParts` | sequences put end to end, the part of one that lies in a set | used by `Proposer`, `AgentTraces`, `Editors` |
| `Registry` | registry, store, scans, poller, drift operations | |
| `Composition` | nested runs, run scope, decision budget, replay, sync streaming | |
| `McpClient` | remote tools discovered, pinned and adopted | |
| `McpServer` | publication of flows and the request gate | extends `McpClient`: its flows use the adopted tools |
| `Service` | traces, mining, proposals, loops | |
| `Proposer` | prompt budget, provider, repair loop, drafts | |
| `Stores` | trace log, cache and checkpoint files under several processes | |
| `AgentTraces` | loading, scoring, drafting, backtesting of agent logs | |
| `Compile` | `compile_flow`, `validate_dag_topology` and a run of the same flow | |
| `Analyzer` | suggestions and `explain_flow` | extends `Compile`: advice against what compilation and a run do |
| `Editors` | editor configuration, hooks, capture, flow files | |
| `Fixtures` | `record_then_replay`: recording sessions, redacted fixtures, replay | |
| `Evidence` | fuzz and attest | `Fixtures` |
| `MC*` | instances for TLC; `MCPlatform` takes the last twelve together | extend the above |

### LinearRun

One trace id is followed through its first call and its resumes; every
`execute_flow` draws a fresh id, so runs meet only there. `pc` is where the call
is: `boundary` (top of the loop), `tool` (a step dispatched), `save` (output
merged, snapshot owed), `result` and `flowend` (`_make_result`). A context
value is the step that wrote it, which is all that merging, collision and
resume can confuse. `Start`/`StartInvalid` are the two outcomes of flow-level
input validation; `Cancel`, `FailBeforeTool`, `Dispatch`, `StepFails`,
`StepSucceeds`, `MergeRaises`, `Save`, `SaveFails`, `Invalid`, `Complete`,
`MakeResult` and `FireFlowEnd` follow the loop in the order of the code.
`Resume` takes the drift checks of `_load_snapshot_for_resume`. The lanes differ
where the code differs: the async one does not validate `context_schema`, and
neither resume consults the collision policy or a cancellation token.
`RegisterTool`, `RegisterFlow` and `SetStatus` are the operator, between calls.
What a step returns is `Returns`, the set `StepPromise` allows.

### DagRun

Steps are numbered in the order they are logged and `First` marks where levels
begin, so the topology is a constant checked by `GraphAssumption`. `outs` and
`recs` are `level_outputs` and `level_records`, which reach context and log only
when the level is over. Branch predicates are a free choice among the declared
targets. `chosen` is a history variable that the properties about routing need.

### StepExec

One action per stage, in the order of the code. An attempt is an entry of
`worker` that can end long after the step gave up on it. `Begin` chooses lane,
rehearsal and replay; the executor's configuration `ex` is chosen in `Init`.
`approved` and `produced` are history. Inputs are not modelled: two executions
whose cache keys agree have the same input.

### AsyncDag and AsyncStream

What lies between two awaits is one step, because the event loop runs it
without interruption. `task[n]` is the coroutine of step n; `Turn` is the
semaphore, first come, first served; `LevelRaises` is `gather` without
`return_exceptions`. In `AsyncStream` the sentinel's position `mark` is the
number of events before it; `Abandon` and `TaskCancelled` are the generator's
`finally`. A consumer can abandon only while the run is suspended, so `Abandon`
is not possible at `boundary`. A sync tool runs in a worker thread
(`asyncio.to_thread`) that no cancellation reaches (`tools.py:453`): `threads` holds the
steps of `SyncSteps` whose thread is still in its tool. The thread ends when its step does,
stays behind a timed-out attempt (`ThreadLeft`) or a cancelled task, and then ends on its
own (`ThreadEnds`). Mapping, collision and save errors are one
nondeterministic `ProcessRaises`: `DagRun` has their conditions.

### Registry

One flow name, since names share nothing but the store. `Rank` is PEP 440 order
and may give two spellings one rank. The body of a flow is the number of the
edit that wrote it. A call copies a flow, saves, and moves the pointer in
separate steps; saving and reading the old pointer are one step, since only the
write can lose an update. A scan reads each file twice (`ReadBytes`,
`LoadFile`), as the code does. `Restart` rebuilds the registry over the same
`FileStore`. The tool snapshot has one tool. One scan runs at a time.

### Composition

One executor answers a sequence of calls. A frame of `frames` is one activation of
`_execute_flow_impl` with its copy of the run-scoped state; a record keeps how many tool
steps it stands for, its own or those of its sub-result at every depth, so that what a
result says of the whole tree can be compared with what ran (`tape`, `tally`,
`effects`). `Paths(f)` are the chains of sub-flows that the nested `visit` of
`_validate_composition` follows, none longer than the depth limit allows. `EnterSubflow`
takes the checks of a nested `execute_flow` again, because flows may be re-registered or
leave ACTIVE under a run (`Reregister`, `LeaveActive`). `Diffs` compares what
`_compute_diffs` sees of an output (`Shown`): a failed step's `None` and an output in
`BlankOutputs`, which holds nothing that `dict.get` tells from an absent field, are
alike. `CheckCancellation`, `Unwinds` and `ReraiseSubflowCancellation` follow the
exception up. `ambient` is the decision count that `resume_flow` leaves behind, since it
opens no run scope. The worker thread of `stream_flow` is `worker`, its generator
`reader`. All flows are linear and each step's output is a member of `Outputs`; retries,
contracts and schemas belong to `StepExec` and `LinearRun`.

### McpClient and McpServer

A remote tool is its schema and its annotations, and `RemoteChange` alters them at
any time. `DiscoverTools(kept)` is a whole `discover_tools` call: names, filters,
pins, contracts, registration, with an error leaving what the code leaves. In the
server `Construct` decides once which flows are published, `Serve` and `Stop` are
its life, `Dispatch` is the gate (authenticate, rate limit, authorize) with the
start of the run, since no await separates them, and `Finish` the reply, any number
of steps later. `HandleSchemaDrift` changes a flow's status in between. Time is
`ticks`, and only differences between ticks are used.

### Service and Proposer

A thread of `Service` takes a copy (`TakeSnapshot`), queues its candidates one by
one (`QueueProposal`, under the lock, hence one step) and approves what it created.
`Loops` bounds the background threads that `Run` may start; `StopService` forgets a
loop that may still be alive. In `Proposer` the provider answers any member of
`Completions`: a proposed flow is the `tool_name` of each step (`uses`) and whatever its
fallbacks, decision candidates and sub-flows name (`others`), which nothing looks up;
tokens are the small numbers of `PCost`.

### Stores, AgentTraces, Editors

A write is two steps, the temporary file and the replacement, and a read-modify-write
three; a process may stop between any two. `intended` is the log that atomic operations
would have left. A line of an agent log is a record of what the pipeline looks at;
equality of values is all that redaction has to keep. A configuration file in `Editors`
is its server map, its hook entries and whether it parses; `mine` is what the user last
left there. A flow file parses or not (`loads`), and one that parses may have a version
or a graph that `register_flow` refuses (`registers`): one such file ends `serve`. The
flow directory is the server's or, when it is relative and `opencode setup` runs outside
the workspace (`away`), another one. One command runs at a time, as a user types them.

### Compile, Analyzer, Evidence, Fixtures

A plan is put together step by step from `StepChoices`, compiled, and run in every order
its dependencies allow, which includes the order of levels. A field carries a
declaration, and a value is the declaration of the field it comes from: `FieldType` says
of a declaration what annotation is `written` and which type the compiler has `kept` of
it (`T` of `Optional[T]`, `list` of `list[T]`, nothing of another union). Where both
declarations are `Plain` (what is kept is all there is) validation follows from the
types; any other value, a literal, and what lies under a pointer's first token is
accepted or not as the environment chooses, and a pointer's nested value may be absent.
The caller may leave out the optional inputs. `StepFields` is what the compiler believes
a step sees. The analyzer's suggestions are judged by the compiler's own definitions and
by the run; `SubFlowDeclared` are the fields of a sub-flow's `output_schema`, which is
what `explain_flow` projects of a composed step. In `Evidence` a run is a function of
its input (`bad`), unless faults are injected.

In `Fixtures` a decorated test is its redaction policy and its lane; it opens one
session at a time, makes calls (`made`), which overlap on the async lane and, through
a flow wrapped as a tool, contain others, and completes or raises. A value is a name
and whether a masked key is in it. `blurred` collects the keys whose recorded calls a
fixture cannot tell apart or does not hold: calls that raised, overlapped or were made
inside a wrapped flow.

## 3. The runs

Run with `tlc -config <cfg> <module>`. "Pass" runs have no error; "violation"
runs show that the code does not do what a sentence of the repository says.

| Run | Instance | Shows |
|---|---|---|
| `linear_run` | 2 steps, 3 keys, 2 hashes, 2 versions, 2 resumes, 2 registrations | log, context, snapshot agree; no mixed schemas; refines `DurableRun`; calls end |
| `linear_policy` (violation) | 2 steps writing one key, 1 resume | a resumed run ignores `on_context_collision="error"` |
| `dag_run` | 5 steps, 3 levels, two branching roots, 3 resumes | levels, routing, siblings, snapshots; calls end |
| `dag_routes` (violation) | 5 steps, 3 levels, 2 resumes | a resumed run executes deselected steps |
| `step_run` | 3 kinds of step, 2 in a row, 4 executors, 2 schemas | gate, retry safety, timeouts, rehearsal, cache, contract, event bracket; refines `StepPromise` |
| `step_contract` (violation) | the same steps | a fallback's output escapes the output contract |
| `async_stream` | 4 steps, 3 siblings, 2 permits, one composed step | sequential log, ordered stream, abandonment |
| `async_outlives` (violation) | the same | siblings outlive the stream when one raises |
| `registry` | 3 versions (2 equal), 2 files, 2 hashes, 4 edits or calls, 2 starts | pointer, restart, drift, convergence |
| `registry_reload` (violation) | 1 version, 2 files, 5 edits with reverts | a reload takes changed content for unchanged for ever |
| `platform` | the twelve modules around the executor, one at a time (1,360,511 states) | each keeps its promise (below) |
| `resume_budget` (violation) | 2 flows, 1 decision, 2 calls | a resumed flow is aborted for decisions it never made |

### The properties

`linear_run`. **LogTellsTheRun**: the log names each step once and in order
over all calls. **ContextMatchesLog**: the context holds exactly what the logged
steps contributed. **SnapshotSound**: the snapshot is consistent and at most one
step behind. **NoMixedSchemas**: a completed run used the tools registered at its
end. **RefinesDurableRun**, **EveryCallEnds**. `TypeOK` and
`NeverRerunCheckpointed` are not in the run: they are proved (section 4).

`dag_run`. **LogFollowsOrder**, **ContextMatchesLog**, **SnapshotSound**,
**EveryCallEnds** as above, level by level;
**SkippedIffRuledOut**: in a run that is not resumed exactly the steps routing
rules out are recorded as skipped; **SiblingsDisjoint**: no two siblings both
write a key of a context the run goes on with; **DispatchedInTurn**: a step is
dispatched after everything it depends on and never again once checkpointed.

`step_run`. **NothingRunsUnapproved**, also when it is the fallback, and nothing at
all in a rehearsal; **UnsafeInvokedOnce**, **LateResultIsDiscarded**,
**RefinesStepPromise**, **EveryStepEnds**; **CacheIsSound**: what the cache serves was returned by that
tool under that schema; **ContractKept**, also on a hit another step stored;
**EventsBracketed**.

`async_stream`. **LevelsAreSequential**: the log is the sequential lane's and
siblings read one context; **StreamIsOrdered**, with `flow_end` delivered to who
reads to the end; **AbandonedRunStops**: when the stream has closed on an abandoned run, no
task is left and the run changes nothing any more, and the worker threads left in a tool
only become fewer; **StreamEnds**.

`registry`. **LatestIsHighest** and **RestartKeepsLatest** for the pointer,
**NoSilentDrift** for tool replacement, **Converges** for the poller.
`LatestIsHighest` assumes that the operator keeps its calls out of the scans
(`Serial`). The documented contract (`executor.py:706`, `registry.py:333`) keeps
mutations out of executions and is silent about two mutations at once; with `Serial = FALSE` TLC finds two
overlapping `_touch_latest` calls that lose the higher version. `Converges`
assumes that no earlier content is put back (`Reverts`) and that no two files
ever claim one version: a pass registers files one by one and forgets what it
did when a later file aborts it, so without either assumption a file can be
taken for unchanged while something else is served.

`platform`. The modules it takes together share no variable and no step, so a
behaviour of all of them is one behaviour of each; `focus` picks the one that moves,
and the others keep one initial state. That replaces ten runs and loses nothing.

* **ComposedRunIsSound**: `flow_start` and `flow_end` nest; every step that ran is in
  the result, at its depth, also when a cancellation came up through several
  sub-flows; no activation is deeper than `max_composition_depth`; a dry run has no
  effects in any sub-flow; `VERIFY` passes no failed replay of a successful run, as far
  as the replayed log reaches and unless the step that failed had returned nothing to
  compare with (section 5); a stream that is read to its
  end has every event and its generator never closes before its thread ended.
* **AdoptionIsGuarded**: under `on_drift="error"` a pinned tool is adopted only with the
  pinned schema; no contract is looser than the annotations it came from.
* **ServedIsCleared**: a call runs only after every configured hook allowed it, in the
  gate's order; on a server that was not forced, no step of a flow without a contract of
  its own goes beyond some allowed side-effect level while its tools are the ones the
  server was built with; a client that wraps the published tools reads no
  looser contract; nobody on a network reads an error's text unasked; a window counts
  every permit its caller got and never exceeds `max_calls`, whatever is evicted, and no
  span of one window's length sees more than `2 * max_calls`.
* **PromotionIsGoverned**: one live proposal per name, a capped queue, every flow in the
  registry approved or somebody else's, a true `flows_promoted`, whatever loops
  interleave; collapsing subsumed sequences loses none.
* **ProposalsAreGrounded**: prompts stay within the budget and show the selected tools
  once and in order; the `tool_name` of every step of a kept proposal is a tool its own
  prompt showed (not what its fallbacks, candidates and sub-flows name); calls stay within
  repairs, retries and the ceiling; index, flows and provenance agree.
* **StoresAreConsistent**: the log holds each trace once, newest last, within the cap, and
  is what atomic operations would have left while none overlapped; no key reads what
  another stored, even if their names sanitise alike.
* **DraftsReplay**: a load keeps which secrets were equal and shows none; a draft
  reproduces its window; a sequence called safe reads only and its support is what a
  backtest replays.
* **CompiledFlowsResolve**: a run of a flow that compiles without errors never ends for an
  absent key, required field or first token of a pointer, in any order and through any
  fallback, provided that every input was given, no step was skipped and no fallback lacks
  an output of its tool; nor for a mapped value of the wrong type, provided further that
  the flow is plainly typed (`PlainlyTyped`), no key was written twice and no fallback
  changed a type. The compiler promises nothing beyond that (section 5).
* **AdviceIsSafe**: suggested flows compile, suggested mappings serve, nobody but the flow's
  own output schema reads what a dead step wrote, parallel pairs do not need each other, and
  a linear flow that `explain_flow` calls resolvable finds every key it maps, except those
  its sub-flow declares and does not deliver.
* **EditsAreSafe**: the user's servers and hooks are what the user left; what a command
  announced is in the files, and OpenCode is served the tools it was told of, provided that
  the registry accepts every flow file, no flow has two versions and setup read the
  directory the server reads; what a revert leaves is the user's; every captured line
  is one the loader accepts.
* **EvidenceIsTrue**: a shrunk input is a reduction that still fails, minimal unless the
  rounds ran out; exit code 0 of fuzz and attest means what it says. A replay answers
  the n-th call of a tool with an input by what the n-th such call of the recorded test
  returned; a test that raised leaves the fixture alone; a fixture holds no secret
  unless redaction is off.

### Why the bounds are enough

Two linear steps are the least in which a snapshot, a resumed step and a later step
differ; two resumes let a snapshot written by a resumed run be resumed. Three DAG levels
give a level before, at and after the snapshot, and two branching roots let one deselect
what the other selects. Two attempts let a late result meet a retry. Three siblings
under two permits give one queued, one running and one finished at once; of the siblings
some have sync tools and some async ones. Two files and four edits let a pass abort
after it registered something and be repaired.

In `platform`: three flows nest to the depth limit, close a cycle or call a missing one;
three calls let a resume follow a run and a replay follow both; of two outputs one is
blank. Two remote tools share a sanitised name and two discoveries let the server change
in between; three calls, a window of two ticks and a table of one identity reach the
full window, the expired one and the eviction. Two loops and the agent's thread analyse
at once, with a queue of two. Three tools and budgets around their sizes give one, two
and three batches. Two processes and three operations overlap in every way. Four log
lines give two windows of a pair. Three steps give a diamond's worth of dependency, a
branch and a fallback; the fields are of plain types, an optional one and one the
compiler keeps no type of. Three commands let a setup follow the user's edit of an
earlier one. Shrinking needs fewer than its three rounds on two keys (the code's default
is 50). Two sessions of two calls record and replay a repeated call, a call inside a
wrapped flow and an overlap. Counters (`resumes`, `edits`, `starts`, `calls`, `steps`,
chunks, schema versions) are bounded by the constants named `Max...`. `linear_run` and
`dag_run` keep the snapshot after success (`DeleteOnSuccess = FALSE`), which leaves more
to resume; `linear_policy` and `dag_routes` delete it, and the proofs cover both. No
symmetry is used: keys, steps and versions all play different parts.

### Fairness and deadlock

`WF(Advance)` in `LinearRun`, `DagRun` and `StepExec`: the interpreter goes on executing
a call that it began. Tools return: a tool that may hang has a timeout, and `StepExec`
asks `WF(ToolReturns)` of the latest worker only. `AsyncStream` has weak fairness of the
event loop, of the reading consumer and of the cancellation it owes. The modules of
`platform` are checked for safety only. `Registry` has weak fairness of a call in
progress and of the poller, whose thread scans again after every
`poll_interval_seconds`. Nothing is owed by callers, operators, editors, crashes or
cancellations, so the system may stop when no call is in progress and the bounds are
used up: `CHECK_DEADLOCK FALSE` says that and only that. That a call in progress never
stops is what `EveryCallEnds`, `EveryStepEnds` and `StreamEnds` check.

### Variants

An operator marked "Variant:" stands before the definition it deviates from: what
that code would be with a plausible bug, such as a dropped guard, an off-by-one or
a wrong order. No specification uses it. For each property of a passing run,
`PROJECT.json` names a definition and the variant that replaces it; with that
replacement TLC finds the property violated. That shows the property is sensitive
to the code it is about.

## 4. The proofs

Every theorem holds for all values of the constants that satisfy the named `ASSUME`s
of its module. These give the constants their types and say what constructors,
validators and `_compute_dag_levels` guarantee; TLC evaluates them in each run.

| Theorem | States | Needs |
|---|---|---|
| `LinearRunProofs!TypeCorrect`, `LogCorrect`, `ContextCorrect`, `SnapshotCorrect` | `[]TypeOK`, `[]LogTellsTheRun`, `[]ContextMatchesLog`, `[]SnapshotSound` | `IInv` |
| `LinearRunProofs!NeverReruns`, `VersionNeverChanges` | `NeverRerunCheckpointed`, `OneFlowVersion` | `IInv` |
| `LinearRunProofs!SchemasNeverMix` | `[]NoMixedSchemas` | `SchemaInv` |
| `LinearRunProofs!Refinement` | `RefinesDurableRun` | `IInv` |
| `DagRunProofs!DagTypes`, `DagLogFollowsOrder`, `DagContextMatchesLog`, `DagSnapshotSound` | `[]TypeOK`, `[]LogFollowsOrder`, `[]ContextMatchesLog`, `[]SnapshotSound` | `Typed`, `LogInv`, `ContextInv`, `KeepsUp` |
| `DagRunProofs!DagDispatchesInTurn` | `DispatchedInTurn` | `LogInv` |
| `DagRunProofs!DagSiblingsDisjoint` | `[]SiblingsDisjoint` | `DisjointInv` |
| `DagRunProofs!DagSkipsRuledOut` | `[]SkippedIffRuledOut` | `RouteInv` |
| `StepExecProofs!StepTypes`, `StepUnsafeOnce`, `StepDiscardsLate`, `StepCacheSound`, `StepContract` | `[]TypeOK`, `[]UnsafeInvokedOnce`, `[]LateResultIsDiscarded`, `[]CacheIsSound`, `[]ContractKept` | `StepInv`, `Bound`, `Issued`, `Held` |
| `StepExecProofs!StepGated` | `NothingRunsUnapproved` | `GateInv` |
| `StepExecProofs!StepEvents` | `[]EventsBracketed` | `EventInv` |
| `StepExecProofs!StepKeepsPromise` | `RefinesStepPromise` | `Kept` |
| `AsyncStreamProofs!AsyncTypes` | `[]TypeOK`, with the bound on concurrent steps | `Typed` |
| `AsyncStreamProofs!AsyncLevelsSequential`, `AsyncStreamOrdered`, `AsyncAbandonedStops` | `[]LevelsAreSequential`, `[]StreamIsOrdered`, `[]AbandonedRunStops` | `TaskInv`, `LogInv`, `SeenInv`, `EventInv` |
| `PlatformProofs!RegistryTypes` | `[]TypeOK` | `Typed` |
| `PlatformProofs!RegistryLatest`, `RegistryRestart` | `Serial => []LatestIsHighest`, `RestartKeepsLatest` | `PointerInv` |
| `PlatformProofs!RegistryDrift` | `NoSilentDrift` | `DriftInv` |
| `PlatformProofs!ServiceGoverned` | `[]PromotionIsGoverned` | `QueueInv`, `Traced` |
| `EdgeProofs!ClientAdopts`, `ServerAdopts` | `[]AdoptionIsGuarded`, of the client alone and inside the server | `ClientInv` |
| `EdgeProofs!ServerCleared` | `[]ServedIsCleared` | `ServerInv`, `LimitInv` |
| `PlatformProofs!StoresConsistent` | `[]StoresAreConsistent` | `StoresInv` |
| `FlowProofs!CompiledFlowsRun` | `[]CompiledFlowsResolve` | `CompileInv` |
| `FlowProofs!AdviceSafe` | `[]AdviceIsSafe` | `RunInv`, `SuggestedInv` |
| `FlowProofs!ComposedRunSound` | `[]ComposedRunIsSound` | `CompositionInv` |
| `EdgeProofs!ProposerGrounded` | `[]ProposalsAreGrounded` | `ProposerInv` |
| `EdgeProofs!EditsSafe` | `[]EditsAreSafe` | `EditorsInv` |
| `EdgeProofs!DraftsAreReplayed` | `[]DraftsReplay` | `TracesInv` |
| `EvidenceProofs!EvidenceTrue` | `[]EvidenceIsTrue` | `EvidenceInv`, `FxInv` |

None of the properties is inductive by itself; TLC checked each inductive invariant
before it was proved. What each argument rests on:

**Linear lane.** `LogTellsTheRun` after a resume needs that the snapshot's log is
that of `done` completed steps; `ContextMatchesLog` needs the same of its context;
that a saved snapshot is consistent needs log and context of the running call; that a
resume starts at the right step needs the snapshot's place. `IInv` is therefore their
conjunction with `ControlInv` (what `pc` says of `exit`, `mode` and `idx`),
`SnapshotPlace` (`store.done = idx - 1`, or the snapshot was deleted at the end) and
`Dispatched` (the step in hand was attempted). `StepIInv` has a step per action;
`FrameIInv` covers the actions that touch nothing `IInv` reads and `RaiseIInv` the
exceptions. `AppendCompleted` and `AppendMatches` say what one more record and one
more merge do. The refinement maps `frontier` to `store.done`, or to `N` once the loop
is past the last step, so that deleting the snapshot is a stutter; `Save` is `Commit`
and `Dispatch` is `Attempt`. `SchemaInv` carries hashes: recorded hashes are those of
the snapshot, and those of the registered tools while a call runs, which is what the
drift check re-establishes.

**DAG lane.** Log and context are behind within a level: `Gathered` says that the
records of the level in hand continue the log, `Outputs` that `level_outputs` holds for
each key the last step of the level that wrote it. `KeepsUp` places the snapshot: one
level behind until the level in hand is saved. `DisjointInv` adds to `SiblingsDisjoint`
that the stored log has the property, for a resume starts from it. For routing, `RuledOut` is the
least set closed under `RulesOut`, and `Propagated` says that `skipped_ids` agrees with
it on every step that has a record: later levels can rule out no step of an earlier
one, because targets and dependencies cross levels upwards (`GraphAssumption`).

**Step pipeline.** A worker outlives its step, so the invariants speak of workers:
`Counted` and `Bound` say which attempt each one is and which tool it runs, `Issued`
under which schema, `Held` what a cached or fresh output is, and `GateInv` that every
way to a tool passed the gate. `Kept` is what the refinement of `StepPromise` needs: a
step ends with an outcome that its `on_error` allows.

**Async lane and stream.** `TaskInv` says which tasks may be under way, `Told` and
`InOrder` that the log is in step order although tasks end in any, `SeenInv` what
context each task was handed, `ThreadInv` that only a step which had its turn has a worker
thread, `EventInv` how far the stream is for each task and where
the sentinel may stand.

**Registry.** Between `save` and `_touch_latest` of one call or scan a stored version may
outrank the pointer, but only the version just saved, and the pointer is still the one the
call has read (`PointerInv`). Two overlapping moves break that, which is why the theorem
assumes `Serial`: that the operator's calls and the scans do not overlap (section 3).
`DriftInv` follows `register_tool` through the versions: each one whose snapshot names
another schema is still to be visited, in hand, or out of service, although an overlapping
scan may store others meanwhile; it needs no `Serial`.

**Service.** `OneEach` and `Counted` hold over the queue whatever the candidates are, so
the part about the queue does not depend on the mining. The part about mining takes a
longest sequence among those that contain a given one and occur as often; containment is
transitive (`PartOfPart`).

**MCP.** `LimitInv` follows the limiter. `Tracked` is that an entry counts the permits
since its window began, that the window's length before it held no more than the limit,
and that nothing was given after its end; `Forgotten` is the same of a caller without an
entry, whom a sweep or a long pause removed. A span of one window's length therefore
meets at most two windows (`PermitsSplit`). `ServerInv` says what a built server exposes
(`ExposedWithin`), that a network transport tightened the mode nobody chose
(`ModeTightened`), and that each call was cleared under the arguments the server was
built with. `HintsRoundTrip` is the lemma about publishing a contract as hints and
reading it back.

**Proposers.** What a call plans is computed by recursive functions over the catalogue;
`EstimateUnfolds`, `PickedUnfolds`, `PackedUnfolds` and `ConcatUnfolds` say what one more
tool does, and `PlannedMeans` follows: the batches of a plan that does not overflow fit the
budget (the largest estimate does, `WithinBudget`), and put together they are the
selected tools in order (`PackedMeans`), or a prefix of them when truncated. `ProposerInv`
carries that plan (`Planned`) through the call. `Grounded` ties a kept proposal to the prompt
it answered and survives merging (`MergedKeeps`): the first of a name stays. `Attempts`
follows what the prompts before cost and this one so far, with the repairs and retries it
has used, and says that retries go on only below the ceiling, since it is asked before the first attempt
alone. `ProposerAssumption` says that the catalogue is not empty (the
callers return before planning otherwise, `compiler_llm.py`, `optimizer.py`) and that the
proposal about a new tool has no budget.

**Stores.** `Ordered` of the log alone is not inductive: what a process is about to write
was read earlier, so `LogOrdered` says it of every buffer in hand too, with a bound on the
revisions it holds (a later save's revision is above it). `Alone` is why nothing is lost
while no two operations overlap: one process at most has read the log, and its buffer is
the outcome of its operation on the log as it still is. `FilesKeyed` needs that two keys
never share a path (`PathsDiffer`): the digest of the original name is part of it.
`WithoutMeans` and `SavedMeans` say what taking a trace out and saving one make of an
ordered log; the first unfolds a recursive function line by line (`KeptExists`,
`KeptIsOne`).

**Compiler and analyzer.** What the compiler believes a step sees is a recursive function
of the plan (`StepFields`); `FieldsAt` unfolds it step by step and `SeenFrom` says that
every field it holds was in the input or contributed by a step this one waits for.
`CtxInv` is the other half: as long as every input was given and nothing was skipped, the
context of a run holds what each finished step promised and delivers (`Delivers`), in the
promised type when nothing was written twice; and its values are plain if the flow is
plainly typed. `CompiledFlowsRun` brings them
together for any order the dependencies allow. The steps of a plan are `StepChoices`,
whose dependencies are numbers and whose inputs are keys, pointers or literals
(`CompileAssumption`: the flow models validate both). For the analyzer, `ChainsAt`
unfolds the search of `find_chains`, `Suggestible` is what every chain satisfies, and
`SuggestedInv` that a suggested plan comes from one.

**Nested runs.** The counts are the hard part: `EveryStepCounts` says that `tally` is the
number of tool steps in all logs on the stack (`Made`) and in the log an unwinding
cancellation carries (`Carried`), so a sub-flow may hand its log up in one step, wherever
it ends. `ReadersFollow` says the same of events: who reads the tape takes those flows to
be open that are on the stack. `FollowsReferences` keeps the stack a chain of references
from the root, on which the composition was validated; `resume_flow` and
`_replay_linear_from` validate nothing, so the stack is bounded after them only because an
earlier call validated the root and nobody has edited the registry since, and the
invariant says that. `StaysDry`, `ReaderFollowsWorker`, `StackMatchesCall` and
`ResultsAreTrue` (a recorded success has no failed step) are the rest of `CompositionInv`.
Registered bodies are sequences (`CompositionAssumption`).

**Evidence and fixtures.** `Tried` is what makes a shrunk input minimal: no reduction
tried in this pass of an unchanged round violates the property. For fixtures the log and
the calls of a test are compared turn by turn (`Turns`: the how-manieth call of its key).
`RecordedInv` says that the log of a key that never raised, overlapped or ran inside a
flow has an entry for each of its calls but the one in flight; `SourceInv` carries it to
the fixture, through the redaction; `PlayedInv` says that a cursor has passed as many
entries of a key as there were calls, so a replay answers each turn with the recorded one.

**Editors.** `OutcomeIsTrue` speaks of the state a command leaves, `UserConfigSurvives` of
every later one; `EditorsInv` joins them and adds that every file is one (`IsFile`) whose
user's part is what the user last left there, that the plugin file holds nothing of the
user's, and that the sink holds only lines the loader takes. A setup is two commands in a
row. The first writes hook files and the second the config, so the proof shows of each what
it establishes and which files it leaves (`ObservedMeans`, `ExposedMeans` and the same of a
revert), and that writing the config does not move it: `opencode.json`, `opencode.jsonc` and
`.opencode.json` are tried in turn, and the file found before a write is the file found
after it (`McpPathStays`). A second setup replaces ChainWeaver's hook and leaves those of the
user, since what is filtered out and appended again leaves what was there (`HooksStay`).
`EditorsAssumption` says that the user's texts parse to an object, to something else, or not
at all, that only an object holds servers and hooks, and that a call gives every option: the
values the constants stand for, as `json.loads` and typer return them.

**Agent traces.** `TracesInv` says that every loaded event is its line redacted under one
table, and that this table gives each secret an ordinal of its own (`IsTable`,
`MaskedMeans`); the table is a recursive function over the secrets of the whole file
(`NumberedUnfolds`). Lines logged after a load only extend the file, so the events still
match it. That a draft replays needs the first window to exist (`FirstWindow`: sessions are
ordered by their first event), and the last clause that windows found by name and windows of
tool calls are the same when no model call has a tool's name (`NamesAgree`); that nine in ten
of fewer than ten is all of them is arithmetic on cardinalities (`AllSucceeded`).
`AgentTracesAssumption` says that a line is a tool call, a model call or no event, with
finitely many arguments, as `json` delivers them.

Largest and last elements of finite sets (a newest version, a longest sequence, the last of
two tools of one name) come from the well-foundedness of finite subsets, since induction
theorems cannot be used with these provers; `UpTo` (what holds of 0 and of the next holds of
all) is obtained from them, and recursive functions are unfolded with it.

The proofs corrected the models too. `ReplayVerdictIsTrue` was stated without its scope and
held only because two calls were too few to reach the replay that breaks it; `Composition`
now has three. Some `CASE` arms overlapped, so that their order, which TLA+ does not define,
decided.

Every invariant and every action property of the passing runs is a theorem, and so are
the two refinements. Only model-checked: liveness (`EveryCallEnds`, `EveryStepEnds`,
`StreamEnds`, `Converges`), since TLAPS proves neither fairness nor ENABLED.

## 5. Where the code and its words part

The violation runs show, with the sentence quoted in `PROJECT.json`:

1. `_resume_linear_flow` merges without the collision policy (`linear_policy`).
2. A resumed DAG forgets `skipped_ids` (`dag_routes`).
3. A fallback's output is merged unchecked by the contract (`step_contract`).
4. Siblings of a raising step outlive the stream (`async_outlives`).
5. A reload can serve stale content for ever (`registry_reload`).
6. The synchronous `resume_flow` opens no run scope (`executor.py:3816`; the async one
   does at 3897), so the decisions of one resume count against the next
   (`resume_budget`).

Met while modelling, and not the subject of a run:

* `events.py:23` promises `flow_end`; merge and save exceptions
  (`executor.py:1775`) and an exhausted decision budget (4577) leave without it,
  and so does a parent whose async sub-flow was cancelled (3536).
* `resume_flow` looks neither at the flow's status nor at its composition
  (`executor.py:3844`, `flow/definitions.py:23`).
* A decision budget, a status or a composition error inside a sub-flow leaves the
  parents without `flow_end`, though `stream_flow` says "always"; a flow re-registered
  during a run makes the nested validation raise. `_count_composed_tool_steps` counts a
  sub-flow's validation record as a tool.
* `_compute_diffs` (`executor.py:1355`) stops at the end of the log that is replayed. When
  the replay fails in a step beyond it (the result came from a replay that began at a later
  step, or the flow has grown since), `all_steps_match` is true of a failed replay.
* The async lane never validates `context_schema` (`executor.py:2148`,
  `flow/definitions.py:128`).
* A skipped step with an `output_mapping` raises `OutputMappingError`
  (`_execution/context.py:71`, against `executor.py:5443`).
* `resume_snapshot` is copied into a sub-flow's scope (`executor.py:206`).
* A sub-flow step whose inputs cannot be mapped fires neither `step_start` nor
  `step_end` (4703).
* `with_replaced_tools` (1093) drops the approval callback, `strict_safety`, the
  ceiling and the guardrail, though it says it "preserves every executor-level
  setting".
* `on_error` is ignored for capability steps; the guardrail is not asked about a
  fallback tool.
* The docstring of `_execute_dag_flow_async` (2170) calls the lane sequential.
* Snapshots name no hash of a fallback or decision candidate, and a flow
  overwritten under the same version is not noticed on resume. Two resumes of one
  trace are not coordinated. A crash inside a sub-flow leaves its snapshot behind; a
  crash between the snapshot's deletion and `flow_end` loses the result.
* The poller survives only `FlowSerializationError`: an invalid version, a cyclic
  DAG, a file deleted during the scan or undecodable bytes end its thread, against
  the comment at `registry.py:432` ("rather than killing the poller").
* `FileStore.list_keys` sorts by file name ("1.0.0" before "1.0"), unlike
  `InMemoryStore`, though `storage.py:74` promises one order.
* A reload resets a flow's status and tool hashes; `register_tool` turns DISABLED
  into NEEDS_REVIEW; `delete_flow` leaves the pointer where it was; the first
  registration of a tool after a restart raises no drift.
* A sync tool's worker thread goes on after its step was cancelled and the stream has closed
  (`tools.py:453-458`), with any side effect the tool still has, though `executor.py:3464`
  says the run "cannot outlive the stream". What it returns is dropped.
* `_compute_diffs` reads `outputs or {}` field by field (`executor.py:1366-1372`), so a step
  that now fails and once returned nothing, or only nulls, shows no difference and
  `all_steps_match` can be true of a failed replay. A skipped step's outputs are `{}`.
* Service: an exception while approving automatically (`service.py:398`) ends the loop
  thread; after `stop(timeout)` gave up, `run` starts a second loop beside the first.
* MCP server: exposure is decided once (`server.py:314`), so a flow that leaves ACTIVE
  stays listed and is refused by the executor; the readiness report calls a stricter
  error mode relaxed (`security.py:575`). With an active version 1 and a draft version 2
  `serve` shows the draft. `docs/cookbook/claude-code-recipe.md:119` says that only
  active flows are exposed; `cli/run.py:225` exposes reviewed ones too.
* Proposers: an error in a late batch loses the earlier proposals, a repair prompt may
  exceed the token budget, and an unsafe name half way leaves drafts without an index
  (`compiler_llm.py:272`). By the comment at `compiler_llm.py:226-229` "a proposal naming
  an unshown tool" must be rejected; 416-420 look up `tool_name` alone, and a fallback in
  `on_error`, the `decision_candidates` and a sub-flow may name anything.
* Files: `FileStepCache.clear` (`cache.py:229`) raises when another process removed a
  file it listed; a process that dies leaves its temporary file; concurrent savers of
  the trace log lose traces, which its documentation allows.
* Traces: `score_candidate` counts model calls that carry a tool name, `backtest_flow`
  does not.
* Compiler: `on_error="skip"`, fallbacks with other outputs and composed steps can leave
  a compiled flow short of a key (hence the conditions of `CompiledFlowsResolve`). So can a
  pointer whose root is there and whose nested token is not (`compiler.py:428-447` against
  `_pointer.py:82-113`), and an optional input the caller leaves out. `_get_field_type`
  (`compiler.py:93-119`) keeps `T` of `Optional[T]`, the origin of a generic and nothing of
  another union, and no constraint: a value it calls compatible may be refused.
  `explain_flow` projects the `output_schema` a sub-flow declares (`executor.py:1440-1443`)
  without the step's `output_mapping` and with fields the sub-flow may leave out, so it may
  call a key resolvable that is not. CW003 (`analyzer.py:633-653`) does not look at the
  flow's own `output_schema`: a step it calls safe to remove may be the only one to write a
  field of it.
  Analyzer: CW002 and CW003 ignore JSON pointers, output mappings and composed steps;
  an empty automatic mapping passes the whole context on; `explain_flow` projects the
  outputs of siblings of one DAG level onto each other.
* Editors: `cli/run.py:210` says a bad file is "skipped rather than aborting", but
  `register_flow` is outside the `try` (224): a file that parses and has an invalid version
  or graph (`registry.py:239-242`) aborts `serve`, while `opencode setup` has listed the
  flows as exposed (`cli/opencode.py:200-220`). `opencode setup` reads a relative
  `--flows-dir` in its own working directory (239-278), the other two in the workspace.
  `setup --observe --flows` applies the first part when the second refuses; a
  second write replaces the `.bak` of the first; a revert removes a hook entry with the
  user's own command in it; a hook in both settings files captures twice; an entry in
  `opencode.jsonc` is orphaned when `opencode.json` appears; an odd time stamp in an
  OpenCode event raises out of the command.
* Evidence: `fuzz --minimize` with injected faults raises out of the command and loses the
  remaining failures, and so does a case that raises; `attest --seed-input []` attests
  nothing with exit code 0; a shared step cache makes an attestation vacuous.
* Fixtures: inputs are redacted in the fixture but not when matching, so a call with a
  secret in its input is always stale on replay; a call that raised is not recorded and
  is stale too; calls inside a wrapped flow, and overlapping calls with one input, are
  served in the order in which they returned; `run_streaming` passes by both patches.

## 6. Plan

Models that could follow: a DAG as the sub-flow of a resumed DAG, which inherits the
snapshot of its parent (`executor.py:206`); two processes that resume one trace;
`_compute_dag_levels` against the longest path; a crash between backup and write of a
configuration file.

## 7. Not modelled

* Serialization and JSON Schema export, export adapters, visualisation, logging: formats.
  What the system decides by them (a file parses or not, a version is valid or not, two
  schemas have one hash or not) is a value of the models.
* Of the compiler: decision candidates, field aliases and extra fields; a step contract that
  refuses an output is a failure of the tool.
* Cost: arithmetic on floating-point prices without state.
* Framework adapters (LangChain, LlamaIndex, OpenTelemetry, contextweaver): translation to
  third-party libraries. Of the agent kernel, a capability step is in `DagRun`.
* The testing package apart from `record_then_replay`: fakes, assertions and suites.
* Commands that only parse arguments and print; HTTP and stdio transports of the server.
* Backoff delays, wall-clock durations and metrics: no property tells them apart.
* `evaluate_predicate` and prompts: a free choice of the outcome covers every text.
