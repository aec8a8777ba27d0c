------------------------------- MODULE Service -------------------------------
(***************************************************************************)
(* ChainWeaverService: an agent's tool calls are recorded as traces, mined *)
(* for repeated sequences, and queued as proposals an operator approves or *)
(* rejects.  Analysis runs on the agent's thread, whenever a tool is       *)
(* registered, and on background loops; it works on copies taken under the *)
(* service lock and takes the lock again for each candidate.               *)
(***************************************************************************)
EXTENDS Integers, Sequences, FiniteSets, SequencesExt

CONSTANTS
  ServiceTools,    \* tool names
  MinOccurrences, MinLength, MaxTraces,
  ScoreNum, ScoreDen,   \* min_determinism_score
  MaxPending,
  AutoApprove,     \* auto_approve_deterministic
  LlmFlows,        \* flows the offline LLM proposes; {} when it is off
  Loops,           \* background threads run() may start: 1..N
  MaxSteps,        \* tool calls of the agent
  MaxActs          \* calls of the operator

(* suggest_flows and ServiceConfig refuse a smaller length or cap.         *)
ASSUME ServiceAssumption ==
  /\ MinLength \in Nat \ {0}
  /\ MaxPending \in Nat \ {0}
  /\ MaxSteps \in Nat

VARIABLES
  open,       \* the observer's open trace, <<>> when there is none
  traces,     \* its completed traces
  monitored,      \* tools registered with the service
  proposals,  \* proposals in creation order
  flowNames,  \* names in the flow registry
  outside,    \* those of them registered by somebody else
  promoted,   \* metrics.flows_promoted
  thread,     \* thread -> pc, candidates left, the proposal being approved
  current,    \* _thread: the loop is_running looks at, 0 for None
  stopping,   \* the _stop event
  steps, acts \* work of the agent and of the operator so far

serviceVars == <<open, traces, monitored, proposals, flowNames, outside, promoted, thread,
                 current, stopping, steps, acts>>

Threads == Loops \cup {0}      \* 0 is the agent's own thread
Idle == [pc |-> "idle", left |-> <<>>, id |-> 0]

ServiceInit ==
  /\ open = <<>> /\ traces = <<>>
  /\ monitored = {}
  /\ proposals = <<>>
  /\ flowNames = {} /\ outside = {} /\ promoted = 0
  /\ thread = [t \in Threads |-> Idle]
  /\ current = 0 /\ stopping = FALSE
  /\ steps = 0 /\ acts = 0

------------------------------------------------------------------------------
(* ChainObserver: n-gram counting over the completed traces.               *)

Positions(trace, p) ==
  {i \in 1..(Len(trace) - Len(p) + 1) : SubSeq(trace, i, i + Len(p) - 1) = p}
Occurrences(ts, p) == Cardinality({x \in (DOMAIN ts) \X (1..MaxSteps) :
                                     x[2] \in Positions(ts[x[1]], p)})
TracesWith(ts, p) == Cardinality({n \in DOMAIN ts : Positions(ts[n], p) # {}})
PatternsFrom(trace, i) == {SubSeq(trace, i, j) : j \in (i + MinLength - 1)..Len(trace)}
Patterns(ts) == UNION {UNION {PatternsFrom(ts[n], i) : i \in DOMAIN ts[n]} : n \in DOMAIN ts}
Qualifying(ts) == {p \in Patterns(ts) : Occurrences(ts, p) >= MinOccurrences}
CollapseSubsumed(ts) ==
  {p \in Qualifying(ts) : \A q \in Qualifying(ts) :
     ~(/\ Len(p) < Len(q) /\ Positions(q, p) # {}
       /\ Occurrences(ts, q) = Occurrences(ts, p))}

(* A candidate: the flow's name, where it came from and whether its        *)
(* confidence reaches the threshold and 1.                                 *)
Candidate(name, good, sure) == [name |-> name, good |-> good, sure |-> sure]
SuggestFlows(ts) ==
  LET score(p) == TracesWith(ts, p)
      total(p) == TracesWith(ts, <<p[1]>>)
      before(p, q) == \/ Occurrences(ts, p) > Occurrences(ts, q)
                      \/ Occurrences(ts, p) = Occurrences(ts, q) /\ Len(p) >= Len(q)
      ps == SetToSortSeq(CollapseSubsumed(ts), before)
  IN  [i \in DOMAIN ps |->
         Candidate(<<"suggested">> \o ps[i],
                   score(ps[i]) * ScoreDen >= total(ps[i]) * ScoreNum,
                   score(ps[i]) = total(ps[i]))]

(* ChainAnalyzer is another component: here every pair of registered tools *)
(* chains.  Its flows have confidence 1, the LLM's less.                   *)
AnalyzerFlows(ts) ==
  IF Cardinality(ts) < MinLength THEN <<>>
  ELSE LET chains == {c \in ts \X ts : c[1] # c[2]}
       IN  [i \in DOMAIN SetToSeq(chains) |->
              Candidate(<<"chain">> \o SetToSeq(chains)[i], TRUE, TRUE)]
LlmProposals(ts) ==
  IF ts = {} THEN <<>>
  ELSE [i \in DOMAIN SetToSeq(LlmFlows) |-> Candidate(<<"llm", SetToSeq(LlmFlows)[i]>>, TRUE, FALSE)]

------------------------------------------------------------------------------
(* The agent's thread.  A call that analyses keeps it until it is done.    *)

Record(t) ==
  /\ thread[0].pc = "idle" /\ steps < MaxSteps
  /\ open' = Append(open, t)
  /\ steps' = steps + 1
  /\ UNCHANGED <<traces, monitored, proposals, flowNames, outside, promoted, thread, current,
                 stopping, acts>>

EndTrace ==
  /\ thread[0].pc = "idle" /\ open # <<>>
  /\ traces' = LET ts == Append(traces, open)
               IN  IF Len(ts) > MaxTraces THEN Tail(ts) ELSE ts
  /\ open' = <<>>
  /\ UNCHANGED <<monitored, proposals, flowNames, outside, promoted, thread, current,
                 stopping, steps, acts>>

RegisterServiceTool(t) ==
  /\ thread[0].pc = "idle" /\ steps < MaxSteps
  /\ monitored' = monitored \cup {t}
  /\ thread' = [thread EXCEPT ![0].pc = "observer"]
  /\ steps' = steps + 1
  /\ UNCHANGED <<open, traces, proposals, flowNames, outside, promoted, current, stopping,
                 acts>>

------------------------------------------------------------------------------
(* One analysis on any thread: three passes, each over a snapshot.         *)

NextPass(pc) == CASE pc = "observer" -> "analyzer" [] pc = "analyzer" -> "llm" [] pc = "llm" -> "done"
Snapshot(pc) == CASE pc = "observer" -> SuggestFlows(traces)
                  [] pc = "analyzer" -> AnalyzerFlows(monitored)
                  [] pc = "llm" -> LlmProposals(monitored)

TakeSnapshot(t) ==
  /\ thread[t].pc \in {"observer", "analyzer", "llm"}
  /\ thread' = [thread EXCEPT ![t] = [pc |-> NextPass(@.pc), left |-> Snapshot(@.pc), id |-> 0]]
  /\ thread[t].left = <<>> /\ thread[t].id = 0
  /\ UNCHANGED <<open, traces, monitored, proposals, flowNames, outside, promoted, current,
                 stopping, steps, acts>>

(* Variant: only the registry is asked.                                    *)
IsRegistered(name) == name \in flowNames
IsKnown(name) == \/ \E i \in DOMAIN proposals : /\ proposals[i].name = name
                                               /\ proposals[i].status # "rejected"
                 \/ name \in flowNames
Pending == {i \in DOMAIN proposals : proposals[i].status = "pending"}
Accepted(c) == c.good /\ ~IsKnown(c.name) /\ Cardinality(Pending) < MaxPending

QueueProposal(t) ==
  /\ thread[t].left # <<>> /\ thread[t].id = 0
  /\ LET c == Head(thread[t].left)
     IN  /\ proposals' = IF Accepted(c)
                         THEN Append(proposals, [name |-> c.name, status |-> "pending"])
                         ELSE proposals
         /\ thread' = [thread EXCEPT ![t].left = Tail(@),
              ![t].id = IF Accepted(c) /\ AutoApprove /\ c.sure THEN Len(proposals) + 1 ELSE 0]
  /\ UNCHANGED <<open, traces, monitored, flowNames, outside, promoted, current, stopping,
                 steps, acts>>

(* approve: promotes a pending proposal; a flow registered meanwhile is    *)
(* not counted.                                                            *)
Promote(i) ==
  /\ proposals' = [proposals EXCEPT ![i].status = "approved"]
  /\ flowNames' = flowNames \cup {proposals[i].name}
  /\ promoted' = IF proposals[i].name \in flowNames THEN promoted ELSE promoted + 1

(* The automatic approval comes after PROPOSAL_CREATED was emitted, so a   *)
(* callback or the operator may have settled the proposal: approve then    *)
(* raises out of the analysis, to the agent or to the end of the loop.     *)
ApproveCreated(t) ==
  /\ thread[t].id # 0
  /\ IF proposals[thread[t].id].status = "pending"
     THEN Promote(thread[t].id) /\ thread' = [thread EXCEPT ![t].id = 0]
     ELSE /\ thread' = [thread EXCEPT ![t] = [Idle EXCEPT !.pc = IF t = 0 THEN "idle" ELSE "dead"]]
          /\ UNCHANGED <<proposals, flowNames, promoted>>
  /\ UNCHANGED <<open, traces, monitored, outside, current, stopping, steps, acts>>

(* The analysis is over: the call returns, or the loop looks at _stop.     *)
AnalysisCompleted(t) ==
  /\ thread[t] = [Idle EXCEPT !.pc = "done"]
  /\ thread' = [thread EXCEPT ![t].pc = IF t = 0 THEN "idle"
                                        ELSE IF stopping THEN "dead" ELSE "observer"]
  /\ UNCHANGED <<open, traces, monitored, proposals, flowNames, outside, promoted, current,
                 stopping, steps, acts>>

------------------------------------------------------------------------------
(* The operator.                                                           *)

OperatorCall == acts < MaxActs /\ acts' = acts + 1 /\ UNCHANGED <<open, traces, monitored, steps>>

Approve(i) ==
  /\ OperatorCall /\ i \in Pending
  /\ Promote(i)
  /\ UNCHANGED <<outside, thread, current, stopping>>

Reject(i) ==
  /\ OperatorCall /\ i \in Pending
  /\ proposals' = [proposals EXCEPT ![i].status = "rejected"]
  /\ UNCHANGED <<flowNames, outside, promoted, thread, current, stopping>>

(* Somebody registers a flow without the service.                          *)
RegisterOutside(name) ==
  /\ OperatorCall /\ name \notin flowNames
  /\ flowNames' = flowNames \cup {name} /\ outside' = outside \cup {name}
  /\ UNCHANGED <<proposals, promoted, thread, current, stopping>>

Alive(t) == thread[t].pc \notin {"idle", "dead"}
IsRunning == current # 0 /\ Alive(current)

Run(t) ==
  /\ OperatorCall /\ ~IsRunning
  /\ thread[t].pc = "idle" /\ \A u \in Loops : u < t => thread[u].pc # "idle"
  /\ stopping' = FALSE /\ current' = t
  /\ thread' = [thread EXCEPT ![t].pc = "observer"]
  /\ UNCHANGED <<proposals, flowNames, outside, promoted>>

(* stop sets the event and joins with a timeout: the loop may outlive it.  *)
StopService ==
  /\ OperatorCall /\ current # 0
  /\ stopping' = TRUE /\ current' = 0
  /\ UNCHANGED <<proposals, flowNames, outside, promoted, thread>>

ServiceNext ==
  \/ \E t \in ServiceTools : Record(t) \/ RegisterServiceTool(t)
  \/ EndTrace
  \/ \E t \in Threads : \/ TakeSnapshot(t) \/ QueueProposal(t)
                        \/ ApproveCreated(t) \/ AnalysisCompleted(t)
  \/ \E i \in DOMAIN proposals : Approve(i) \/ Reject(i)
  \/ \E i \in DOMAIN proposals : RegisterOutside(proposals[i].name)
  \/ \E t \in Loops : Run(t)
  \/ StopService

ServiceSpec == ServiceInit /\ [][ServiceNext]_serviceVars

------------------------------------------------------------------------------
(* Whatever the threads interleave, and even when a stopped loop outlives  *)
(* its join and a second one starts: a name has one proposal that is not   *)
(* rejected, the queue stays within its cap, every flow in the registry    *)
(* was approved or came from elsewhere, and flows_promoted counts exactly  *)
(* the flows the service put there.                                        *)
QueueIsGoverned ==
  LET live(name) == {i \in DOMAIN proposals : /\ proposals[i].name = name
                                              /\ proposals[i].status # "rejected"}
      approved == {proposals[i].name : i \in {j \in DOMAIN proposals :
                                                proposals[j].status = "approved"}}
  IN  /\ \A i \in DOMAIN proposals : Cardinality(live(proposals[i].name)) <= 1
      /\ Cardinality(Pending) <= MaxPending
      /\ approved \subseteq flowNames /\ flowNames \subseteq approved \cup outside
      /\ promoted = Cardinality(flowNames \ outside)

(* Collapsing loses nothing: every sequence that occurs often enough is    *)
(* suggested, or lies inside a suggested one that occurs as often; and no  *)
(* suggestion lies inside another of the same count.                       *)
SuggestionsCover ==
  LET kept == CollapseSubsumed(traces)
      within(p, q) == Positions(q, p) # {} /\ Occurrences(traces, p) = Occurrences(traces, q)
  IN  /\ \A p \in Qualifying(traces) : \E q \in kept : within(p, q)
      /\ \A p, q \in kept : within(p, q) => p = q

(* What the service proposes covers the traces, and what it promotes was   *)
(* reviewed, whatever its threads interleave.                              *)
PromotionIsGoverned == SuggestionsCover /\ QueueIsGoverned
=============================================================================
