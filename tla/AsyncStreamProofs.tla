--------------------------- MODULE AsyncStreamProofs ---------------------------
(***************************************************************************)
(* The concurrent DAG lane and its stream, for every graph of levels, any  *)
(* number of permits, and a consumer that leaves at any point.             *)
(***************************************************************************)
EXTENDS AsyncStream, FiniteSetTheorems, WellFoundedInduction, TLAPS

-----------------------------------------------------------------------------
(* Levels and sets of steps.                                               *)

(* A level is a non-empty range of steps.                                  *)
LEMMA LevelBounds ==
  /\ N \in Nat /\ Depth \in Nat /\ First[1] = 1 /\ First[Depth + 1] = N + 1
  /\ 1 \in 1 .. Depth + 1 /\ \A l \in 1 .. Depth + 1 : First[l] \in 1 .. N + 1
  /\ \A l \in Level : /\ l \in 1 .. Depth + 1 /\ l + 1 \in 1 .. Depth + 1
                      /\ First[l] \in 1 .. N /\ First[l + 1] \in 1 .. N + 1
                      /\ First[l] < First[l + 1]
                      /\ InLevel(l) \subseteq Node /\ First[l] \in InLevel(l)
<1>1. N \in Nat /\ Depth \in Nat
  BY AsyncAssumption
<1>2. ASSUME NEW l \in Level
      PROVE  l \in 1 .. Depth + 1 /\ l + 1 \in 1 .. Depth + 1 /\ l < l + 1
  BY <1>1 DEF Level
<1>3. ASSUME NEW l \in Level
      PROVE  /\ First[l] \in 1 .. N + 1 /\ First[l + 1] \in 1 .. N + 1
             /\ First[l] < First[l + 1]
  BY <1>2, AsyncAssumption
<1>4. First[1] = 1 /\ First[Depth + 1] = N + 1 /\ 1 \in 1 .. Depth + 1
      /\ \A l \in 1 .. Depth + 1 : First[l] \in 1 .. N + 1
  BY <1>1, AsyncAssumption
<1> QED
  BY <1>1, <1>2, <1>3, <1>4 DEF Node, InLevel

(* Levels do not overlap.                                                  *)
LEMMA LevelsApart ==
  \A l \in Level, m \in 1 .. Depth + 1 : l < m => First[l + 1] <= First[m]
<1> SUFFICES ASSUME NEW l \in Level, NEW m \in 1 .. Depth + 1, l < m
             PROVE  First[l + 1] <= First[m]
  OBVIOUS
<1>1. l + 1 \in 1 .. Depth + 1 /\ (l + 1 = m \/ l + 1 < m)
  BY LevelBounds DEF Level
<1>2. First[l + 1] \in Nat /\ First[m] \in Nat
  BY <1>1, LevelBounds
<1>3. l + 1 < m => First[l + 1] < First[m]
  BY <1>1, AsyncAssumption
<1> QED
  BY <1>1, <1>2, <1>3

(* A nonempty set of steps has a first and a last one.                     *)
LEMMA EndsExist ==
  ASSUME NEW T \in SUBSET Node, T # {}
  PROVE  (\E v \in T : \A w \in T : v <= w) /\ (\E v \in T : \A w \in T : v >= w)
<1> DEFINE Low(U)  == \E v \in U : \A w \in U : v <= w
           High(U) == \E v \in U : \A w \in U : v >= w
           W == {U \in SUBSET Node : U # {} /\ ~(Low(U) /\ High(U))}
<1>1. IsFiniteSet(Node) /\ \A U \in SUBSET Node : IsFiniteSet(U)
  <2>1. IsFiniteSet(Node)
    BY FS_Interval, LevelBounds DEF Node
  <2> QED
    BY <2>1, FS_Subset
<1>2. W \subseteq FiniteSubsetsOf(Node)
  BY <1>1 DEF FiniteSubsetsOf
<1>3. SUFFICES ASSUME W # {} PROVE FALSE
  OBVIOUS
<1>4. PICK U \in W : \A X \in W : <<X, U>> \notin StrictSubsetOrdering(Node)
  <2> HIDE DEF W
  <2> QED
    BY <1>1, <1>2, <1>3, FS_StrictSubsetOrderingWellFounded, WFMin
<1>5. PICK x \in U : TRUE
  OBVIOUS
<1>6. U \ {x} \notin W
  BY <1>1, <1>4, <1>5 DEF StrictSubsetOrdering
<1>7. \A w \in U : w \in Int
  BY LevelBounds DEF Node
<1>8. CASE U \ {x} = {}
  BY <1>5, <1>7, <1>8
<1>9. CASE U \ {x} # {}
  <2>1. PICK y \in U \ {x} : \A w \in U \ {x} : y <= w
    BY <1>6, <1>9
  <2>2. PICK z \in U \ {x} : \A w \in U \ {x} : z >= w
    BY <1>6, <1>9
  <2>3. (\A w \in U : x <= w) \/ (\A w \in U : y <= w)
    BY <1>5, <1>7, <2>1
  <2>4. (\A w \in U : x >= w) \/ (\A w \in U : z >= w)
    BY <1>5, <1>7, <2>2
  <2> QED
    BY <2>1, <2>2, <2>3, <2>4, <1>5
<1> QED
  BY <1>8, <1>9

(* What Min and Max pick.                                                  *)
LEMMA MinMax ==
  ASSUME NEW T \in SUBSET Node, T # {}
  PROVE  /\ Min(T) \in T /\ \A w \in T : Min(T) <= w
         /\ Max(T) \in T /\ \A w \in T : Max(T) >= w
<1>1. \E v \in T : \A w \in T : v <= w
  BY EndsExist
<1>2. \E v \in T : \A w \in T : v >= w
  BY EndsExist
<1>3. Min(T) \in T /\ \A w \in T : Min(T) <= w
  BY <1>1 DEF Min
<1> QED
  BY <1>2, <1>3 DEF Max

-----------------------------------------------------------------------------
(* Types.                                                                  *)

Events  == [kind : EventKind, step : 0 .. N]
Answers == {"success", "failure", "cancelled"}

(* TypeOK without the count of the permits taken.                          *)
Types ==
  /\ caps \subseteq Node
  /\ pc \in {"idle", "boundary", "level", "end"} /\ lvl \in 1 .. Depth + 1
  /\ task \in [Node -> TaskState]
  /\ seen \in [Node -> Context] /\ ctx \in Context
  /\ log \in Seq(Record) /\ events \in Seq(Events)
  /\ saved \in 0 .. Depth /\ token \in BOOLEAN
  /\ exit \in {"none", "raised", "aborted"} \cup Answers
  /\ consumer \in {"reading", "closing", "closed"} /\ taken \in 0 .. Len(events)
  /\ mark \in {NoMark} \cup 0 .. Len(events)

(* Where the run and its sentinel are.                                     *)
Placed ==
  /\ pc = "idle" => lvl = 1 /\ log = <<>> /\ events = <<>> /\ \A n \in Node : task[n] = "none"
  /\ pc = "level" => lvl \in Level
  /\ pc # "end" => exit = "none" /\ mark = NoMark
  /\ pc = "end" => exit # "none" /\ mark # NoMark

Typed == Types /\ Placed

(* A step of the run leaves the consumer alone.                            *)
Beside == mark' = Ends /\ UNCHANGED <<caps, consumer, taken>>

(* The run ends with a result.                                             *)
Answer == InvalidInput \/ CancelRun \/ RejectCapability \/ LevelFails \/ Complete

(* A step of the consumer that reads, leaves or waits for the end, and one *)
(* of a worker thread left behind: the run itself is as it was.            *)
Consume ==
  UNCHANGED dagVars /\ (Take \/ TakeSentinel \/ Abandon \/ TaskDone \/ WorkerEnds \/ UNCHANGED vars)

LEMMA AsyncCases ==
  ASSUME [SNext]_vars
  PROVE  \/ Beside /\ (Start \/ Answer \/ EnterLevel \/ LevelRaises \/ LevelMerges
                        \/ ProcessRaises \/ RequestCancel)
         \/ Beside /\ \E n \in Node : StepStarts(n) \/ StepRefused(n) \/ StepRaises(n)
         \/ Beside /\ \E n \in Node, r \in Succeeded \cup {"failed"} : StepReturns(n, r)
         \/ TaskCancelled
         \/ Consume
<1>1. ASSUME Run
      PROVE  \/ Beside /\ (Start \/ Answer \/ EnterLevel \/ LevelRaises \/ LevelMerges
                            \/ ProcessRaises \/ RequestCancel)
             \/ Beside /\ \E n \in Node : StepStarts(n) \/ StepRefused(n) \/ StepRaises(n)
             \/ Beside /\ \E n \in Node, r \in Succeeded \cup {"failed"} : StepReturns(n, r)
  <2>1. Beside
    BY <1>1, Zenon DEF Run, RunNext, Beside
  <2>2. \A n \in Node, r \in TaskState : StepReturns(n, r) => r \in Succeeded \cup {"failed"}
    BY DEF StepReturns
  <2> QED
    BY <1>1, <2>1, <2>2 DEF Run, RunNext, Loop, Answer
<1>2. Take \/ TakeSentinel \/ Abandon \/ TaskDone \/ WorkerEnds => Consume
  BY DEF Consume, Take, TakeSentinel, Abandon, TaskDone, WorkerEnds
<1>3. UNCHANGED vars => Consume
  BY DEF Consume, vars
<1> QED
  BY <1>1, <1>2, <1>3 DEF SNext

(* What Append and \o yield.                                               *)
LEMMA AppendType ==
  ASSUME NEW T, NEW s \in Seq(T), NEW x \in T
  PROVE  /\ Append(s, x) \in Seq(T) /\ Len(Append(s, x)) = Len(s) + 1 /\ Len(s) \in Nat
         /\ \A i \in 1 .. Len(s) : Append(s, x)[i] = s[i]
         /\ Append(s, x)[Len(s) + 1] = x
OBVIOUS

LEMMA Joined ==
  ASSUME NEW T, NEW s \in Seq(T), NEW t \in Seq(T)
  PROVE  /\ s \o t \in Seq(T) /\ Len(s \o t) = Len(s) + Len(t)
         /\ Len(s) \in Nat /\ Len(t) \in Nat
         /\ \A i \in 1 .. Len(s) : (s \o t)[i] = s[i]
         /\ \A i \in 1 .. Len(t) : (s \o t)[Len(s) + i] = t[i]
OBVIOUS

(* The records of a level up to one of its steps.                          *)
LEMMA RecordsType ==
  ASSUME Types, lvl \in Level, NEW m \in InLevel(lvl)
  PROVE  /\ Records(m) \in Seq(Record) /\ Len(Records(m)) = m - First[lvl] + 1
         /\ \A i \in 1 .. m - First[lvl] + 1 :
              LET n == First[lvl] + i - 1
              IN  Records(m)[i] = [step |-> n, res |-> IF Stops(n) THEN "failed" ELSE task[n]]
<1>1. /\ First[lvl] \in 1 .. N /\ First[lvl + 1] \in 1 .. N + 1 /\ N \in Nat
      /\ m \in First[lvl] .. First[lvl + 1] - 1
  BY LevelBounds DEF InLevel
<1> DEFINE k == m - First[lvl] + 1
           Entry(n) == [step |-> n, res |-> IF Stops(n) THEN "failed" ELSE task[n]]
           f == [i \in 1 .. k |-> Entry(First[lvl] + i - 1)]
<1>2. k \in Nat /\ Records(m) = f
  BY <1>1 DEF Records
<1>3. \A n \in Node : Entry(n) \in Record
  BY <1>1 DEF Types, Record, TaskState, Node
<1>4. \A i \in 1 .. k : First[lvl] + i - 1 \in Node
  BY <1>1 DEF Node
<1> HIDE DEF k, Entry
<1>5. f \in [1 .. k -> Record]
  BY <1>3, <1>4
<1>6. f \in Seq(Record) /\ Len(f) = k
  BY <1>2, <1>5
<1> QED
  BY <1>2, <1>6 DEF k, Entry

(* The initial state.                                                      *)
LEMMA TypedInit == SInit => Typed
<1> SUFFICES ASSUME SInit PROVE Typed
  OBVIOUS
<1>1. N \in Nat /\ Depth \in Nat /\ <<>> \in Seq(Record) /\ <<>> \in Seq(Events)
  BY LevelBounds
<1>2. NoContext \in Context
  BY <1>1 DEF NoContext, Context
<1>3. caps \subseteq Node
  BY AsyncAssumption DEF SInit, Init
<1>4. 1 \in 1 .. Depth + 1 /\ 0 \in 0 .. Depth /\ 0 \in 0 .. Len(<<>>)
  BY <1>1
<1>5. Placed
  BY DEF SInit, Init, Placed
<1>6. task \in [Node -> TaskState] /\ seen \in [Node -> Context]
  BY <1>2 DEF SInit, Init, TaskState
<1> QED
  BY <1>1, <1>2, <1>3, <1>4, <1>5, <1>6 DEF SInit, Init, Typed, Types

(* A result ends the run.                                                  *)
LEMMA AnswerMeans ==
  ASSUME Typed, Answer
  PROVE  /\ pc \in {"boundary", "level"} /\ (pc = "level" => LevelDone)
         /\ pc' = "end" /\ exit' \in Answers /\ events' = Append(events, Event("flow_end", 0))
         /\ log' \in Seq(Record) /\ UNCHANGED <<lvl, task, seen, ctx, saved, token>>
<1>1. log \in Seq(Record) /\ N \in Nat /\ Validation \in Record
  BY LevelBounds DEF Typed, Types, Validation, Record, TaskState
<1>2. CASE InvalidInput
  BY <1>1, <1>2 DEF InvalidInput, Result, Answers
<1>3. CASE CancelRun
  BY <1>1, <1>3 DEF CancelRun, Result, Answers
<1>4. CASE RejectCapability
  <2>1. Min(InLevel(lvl) \cap caps) \in Node
    BY <1>4, MinMax, LevelBounds DEF RejectCapability
  <2>2. [step |-> Min(InLevel(lvl) \cap caps), res |-> "failed"] \in Record
    BY <1>1, <2>1 DEF Record, TaskState, Node
  <2> QED
    BY <1>1, <1>4, <2>2, AppendType DEF RejectCapability, Result, Answers
<1>5. CASE LevelFails
  <2>1. lvl \in Level
    BY <1>5 DEF LevelFails, LevelDone, Typed, Placed
  <2>2. StopAt \in InLevel(lvl)
    BY <1>5, <2>1, MinMax, LevelBounds DEF LevelFails, StopAt, Stopping
  <2>3. log \o Records(StopAt) \in Seq(Record)
    BY <1>1, <2>1, <2>2, RecordsType, Joined DEF Typed
  <2> QED
    BY <1>5, <2>3 DEF LevelFails, LevelDone, Result, Answers
<1>6. CASE Complete
  BY <1>1, <1>6, AppendType DEF Complete, Result, Answers
<1> QED
  BY <1>2, <1>3, <1>4, <1>5, <1>6 DEF Answer

(* The sentinel's place when the run's events grow, or stay.               *)
LEMMA MarkMoves ==
  ASSUME Typed, events' \in Seq(Events), Len(events') >= Len(events), mark' = Ends
  PROVE  /\ mark' \in {NoMark} \cup 0 .. Len(events')
         /\ taken \in 0 .. Len(events')
         /\ (pc' = "end" /\ mark = NoMark) => mark' = Len(events') /\ mark' # NoMark
         /\ (pc' # "end" \/ mark # NoMark) => mark' = mark
<1>1. Len(events) \in Nat /\ Len(events') \in Nat /\ NoMark \notin Nat
  BY DEF Typed, Types, NoMark
<1> QED
  BY <1>1 DEF Ends, Typed, Types

(* A step of a level's task.                                               *)
StepMoves == \E n \in Node :
  \/ StepStarts(n) \/ StepRefused(n) \/ StepRaises(n)
  \/ \E r \in Succeeded \cup {"failed"} : StepReturns(n, r)

Moved == {"running", "failed", "raised"} \cup Succeeded

(* It changes the task, and appends at most one event.                     *)
LEMMA StepMeans ==
  ASSUME Typed, StepMoves
  PROVE  \E n \in Node, st \in Moved :
           /\ task[n] \in {"queued", "running"} /\ task' = [task EXCEPT ![n] = st]
           /\ \/ events' = events
              \/ \E kind \in {"step_start", "step_end"} : events' = Append(events, Event(kind, n))
           /\ \/ seen' = seen
              \/ seen' = [seen EXCEPT ![n] = ctx] /\ task[n] = "queued"
           /\ UNCHANGED <<pc, lvl, ctx, log, saved, exit, token>>
<1>1. ASSUME NEW n \in Node, StepStarts(n) \/ StepRefused(n) \/ StepRaises(n)
      PROVE  \E st \in Moved :
           /\ task[n] \in {"queued", "running"} /\ task' = [task EXCEPT ![n] = st]
           /\ \/ events' = events
              \/ \E kind \in {"step_start", "step_end"} : events' = Append(events, Event(kind, n))
           /\ \/ seen' = seen
              \/ seen' = [seen EXCEPT ![n] = ctx] /\ task[n] = "queued"
           /\ UNCHANGED <<pc, lvl, ctx, log, saved, exit, token>>
  BY <1>1 DEF StepStarts, StepRefused, StepRaises, Turn, Moved
<1>2. ASSUME NEW n \in Node, NEW r \in Succeeded \cup {"failed"}, StepReturns(n, r)
      PROVE  r \in Moved /\ task[n] = "running" /\ task' = [task EXCEPT ![n] = r]
             /\ events' = Append(events, Event("step_end", n))
             /\ UNCHANGED <<pc, lvl, seen, ctx, log, saved, exit, token>>
  BY <1>2 DEF StepReturns, Moved
<1> QED
  BY <1>1, <1>2 DEF StepMoves

(* Every step keeps the types and the place.                               *)
LEMMA TypedStep == Typed /\ [SNext]_vars => Typed'
<1> SUFFICES ASSUME Typed, [SNext]_vars PROVE Typed'
  OBVIOUS
<1>t. /\ log \in Seq(Record) /\ events \in Seq(Events) /\ lvl \in 1 .. Depth + 1
      /\ task \in [Node -> TaskState] /\ ctx \in Context /\ NoMark \notin Nat
      /\ N \in Nat /\ Len(events) \in Nat
  BY LevelBounds DEF Typed, Types, NoMark
<1>e. \A kind \in EventKind, n \in Node \cup {0} : Event(kind, n) \in Events
  BY <1>t DEF Event, Events, Node
<1>m. (events' \in Seq(Events) /\ Len(events') >= Len(events) /\ mark' = Ends) =>
         /\ mark' \in {NoMark} \cup 0 .. Len(events') /\ taken \in 0 .. Len(events')
         /\ (pc' = "end" /\ mark = NoMark) => mark' # NoMark
         /\ (pc' # "end" \/ mark # NoMark) => mark' = mark
  BY MarkMoves
<1>a. \A e \in Events : Append(events, e) \in Seq(Events) /\ Len(Append(events, e)) >= Len(events)
  BY <1>t, AppendType
<1>1. ASSUME Beside, Start PROVE Typed'
  <2>1. events' \in Seq(Events) /\ Len(events') >= Len(events)
    <3>1. events = <<>> /\ events' = <<Event("flow_start", 0)>> /\ Event("flow_start", 0) \in Events
      BY <1>1, <1>e DEF Start, Typed, Placed, EventKind
    <3> QED
      BY <3>1
  <2>2. Types'
    BY <1>1, <1>m, <2>1 DEF Beside, Start, Typed, Types
  <2>3. Placed'
    BY <1>1, <1>m, <2>1 DEF Beside, Start, Typed, Placed
  <2> QED
    BY <2>2, <2>3 DEF Typed
<1>2. ASSUME Beside, Answer PROVE Typed'
  <2>1. /\ pc \in {"boundary", "level"} /\ (pc = "level" => LevelDone)
        /\ pc' = "end" /\ exit' \in Answers /\ events' = Append(events, Event("flow_end", 0))
        /\ log' \in Seq(Record) /\ UNCHANGED <<lvl, task, seen, ctx, saved, token>>
    BY <1>2, AnswerMeans
  <2>2. events' \in Seq(Events) /\ Len(events') >= Len(events)
    BY <2>1, <1>e, <1>a DEF EventKind
  <2>3. Types'
    BY <1>2, <1>m, <2>1, <2>2 DEF Beside, Typed, Types
  <2>4. Placed'
    BY <1>2, <1>m, <2>1, <2>2 DEF Beside, Typed, Placed, Answers
  <2> QED
    BY <2>3, <2>4 DEF Typed
<1>3. ASSUME Beside, EnterLevel PROVE Typed'
  <2>1. events' = events /\ task' \in [Node -> TaskState]
    BY <1>3, <1>t DEF EnterLevel, TaskState
  <2>2. Types'
    BY <1>3, <1>m, <1>t, <2>1 DEF Beside, EnterLevel, Typed, Types
  <2>3. Placed'
    BY <1>3, <1>m, <1>t, <2>1 DEF Beside, EnterLevel, Typed, Placed
  <2> QED
    BY <2>2, <2>3 DEF Typed
<1>4. ASSUME Beside, LevelRaises \/ ProcessRaises PROVE Typed'
  <2>1. events' = events /\ task' \in [Node -> TaskState] /\ pc' = "end" /\ exit' = "raised"
        /\ pc = "level" /\ UNCHANGED <<log, lvl, seen, ctx, saved, token>>
    BY <1>4, <1>t DEF LevelRaises, ProcessRaises, LevelDone, Escapes, TaskState
  <2>2. Types'
    BY <1>4, <1>m, <1>t, <2>1 DEF Beside, Typed, Types
  <2>3. Placed'
    BY <1>4, <1>m, <1>t, <2>1 DEF Beside, Typed, Placed
  <2> QED
    BY <2>2, <2>3 DEF Typed
<1>5. ASSUME Beside, LevelMerges PROVE Typed'
  <2>1. lvl \in Level /\ lvl \in 0 .. Depth /\ lvl + 1 \in 1 .. Depth + 1
    BY <1>5, LevelBounds DEF LevelMerges, LevelDone, Typed, Placed, Level
  <2>2. log' \in Seq(Record)
    <3>1. First[lvl + 1] - 1 \in InLevel(lvl)
      BY <2>1, LevelBounds DEF InLevel
    <3> QED
      BY <1>5, <1>t, <2>1, <3>1, RecordsType, Joined DEF LevelMerges, Typed
  <2>3. ctx' \in Context
    <3>1. \A k \in Key : Writers(k) \subseteq Node
      BY <2>1, LevelBounds DEF Writers
    <3>2. \A k \in Key : Writers(k) = {} \/ Max(Writers(k)) \in Node
      BY <3>1, MinMax
    <3> QED
      BY <1>5, <1>t, <3>2 DEF LevelMerges, Context, Node
  <2>4. events' = events
    BY <1>5 DEF LevelMerges
  <2>5. Types'
    BY <1>5, <1>m, <1>t, <2>1, <2>2, <2>3, <2>4 DEF Beside, LevelMerges, Typed, Types
  <2>6. Placed'
    BY <1>5, <1>m, <1>t, <2>4 DEF Beside, LevelMerges, LevelDone, Typed, Placed
  <2> QED
    BY <2>5, <2>6 DEF Typed
<1>6. ASSUME Beside, RequestCancel PROVE Typed'
  <2>1. events' = events
    BY <1>6 DEF RequestCancel
  <2>2. Types'
    BY <1>6, <1>m, <1>t, <2>1 DEF Beside, RequestCancel, Typed, Types
  <2>3. Placed'
    BY <1>6, <1>m, <1>t, <2>1 DEF Beside, RequestCancel, Typed, Placed
  <2> QED
    BY <2>2, <2>3 DEF Typed
<1>7. ASSUME Beside, StepMoves PROVE Typed'
  <2> PICK n \in Node, st \in Moved :
           /\ task[n] \in {"queued", "running"} /\ task' = [task EXCEPT ![n] = st]
           /\ \/ events' = events
              \/ \E kind \in {"step_start", "step_end"} : events' = Append(events, Event(kind, n))
           /\ \/ seen' = seen
              \/ seen' = [seen EXCEPT ![n] = ctx] /\ task[n] = "queued"
           /\ UNCHANGED <<pc, lvl, ctx, log, saved, exit, token>>
    BY <1>7, StepMeans
  <2>1. events' \in Seq(Events) /\ Len(events') >= Len(events)
    <3>1. CASE events' = events
      BY <3>1, <1>t
    <3>2. CASE \E kind \in {"step_start", "step_end"} : events' = Append(events, Event(kind, n))
      BY <3>2, <1>e, <1>a DEF EventKind
    <3> QED
      BY <3>1, <3>2
  <2>2. task' \in [Node -> TaskState] /\ seen' \in [Node -> Context]
    BY <1>t DEF Typed, Types, Moved, TaskState
  <2>3. Types'
    BY <1>7, <1>m, <1>t, <2>1, <2>2 DEF Beside, Typed, Types
  <2>4. pc' # "idle" /\ UNCHANGED <<pc, lvl, exit>>
    BY DEF Typed, Placed
  <2>5. Placed'
    BY <1>7, <1>m, <2>1, <2>4 DEF Beside, Typed, Placed
  <2> QED
    BY <2>3, <2>5 DEF Typed
<1>8. ASSUME TaskCancelled PROVE Typed'
  <2>1. events' = events /\ task' \in [Node -> TaskState]
    BY <1>8, <1>t DEF TaskCancelled, CancelledTasks, Escapes, TaskState
  <2>2. Types'
    BY <1>8, <1>m, <1>t, <2>1 DEF TaskCancelled, Escapes, Typed, Types
  <2>3. Placed'
    BY <1>8, <1>m, <1>t, <2>1 DEF TaskCancelled, Escapes, Typed, Placed
  <2> QED
    BY <2>2, <2>3 DEF Typed
<1>9. ASSUME Consume PROVE Typed'
  <2>1. UNCHANGED <<dagVars, mark>>
    BY <1>9 DEF Consume, Take, TakeSentinel, Abandon, TaskDone, WorkerEnds, vars
  <2>2. consumer' \in {"reading", "closing", "closed"} /\ taken' \in 0 .. Len(events)
    BY <1>9, <1>t DEF Consume, Take, TakeSentinel, Abandon, TaskDone, WorkerEnds, vars, Typed, Types
  <2> QED
    BY <2>1, <2>2 DEF dagVars, Typed, Types, Placed
<1> QED
  BY AsyncCases, <1>1, <1>2, <1>3, <1>4, <1>5, <1>6, <1>7, <1>8, <1>9 DEF StepMoves

LEMMA TypedAlways == Spec => []Typed
BY TypedInit, TypedStep, PTL DEF Spec

-----------------------------------------------------------------------------
(* The permits.                                                            *)

Permits == Cardinality(In("running")) <= Bound

LEMMA FewerRun ==
  ASSUME Permits, In("running")' \subseteq In("running")
  PROVE  Permits'
<1>1. IsFiniteSet(Node)
  BY FS_Interval, LevelBounds DEF Node
<1>2. IsFiniteSet(In("running"))
  BY <1>1, FS_Subset DEF In
<1>3. IsFiniteSet(In("running")') /\ Cardinality(In("running")') <= Cardinality(In("running"))
  BY <1>2, FS_Subset
<1>4. Cardinality(In("running")) \in Nat /\ Cardinality(In("running")') \in Nat /\ Bound \in Nat
  BY <1>2, <1>3, FS_CardinalityType, AsyncAssumption
<1> QED
  BY <1>3, <1>4 DEF Permits

LEMMA PermitsStep == Typed /\ Permits /\ [SNext]_vars => Permits'
<1> SUFFICES ASSUME Typed, Permits, [SNext]_vars PROVE Permits'
  OBVIOUS
<1>t. task \in [Node -> TaskState]
  BY DEF Typed, Types
<1>1. ASSUME NEW n \in Node, StepStarts(n) PROVE Permits'
  <2>1. IsFiniteSet(Node)
    BY FS_Interval, LevelBounds DEF Node
  <2>2. IsFiniteSet(In("running"))
    BY <2>1, FS_Subset DEF In
  <2>3. In("running")' = In("running") \cup {n} /\ n \notin In("running")
    BY <1>1, <1>t DEF StepStarts, Turn, In
  <2>4. Cardinality(In("running")') = Cardinality(In("running")) + 1
    BY <2>2, <2>3, FS_AddElement
  <2>5. Cardinality(In("running")) < Bound
    BY <1>1 DEF StepStarts, Turn
  <2>6. Cardinality(In("running")) \in Nat /\ Bound \in Nat
    BY <2>2, FS_CardinalityType, AsyncAssumption
  <2> QED
    BY <2>4, <2>5, <2>6 DEF Permits
<1>2. ASSUME NEW n \in Node, StepRefused(n) \/ StepRaises(n) PROVE Permits'
  <2>1. In("running")' \subseteq In("running")
    BY <1>2, <1>t DEF StepRefused, StepRaises, In
  <2> QED
    BY <2>1, FewerRun
<1>3. ASSUME NEW n \in Node, NEW r \in Succeeded \cup {"failed"}, StepReturns(n, r)
      PROVE  Permits'
  <2>1. In("running")' \subseteq In("running")
    BY <1>3, <1>t DEF StepReturns, In, Succeeded
  <2> QED
    BY <2>1, FewerRun
<1>4. ASSUME EnterLevel \/ LevelRaises \/ TaskCancelled PROVE Permits'
  <2>1. In("running")' \subseteq In("running")
    BY <1>4, <1>t DEF EnterLevel, LevelRaises, TaskCancelled, CancelledTasks, Live, In
  <2> QED
    BY <2>1, FewerRun
<1>5. ASSUME task' = task PROVE Permits'
  <2>1. In("running")' \subseteq In("running")
    BY <1>5 DEF In
  <2> QED
    BY <2>1, FewerRun
<1>6. Start \/ Answer \/ LevelMerges \/ ProcessRaises \/ RequestCancel \/ Consume => task' = task
  BY AnswerMeans DEF Start, LevelMerges, ProcessRaises, RequestCancel, Consume, dagVars
<1> QED
  BY AsyncCases, <1>1, <1>2, <1>3, <1>4, <1>5, <1>6

LEMMA PermitsInit == SInit => Permits
<1> SUFFICES ASSUME SInit PROVE Permits
  OBVIOUS
<1>1. In("running") = {}
  BY DEF SInit, Init, In
<1>2. Cardinality(In("running")) = 0
  BY <1>1, FS_EmptySet
<1>3. Bound \in Nat
  BY AsyncAssumption
<1> QED
  BY <1>2, <1>3 DEF Permits

-----------------------------------------------------------------------------
(* The tasks.                                                              *)

Busy(n) == task[n] \in {"queued", "running"}

(* Only steps of the level in hand are under way, and after the run only   *)
(* when an exception ended it; the steps before the level have succeeded   *)
(* and the ones behind it have not begun.                                  *)
TaskInv ==
  /\ \A n \in Node : Busy(n) =>
       lvl \in Level /\ n \in InLevel(lvl) /\ (pc = "level" \/ exit = "raised")
  /\ \A n \in Node : n < First[lvl] => task[n] \in Succeeded
  /\ pc # "end" => \A n \in Node : n >= First[lvl] =>
       ((task[n] = "none") <=> (pc # "level" \/ n \notin InLevel(lvl)))
  /\ \A n \in Node : task[n] = "cancelled" => exit = "aborted"
  /\ \A n \in Node : task[n] = "raised" => pc = "level" \/ exit \in {"raised", "aborted"}

(* When a level is done and nothing stops it, all its steps succeeded.     *)
LEMMA DoneMeans ==
  ASSUME Typed, TaskInv, LevelDone
  PROVE  /\ \A n \in Node : ~Busy(n) /\ task[n] # "raised"
         /\ lvl \in Level
         /\ \A n \in InLevel(lvl) : task[n] \in Succeeded \cup {"failed"}
         /\ \A n \in InLevel(lvl) : ~Stops(n) => task[n] \in Succeeded
<1>1. pc = "level" /\ lvl \in Level /\ exit = "none"
  BY DEF LevelDone, Typed, Placed
<1>2. \A n \in Node : ~Busy(n) /\ task[n] # "raised"
  BY DEF LevelDone, Live, In, Busy
<1>3. \A n \in InLevel(lvl) : n \in Node /\ n >= First[lvl]
  BY <1>1, LevelBounds DEF InLevel
<1>4. \A n \in InLevel(lvl) : task[n] \in TaskState /\ task[n] \notin {"none", "cancelled"}
  BY <1>1, <1>3 DEF TaskInv, Typed, Types
<1>5. \A n \in InLevel(lvl) : task[n] \in Succeeded \cup {"failed"}
  BY <1>2, <1>3, <1>4 DEF TaskState, Busy
<1> QED
  BY <1>1, <1>2, <1>5 DEF Stops

LEMMA TaskInit == SInit => TaskInv
<1> SUFFICES ASSUME SInit PROVE TaskInv
  OBVIOUS
<1>1. \A n \in Node : n >= First[lvl]
  BY LevelBounds DEF SInit, Init, Node
<1>2. \A n \in Node : task[n] = "none" /\ ~(n < First[lvl])
  BY <1>1, LevelBounds DEF SInit, Init, Node
<1> QED
  BY <1>2 DEF SInit, Init, TaskInv, Busy

LEMMA TaskStep == Typed /\ TaskInv /\ [SNext]_vars => TaskInv'
<1> SUFFICES ASSUME Typed, TaskInv, [SNext]_vars PROVE TaskInv'
  OBVIOUS
<1>t. /\ task \in [Node -> TaskState] /\ lvl \in 1 .. Depth + 1
      /\ pc # "end" => exit = "none"
  BY DEF Typed, Types, Placed
<1>b. \A n \in Node : n \in Int /\ First[lvl] \in Int /\ (n < First[lvl] \/ n >= First[lvl])
  BY <1>t, LevelBounds DEF Node
<1>1. ASSUME Start \/ RequestCancel \/ Consume PROVE TaskInv'
  <2>1. UNCHANGED <<lvl, task, exit>> /\ (pc' = pc \/ (pc = "idle" /\ pc' = "boundary"))
    BY <1>1 DEF Start, RequestCancel, Consume, dagVars
  <2> QED
    BY <2>1 DEF TaskInv, Busy
<1>2. ASSUME Answer PROVE TaskInv'
  <2>1. /\ pc \in {"boundary", "level"} /\ (pc = "level" => LevelDone)
        /\ pc' = "end" /\ UNCHANGED <<lvl, task>>
    BY <1>2, AnswerMeans
  <2>2. exit = "none"
    BY <1>t, <2>1
  <2>3. \A n \in Node : ~Busy(n) /\ task[n] \notin {"raised", "cancelled"}
    BY <2>1, <2>2, DoneMeans DEF TaskInv
  <2> QED
    BY <2>1, <2>3 DEF TaskInv, Busy
<1>3. ASSUME EnterLevel PROVE TaskInv'
  <2>1. /\ pc = "boundary" /\ pc' = "level" /\ UNCHANGED <<lvl, exit>> /\ lvl \in Level
        /\ \A n \in Node : task'[n] = IF n \in InLevel(lvl) THEN "queued" ELSE task[n]
    BY <1>3 DEF EnterLevel
  <2>2. exit = "none" /\ \A n \in Node : n < First[lvl] => n \notin InLevel(lvl)
    BY <2>1, <1>t, LevelBounds DEF InLevel, Node
  <2>3. \A n \in Node : n >= First[lvl] => task[n] = "none"
    BY <2>1 DEF TaskInv
  <2>4. \A n \in Node : n < First[lvl] => task'[n] = task[n] /\ task[n] \in Succeeded
    BY <2>1, <2>2 DEF TaskInv
  <2>5. \A n \in Node : n >= First[lvl] =>
          (task'[n] = IF n \in InLevel(lvl) THEN "queued" ELSE "none")
    BY <2>1, <2>3
  <2>6. \A n \in Node :
          /\ task'[n] \notin {"cancelled", "raised"}
          /\ task'[n] \in {"queued", "running"} => n \in InLevel(lvl)
    BY <1>b, <2>4, <2>5 DEF Succeeded
  <2> QED
    BY <2>1, <2>4, <2>5, <2>6 DEF TaskInv, Busy
<1>4. ASSUME LevelRaises \/ ProcessRaises PROVE TaskInv'
  <2>1. /\ pc = "level" /\ pc' = "end" /\ exit' = "raised" /\ lvl' = lvl
        /\ \A n \in Node : task'[n] = task[n] \/ (task[n] = "queued" /\ task'[n] = "none")
    BY <1>4, <1>t DEF LevelRaises, ProcessRaises, LevelDone, Escapes
  <2>2. exit = "none"
    BY <1>t, <2>1
  <2> QED
    BY <2>1, <2>2 DEF TaskInv, Busy, Succeeded
<1>5. ASSUME LevelMerges PROVE TaskInv'
  <2>1. /\ LevelDone /\ pc = "level" /\ pc' = "boundary" /\ lvl' = lvl + 1
        /\ UNCHANGED <<task, exit>>
        /\ \A n \in InLevel(lvl) : ~Stops(n)
    BY <1>5 DEF LevelMerges, LevelDone, Stopping
  <2>2. /\ lvl \in Level /\ \A n \in Node : ~Busy(n) /\ task[n] # "raised"
        /\ \A n \in InLevel(lvl) : task[n] \in Succeeded
    BY <2>1, DoneMeans
  <2>3. First[lvl] < First[lvl + 1] /\ First[lvl + 1] \in Int /\ First[lvl] \in Int
    BY <2>2, LevelBounds
  <2>4. \A n \in Node : n < First[lvl + 1] => n < First[lvl] \/ n \in InLevel(lvl)
    BY <2>3 DEF InLevel, Node
  <2>5. \A n \in Node : n >= First[lvl + 1] => n >= First[lvl] /\ n \notin InLevel(lvl)
    BY <2>3 DEF InLevel, Node
  <2>6. \A n \in Node : n < First[lvl'] => task'[n] \in Succeeded
    BY <2>1, <2>2, <2>4 DEF TaskInv
  <2>7. \A n \in Node : n >= First[lvl'] => task'[n] = "none"
    BY <2>1, <2>5, <1>t DEF TaskInv
  <2> QED
    BY <2>1, <2>2, <2>6, <2>7, <1>t DEF TaskInv, Busy
<1>6. ASSUME StepMoves PROVE TaskInv'
  <2> PICK n \in Node, st \in Moved :
           /\ Busy(n) /\ task' = [task EXCEPT ![n] = st]
           /\ UNCHANGED <<pc, lvl, exit>>
    BY <1>6, StepMeans DEF Busy
  <2>1. task'[n] = st /\ \A m \in Node \ {n} : task'[m] = task[m]
    BY <1>t
  <2>2. st \notin {"none", "queued", "cancelled"}
    BY DEF Moved, Succeeded
  <2>3. lvl \in Level /\ n \in InLevel(lvl) /\ (pc = "level" \/ exit = "raised")
    BY DEF TaskInv
  <2>4. ~(n < First[lvl])
    BY <2>3, LevelBounds DEF InLevel
  <2> QED
    BY <2>1, <2>2, <2>3, <2>4 DEF TaskInv, Busy
<1>7. ASSUME TaskCancelled PROVE TaskInv'
  <2>1. /\ pc' = "end" /\ exit' = "aborted" /\ lvl' = lvl
        /\ \A n \in Node : task'[n] = IF Busy(n) THEN "cancelled" ELSE task[n]
    BY <1>7 DEF TaskCancelled, Escapes, CancelledTasks, Live, In, Busy
  <2> QED
    BY <2>1 DEF TaskInv, Busy, Succeeded
<1> QED
  BY AsyncCases, <1>1, <1>2, <1>3, <1>4, <1>5, <1>6, <1>7 DEF StepMoves

LEMMA TaskAlways == Spec => []TaskInv
BY TaskInit, TaskStep, TypedAlways, PTL DEF Spec

-----------------------------------------------------------------------------
(* The worker threads.                                                     *)

(* Only a step that had its turn, and has a sync tool, has a thread.       *)
ThreadInv ==
  /\ threads \subseteq SyncSteps
  /\ \A n \in threads : task[n] \notin {"none", "queued"}

LEMMA ThreadStep == Typed /\ TaskInv /\ ThreadInv /\ [SNext]_vars => ThreadInv'
<1> SUFFICES ASSUME Typed, TaskInv, ThreadInv, [SNext]_vars PROVE ThreadInv'
  OBVIOUS
<1>t. SyncSteps \subseteq Node /\ task \in [Node -> TaskState]
  BY AsyncAssumption DEF Typed, Types
<1>1. CASE Start \/ Answer \/ LevelMerges \/ ProcessRaises \/ RequestCancel
  <2>1. UNCHANGED <<task, threads>>
    BY <1>1 DEF Start, Answer, InvalidInput, CancelRun, RejectCapability, LevelFails, Complete,
       LevelMerges, ProcessRaises, RequestCancel
  <2> QED
    BY <2>1 DEF ThreadInv
<1>2. CASE EnterLevel
  <2>1. \A n \in InLevel(lvl) : n \in Node /\ n >= First[lvl]
    BY <1>2, LevelBounds DEF EnterLevel, InLevel
  <2>2. \A n \in InLevel(lvl) : task[n] = "none"
    BY <1>2, <2>1 DEF EnterLevel, TaskInv
  <2>3. \A n \in threads : task'[n] = task[n]
    BY <1>2, <1>t, <2>2 DEF EnterLevel, ThreadInv
  <2> QED
    BY <1>2, <2>3 DEF EnterLevel, ThreadInv
<1>3. CASE LevelRaises
  BY <1>3, <1>t DEF LevelRaises, ThreadInv
<1>4. CASE StepMoves
  <2> PICK n \in Node :
        \/ StepStarts(n) \/ StepRefused(n) \/ StepRaises(n)
        \/ \E r \in Succeeded \cup {"failed"} : StepReturns(n, r)
    BY <1>4 DEF StepMoves
  <2>1. CASE StepStarts(n)
    BY <2>1, <1>t DEF StepStarts, ThreadInv
  <2>2. CASE StepRefused(n)
    BY <2>2, <1>t DEF StepRefused, ThreadInv
  <2>3. CASE StepRaises(n)
    BY <2>3, <1>t DEF StepRaises, ThreadLeft, ThreadInv
  <2>4. ASSUME NEW r \in Succeeded \cup {"failed"}, StepReturns(n, r) PROVE ThreadInv'
    BY <2>4, <1>t DEF StepReturns, ThreadLeft, ThreadInv, Succeeded
  <2> QED
    BY <2>1, <2>2, <2>3, <2>4
<1>5. CASE TaskCancelled
  BY <1>5, <1>t DEF TaskCancelled, CancelledTasks, ThreadInv
<1>6. CASE Consume
  <2>1. UNCHANGED task /\ threads' \subseteq threads
    BY <1>6 DEF Consume, dagVars, Take, TakeSentinel, Abandon, TaskDone, WorkerEnds, ThreadEnds, vars
  <2> QED
    BY <2>1 DEF ThreadInv
<1> QED
  BY AsyncCases, <1>1, <1>2, <1>3, <1>4, <1>5, <1>6 DEF StepMoves

LEMMA ThreadAlways == Spec => []ThreadInv
<1>1. SInit => ThreadInv
  BY DEF SInit, Init, ThreadInv
<1> QED
  BY <1>1, ThreadStep, TypedAlways, TaskAlways, PTL DEF Spec

(* The types hold; in particular no more steps run at once than            *)
(* max_step_concurrency allows (the semaphore of _run_dag_level_async).    *)
THEOREM AsyncTypes == Spec => []TypeOK
<1>1. Typed /\ Permits /\ ThreadInv => TypeOK
  BY DEF Typed, Types, Permits, ThreadInv, TypeOK, Events, Answers
<1>2. Spec => []Permits
  BY PermitsInit, PermitsStep, TypedAlways, PTL DEF Spec
<1> QED
  BY <1>1, <1>2, TypedAlways, ThreadAlways, PTL

(* What a step returned stays.                                             *)
LEMMA SucceededStay ==
  ASSUME Typed, TaskInv, [SNext]_vars, NEW n \in Node, task[n] \in Succeeded
  PROVE  task'[n] = task[n]
<1>t. task \in [Node -> TaskState] /\ ~Busy(n) /\ task[n] # "none"
  BY DEF Typed, Types, Busy, Succeeded
<1>1. CASE EnterLevel
  <2>1. pc # "end" /\ pc # "level" /\ lvl \in Level
    BY <1>1 DEF EnterLevel
  <2>2. n \notin InLevel(lvl)
    BY <1>t, <2>1, LevelBounds DEF TaskInv, InLevel
  <2> QED
    BY <1>1, <2>2 DEF EnterLevel
<1>2. CASE LevelRaises \/ TaskCancelled
  BY <1>2, <1>t DEF LevelRaises, TaskCancelled, CancelledTasks, Live, In, Busy
<1>3. CASE StepMoves
  BY <1>3, <1>t, StepMeans DEF Busy
<1>4. CASE Start \/ Answer \/ LevelMerges \/ ProcessRaises \/ RequestCancel \/ Consume
  BY <1>4, AnswerMeans DEF Start, LevelMerges, ProcessRaises, RequestCancel, Consume, dagVars
<1> QED
  BY AsyncCases, <1>1, <1>2, <1>3, <1>4 DEF StepMoves

-----------------------------------------------------------------------------
(* The log.                                                                *)

RecordsOf(l) == IF l # <<>> /\ l[Len(l)] = Validation THEN Len(l) - 1 ELSE Len(l)

(* Record i of l is what step i returned.                                  *)
Told(l, t, i) == l[i].step = i /\ l[i].res = t[i] /\ t[i] \in Succeeded

InOrder(l, t, c) ==
  /\ \A i \in 1 .. RecordsOf(l) : l[i].step = i \/ (i = RecordsOf(l) /\ l[i].step \in c)
  /\ \A i \in 1 .. RecordsOf(l) - 1 : l[i].res = t[i] /\ t[i] \in Succeeded

LogInv ==
  /\ LogIsSequential
  /\ pc # "end" => Len(log) = First[lvl] - 1 /\ \A i \in 1 .. Len(log) : Told(log, task, i)

LEMMA SequentialMeans ==
  LogIsSequential <=> InOrder(log, task, caps) /\ (exit = "success" => RecordsOf(log) = N)
BY DEF LogIsSequential, StepRecords, InOrder, RecordsOf

(* A log of what the steps returned is in order, whatever its last record; *)
(* and so it is when a validation failed in the end.                       *)
LEMMA ToldInOrder ==
  ASSUME NEW l \in Seq(Record), NEW t, NEW c \in SUBSET Node,
         \A i \in 1 .. Len(l) - 1 : Told(l, t, i),
         l # <<>> => l[Len(l)].step \in {Len(l)} \cup c
  PROVE  InOrder(l, t, c) /\ RecordsOf(l) = Len(l)
<1>1. Len(l) \in Nat /\ (l # <<>> => Len(l) \in 1 .. Len(l))
  OBVIOUS
<1>2. l # <<>> => l[Len(l)].step # 0
  BY <1>1, LevelBounds DEF Node
<1>3. RecordsOf(l) = Len(l)
  BY <1>2 DEF RecordsOf, Validation
<1> QED
  BY <1>1, <1>3 DEF InOrder, Told

LEMMA ValidatedInOrder ==
  ASSUME NEW l \in Seq(Record), NEW t, NEW c, \A i \in 1 .. Len(l) : Told(l, t, i),
         Validation \in Record
  PROVE  InOrder(Append(l, Validation), t, c)
<1> DEFINE m == Append(l, Validation)
<1>1. /\ Len(m) = Len(l) + 1 /\ Len(l) \in Nat /\ m[Len(l) + 1] = Validation
      /\ m \in Seq(Record) /\ \A i \in 1 .. Len(l) : m[i] = l[i]
  BY AppendType
<1> HIDE DEF m
<1>2. m # <<>>
  BY <1>1
<1>3. RecordsOf(m) = Len(l)
  BY <1>1, <1>2 DEF RecordsOf
<1>4. InOrder(m, t, c)
  BY <1>1, <1>3 DEF InOrder, Told
<1> QED
  BY <1>4 DEF m

(* The level's records after those of the levels before it.                *)
LEMMA LevelLogged ==
  ASSUME Typed, LogInv, LevelDone, lvl \in Level, NEW m \in InLevel(lvl),
         \A n \in InLevel(lvl) : n < m => ~Stops(n) /\ task[n] \in Succeeded
  PROVE  LET l == log \o Records(m)
         IN  /\ l \in Seq(Record) /\ Len(l) = m /\ l[m].step = m
             /\ \A i \in 1 .. m - 1 : Told(l, task, i)
             /\ ~Stops(m) /\ task[m] \in Succeeded => Told(l, task, m)
<1> DEFINE r == Records(m)
           l == log \o r
           f == First[lvl]
<1>1. pc = "level"
  BY DEF LevelDone
<1>2. log \in Seq(Record) /\ Len(log) = f - 1 /\ \A i \in 1 .. f - 1 : Told(log, task, i)
  BY <1>1 DEF Typed, Types, LogInv
<1>3. /\ r \in Seq(Record) /\ Len(r) = m - f + 1
      /\ \A i \in 1 .. m - f + 1 :
           r[i].step = f + i - 1 /\ (~Stops(f + i - 1) => r[i].res = task[f + i - 1])
  <2>1. /\ r \in Seq(Record) /\ Len(r) = m - f + 1
        /\ \A i \in 1 .. m - f + 1 :
             LET n == f + i - 1
             IN  r[i] = [step |-> n, res |-> IF Stops(n) THEN "failed" ELSE task[n]]
    BY RecordsType, Zenon DEF Typed
  <2> HIDE DEF r, f
  <2> QED
    BY <2>1
<1>4. f \in Nat /\ f >= 1 /\ m \in Nat /\ m >= f /\ \A n \in f .. m : n \in InLevel(lvl)
  BY LevelBounds DEF InLevel
<1>5. /\ l \in Seq(Record) /\ Len(l) = (f - 1) + (m - f + 1)
      /\ \A i \in 1 .. f - 1 : l[i] = log[i]
      /\ \A i \in 1 .. m - f + 1 : l[f - 1 + i] = r[i]
  <2> HIDE DEF r, f
  <2>1. /\ l \in Seq(Record) /\ Len(l) = Len(log) + Len(r)
        /\ \A i \in 1 .. Len(log) : l[i] = log[i]
        /\ \A i \in 1 .. Len(r) : l[Len(log) + i] = r[i]
    <3>1. log \in Seq(Record) /\ r \in Seq(Record)
      BY <1>2, <1>3, Zenon
    <3> QED
      BY <3>1, Joined
  <2> QED
    BY <2>1, <1>2, <1>3, Zenon
<1> HIDE DEF r, l, f
<1>6. Len(l) = m
  BY <1>4, <1>5
<1>7. ASSUME NEW i \in 1 .. m, i >= f
      PROVE  l[i].step = i /\ (~Stops(i) => l[i].res = task[i])
  <2>1. i - f + 1 \in 1 .. m - f + 1 /\ f - 1 + (i - f + 1) = i /\ f + (i - f + 1) - 1 = i
    BY <1>4, <1>7
  <2>2. l[i] = r[i - f + 1]
    BY <1>5, <2>1
  <2> QED
    BY <1>3, <2>1, <2>2
<1>8. ASSUME NEW i \in 1 .. m - 1 PROVE Told(l, task, i)
  <2>1. CASE i < f
    <3>1. i \in 1 .. f - 1
      BY <1>4, <2>1
    <3> QED
      BY <1>2, <1>5, <3>1 DEF Told
  <2>2. CASE i >= f
    <3>1. i \in 1 .. m /\ i \in InLevel(lvl) /\ i < m
      BY <1>4, <2>2
    <3> QED
      BY <1>7, <2>2, <3>1 DEF Told
  <2> QED
    BY <1>4, <2>1, <2>2
<1>9. l[m].step = m /\ (~Stops(m) => l[m].res = task[m])
  BY <1>4, <1>7
<1> QED
  BY <1>5, <1>6, <1>8, <1>9 DEF Told, l, r

LEMMA LogInit == SInit => LogInv
<1> SUFFICES ASSUME SInit PROVE LogInv
  OBVIOUS
<1>1. log = <<>> /\ lvl = 1 /\ exit = "none" /\ First[1] = 1
  BY LevelBounds DEF SInit, Init
<1> QED
  BY <1>1 DEF LogInv, LogIsSequential, StepRecords

(* A step that logs nothing and does not end in success.                   *)
LEMMA LogKept ==
  ASSUME Typed, TaskInv, LogInv, [SNext]_vars, UNCHANGED <<log, caps, lvl>>,
         exit' = "success" => exit = "success", pc' # "end" => pc # "end"
  PROVE  LogInv'
<1>1. \A n \in Node : task[n] \in Succeeded => task'[n] = task[n]
  BY SucceededStay
<1>2. \A i \in 1 .. Len(log) : log[i] \in Record
  BY DEF Typed, Types
<1>3. \A i \in 1 .. Len(log) : log[i].step = i => i \in Node
  BY <1>2, LevelBounds DEF Record, Node
<1>4. RecordsOf(log) \in Int /\ RecordsOf(log) <= Len(log) /\ Len(log) \in Nat
  BY DEF RecordsOf, Typed, Types
<1>5. InOrder(log, task, caps)
  BY SequentialMeans DEF LogInv
<1>6. \A i \in 1 .. RecordsOf(log) - 1 : i \in Node /\ i \in 1 .. RecordsOf(log)
  <2>1. \A i \in 1 .. RecordsOf(log) - 1 :
          i \in 1 .. Len(log) /\ i \in 1 .. RecordsOf(log) /\ i # RecordsOf(log)
    BY <1>4
  <2> QED
    BY <2>1, <1>3, <1>5 DEF InOrder
<1>7. InOrder(log, task', caps)
  BY <1>1, <1>5, <1>6 DEF InOrder
<1>8. exit' = "success" => RecordsOf(log) = N
  BY SequentialMeans DEF LogInv
<1>9. LogIsSequential'
  BY <1>7, <1>8 DEF LogIsSequential, StepRecords, InOrder, RecordsOf
<1>10. pc' # "end" => \A i \in 1 .. Len(log) : Told(log, task', i)
  BY <1>1, <1>3 DEF LogInv, Told
<1> QED
  BY <1>9, <1>10 DEF LogInv, Told

LEMMA LogStep == Typed /\ TaskInv /\ LogInv /\ [SNext]_vars => LogInv'
<1> SUFFICES ASSUME Typed, TaskInv, LogInv, [SNext]_vars PROVE LogInv'
  OBVIOUS
<1>t. log \in Seq(Record) /\ caps \subseteq Node /\ Validation \in Record
  BY LevelBounds DEF Typed, Types, Validation, Record, TaskState
<1>1. ASSUME Beside, Start \/ EnterLevel \/ LevelRaises \/ ProcessRaises \/ RequestCancel
      PROVE  LogInv'
  BY <1>1, LogKept DEF Beside, Start, EnterLevel, LevelRaises, ProcessRaises, RequestCancel,
     Escapes
<1>2. ASSUME Beside, StepMoves PROVE LogInv'
  BY <1>2, LogKept, StepMeans DEF Beside
<1>3. ASSUME TaskCancelled PROVE LogInv'
  BY <1>3, LogKept DEF TaskCancelled, Escapes
<1>4. ASSUME Consume PROVE LogInv'
  BY <1>4, LogKept DEF Consume, dagVars
<1>5. ASSUME Beside, LevelMerges PROVE LogInv'
  <2>1. /\ LevelDone /\ lvl \in Level /\ pc # "end" /\ exit = "none"
        /\ \A n \in InLevel(lvl) : ~Stops(n) /\ task[n] \in Succeeded
    BY <1>5, DoneMeans DEF LevelMerges, Stopping, LevelDone, Typed, Placed
  <2> DEFINE m == First[lvl + 1] - 1
             l == log \o Records(m)
  <2>2. m \in InLevel(lvl) /\ m \in Nat
    BY <2>1, LevelBounds DEF InLevel
  <2>3. /\ log' = l /\ lvl' = lvl + 1 /\ UNCHANGED <<task, exit, caps>>
    BY <1>5 DEF LevelMerges, Beside
  <2>4. l \in Seq(Record) /\ Len(l) = m /\ l[m].step = m /\ \A i \in 1 .. m : Told(l, task, i)
    <3>1. /\ l \in Seq(Record) /\ Len(l) = m /\ l[m].step = m
          /\ \A i \in 1 .. m - 1 : Told(l, task, i)
          /\ Told(l, task, m)
      BY <2>1, <2>2, LevelLogged
    <3> HIDE DEF l, m
    <3> QED
      BY <2>2, <3>1
  <2>5. First[lvl'] - 1 = m
    BY <2>3
  <2> HIDE DEF l, m
  <2>6. InOrder(l, task, caps)
    BY <1>t, <2>2, <2>4, ToldInOrder
  <2>7. LogIsSequential'
    BY <2>1, <2>3, <2>6 DEF LogIsSequential, StepRecords, InOrder, RecordsOf
  <2> QED
    BY <2>3, <2>4, <2>5, <2>7 DEF LogInv, Told
<1>6. ASSUME Beside, Answer PROVE LogInv'
  <2>1. /\ pc \in {"boundary", "level"} /\ pc' = "end" /\ UNCHANGED <<lvl, task, caps>>
    BY <1>6, AnswerMeans DEF Beside
  <2>2. Len(log) = First[lvl] - 1 /\ \A i \in 1 .. Len(log) : Told(log, task, i)
    BY <2>1 DEF LogInv
  <2>3. InOrder(log, task, caps) /\ RecordsOf(log) = Len(log)
    <3>1. Len(log) \in Nat /\ (log # <<>> => Len(log) \in 1 .. Len(log))
      BY <1>t
    <3>2. (\A i \in 1 .. Len(log) - 1 : Told(log, task, i))
          /\ (log # <<>> => log[Len(log)].step \in {Len(log)} \cup caps)
      BY <2>2, <3>1 DEF Told
    <3> QED
      BY <1>t, <3>2, ToldInOrder
  <2>4. InOrder(log', task, caps) /\ (exit' = "success" => RecordsOf(log') = N)
    <3>1. CASE InvalidInput
      <4>1. log' = Append(<<>>, Validation) /\ exit' = "failure"
        BY <3>1 DEF InvalidInput, Result
      <4>2. \A i \in 1 .. Len(<<>>) : Told(<<>>, task, i)
        OBVIOUS
      <4>3. <<>> \in Seq(Record)
        OBVIOUS
      <4> QED
        BY <1>t, <4>1, <4>2, <4>3, ValidatedInOrder
    <3>2. CASE CancelRun
      BY <3>2, <2>3 DEF CancelRun, Result
    <3>3. CASE RejectCapability
      <4> DEFINE x == [step |-> Min(InLevel(lvl) \cap caps), res |-> "failed"]
                 l == Append(log, x)
      <4>1. Min(InLevel(lvl) \cap caps) \in caps
        BY <3>3, MinMax, LevelBounds DEF RejectCapability
      <4>2. x \in Record /\ x.step \in caps
        <5>1. Min(InLevel(lvl) \cap caps) \in Node
          BY <1>t, <4>1
        <5>2. \A n \in Node : n \in 0 .. N
          BY LevelBounds DEF Node
        <5>3. "failed" \in TaskState
          BY DEF TaskState
        <5> QED
          BY <4>1, <5>1, <5>2, <5>3 DEF Record
      <4>3. log' = l /\ exit' = "failure"
        BY <3>3 DEF RejectCapability, Result
      <4> HIDE DEF x
      <4>4. /\ l \in Seq(Record) /\ Len(l) = Len(log) + 1 /\ l[Len(log) + 1] = x
            /\ Len(log) \in Nat /\ \A i \in 1 .. Len(log) : l[i] = log[i]
        BY <1>t, <4>2, AppendType
      <4> HIDE DEF l
      <4>5. \A i \in 1 .. Len(l) - 1 : Told(l, task, i)
        BY <2>2, <4>4 DEF Told
      <4>6. l[Len(l)].step \in {Len(l)} \cup caps
        BY <4>2, <4>4
      <4> QED
        BY <1>t, <4>3, <4>4, <4>5, <4>6, ToldInOrder
    <3>4. CASE LevelFails
      <4>1. LevelDone /\ Stopping # {} /\ log' = log \o Records(StopAt) /\ exit' = "failure"
        BY <3>4 DEF LevelFails, Result
      <4>2. lvl \in Level /\ \A n \in InLevel(lvl) : ~Stops(n) => task[n] \in Succeeded
        BY <4>1, DoneMeans
      <4>3. StopAt \in Stopping /\ \A n \in Stopping : StopAt <= n
        BY <4>1, <4>2, MinMax, LevelBounds DEF StopAt, Stopping
      <4>4. StopAt \in InLevel(lvl) /\ StopAt \in Node
        BY <4>2, <4>3, LevelBounds DEF Stopping
      <4>5. \A n \in InLevel(lvl) : n < StopAt => ~Stops(n) /\ task[n] \in Succeeded
        <5>1. \A n \in InLevel(lvl) : n \in Int /\ StopAt \in Int
          BY <4>2, <4>4, LevelBounds DEF Node
        <5> QED
          BY <4>2, <4>3, <5>1 DEF Stopping
      <4> DEFINE m == StopAt
                 l == log \o Records(m)
      <4> HIDE DEF m
      <4>6. /\ l \in Seq(Record) /\ Len(l) = m /\ l[m].step = m
            /\ \A i \in 1 .. m - 1 : Told(l, task, i)
        BY <4>1, <4>2, <4>4, <4>5, LevelLogged DEF m
      <4>7. log' = l
        BY <4>1 DEF m
      <4> HIDE DEF l
      <4> QED
        BY <1>t, <4>1, <4>6, <4>7, ToldInOrder
    <3>5. CASE Complete
      <4>1. Len(log) = N
        BY <2>2, <3>5, LevelBounds DEF Complete
      <4>2. log' = log \/ (log' = Append(log, Validation) /\ exit' = "failure")
        BY <3>5 DEF Complete, Result
      <4> QED
        BY <1>t, <2>2, <2>3, <4>1, <4>2, ValidatedInOrder
    <3> QED
      BY <1>6, <3>1, <3>2, <3>3, <3>4, <3>5 DEF Answer
  <2>5. LogIsSequential'
    BY <2>1, <2>4 DEF LogIsSequential, StepRecords, InOrder, RecordsOf
  <2> QED
    BY <2>1, <2>5 DEF LogInv
<1> QED
  BY AsyncCases, <1>1, <1>2, <1>3, <1>4, <1>5, <1>6 DEF StepMoves

LEMMA LogAlways == Spec => []LogInv
BY LogInit, LogStep, TypedAlways, TaskAlways, PTL DEF Spec

-----------------------------------------------------------------------------
(* The contexts the steps read.                                            *)

SeenInv ==
  /\ \A k \in Key : ctx[k] < First[lvl]
  /\ SiblingsReadSameContext

LEMMA SeenInit == SInit => SeenInv
<1> SUFFICES ASSUME SInit PROVE SeenInv
  OBVIOUS
<1>1. \A k \in Key : ctx[k] = 0 /\ \A n \in Node : seen[n][k] = 0
  BY DEF SInit, Init, NoContext
<1>2. First[lvl] > 0 /\ \A l \in Level : First[l] > 0 /\ InLevel(l) \subseteq Node
  BY LevelBounds DEF SInit, Init
<1> QED
  BY <1>1, <1>2 DEF SeenInv, SiblingsReadSameContext

LEMMA SeenStep == Typed /\ TaskInv /\ SeenInv /\ [SNext]_vars => SeenInv'
<1> SUFFICES ASSUME Typed, TaskInv, SeenInv, [SNext]_vars PROVE SeenInv'
  OBVIOUS
<1>1. ASSUME UNCHANGED <<ctx, seen, lvl>> PROVE SeenInv'
  BY <1>1 DEF SeenInv, SiblingsReadSameContext
<1>2. ASSUME LevelMerges PROVE SeenInv'
  <2>1. /\ lvl \in Level /\ lvl' = lvl + 1 /\ seen' = seen
        /\ \A k \in Key : ctx'[k] = IF Writers(k) = {} THEN ctx[k] ELSE Max(Writers(k))
    BY <1>2 DEF LevelMerges, LevelDone, Typed, Placed
  <2>2. ASSUME NEW k \in Key PROVE ctx'[k] < First[lvl']
    <3>1. First[lvl] < First[lvl + 1] /\ First[lvl] \in Int /\ First[lvl + 1] \in Int
      BY <2>1, LevelBounds
    <3>2. ctx[k] \in Int /\ ctx[k] < First[lvl]
      BY DEF SeenInv, Typed, Types, Context
    <3>3. Writers(k) # {} => Max(Writers(k)) \in InLevel(lvl)
      BY <2>1, LevelBounds, MinMax DEF Writers
    <3>4. \A n \in InLevel(lvl) : n < First[lvl + 1]
      BY <3>1 DEF InLevel
    <3> QED
      BY <2>1, <3>1, <3>2, <3>3, <3>4
  <2> QED
    BY <2>1, <2>2 DEF SeenInv, SiblingsReadSameContext
<1>3. ASSUME StepMoves PROVE SeenInv'
  <2> PICK n \in Node :
        /\ Busy(n) /\ (seen' = seen \/ seen' = [seen EXCEPT ![n] = ctx])
        /\ UNCHANGED <<ctx, lvl>>
    BY <1>3, StepMeans DEF Busy
  <2>1. lvl \in Level /\ n \in InLevel(lvl)
    BY DEF TaskInv
  <2>2. ASSUME NEW l \in Level, NEW m \in InLevel(l), NEW k \in Key, seen'[m] # seen[m]
        PROVE  seen'[m][k] < First[l]
    <3>1. m = n /\ seen'[m] = ctx
      BY <2>2, LevelBounds DEF Typed, Types
    <3>2. l = lvl
      <4>1. ~(l < lvl) /\ ~(lvl < l)
        BY <2>1, <3>1, LevelsApart, LevelBounds DEF InLevel
      <4> QED
        BY <2>1, <4>1, LevelBounds DEF Level
    <3> QED
      BY <3>1, <3>2 DEF SeenInv
  <2> QED
    BY <2>2 DEF SeenInv, SiblingsReadSameContext
<1>4. Start \/ Answer \/ EnterLevel \/ LevelRaises \/ ProcessRaises \/ RequestCancel
      \/ TaskCancelled \/ Consume => UNCHANGED <<ctx, seen, lvl>>
  BY AnswerMeans DEF Start, EnterLevel, LevelRaises, ProcessRaises, RequestCancel,
     TaskCancelled, Consume, dagVars
<1> QED
  BY AsyncCases, <1>1, <1>2, <1>3, <1>4 DEF StepMoves

(* The concurrent lane computes what the sequential one does: the log is   *)
(* in declaration order up to the first failure, whichever step of a level *)
(* finished first, and no step reads the output of a sibling               *)
(* (_execute_dag_flow_async, _run_dag_level_async).                        *)
THEOREM AsyncLevelsSequential == Spec => []LevelsAreSequential
<1>1. LogInv /\ SeenInv => LevelsAreSequential
  BY Zenon DEF LogInv, SeenInv, LevelsAreSequential
<1>2. Spec => []SeenInv
  BY SeenInit, SeenStep, TypedAlways, TaskAlways, PTL DEF Spec
<1> QED
  BY <1>1, <1>2, LogAlways, PTL

-----------------------------------------------------------------------------
(* The events.                                                             *)

Unended == {"none", "queued", "running"}      \* a step whose step_end is to come
Open    == {"running", "raised", "cancelled"} \* a step whose step_start may stand alone

(* What the events tell agrees with the tasks and with how the run ended.  *)
Started == events # <<>> => At(1, "flow_start", 0)
Placement ==
  \A i \in 1 .. Len(events) :
    /\ events[i].kind = "flow_start" => i = 1
    /\ events[i].kind = "flow_end" => i = Len(events) /\ exit \in Answers
Paired ==
  \A i \in 1 .. Len(events), n \in Node :
    /\ At(i, "step_start", n) =>
         /\ ~\E j \in 1 .. i : At(j, "step_end", n)
         /\ task[n] \in Open \/ \E j \in 1 .. Len(events) : At(j, "step_end", n)
    /\ At(i, "step_end", n) => task[n] \notin Unended
Ended ==
  exit \in Answers =>
    events # <<>> /\ At(Len(events), "flow_end", 0) /\ mark = Len(events)
Begun ==
  /\ pc \in {"boundary", "level"} => events # <<>>
  /\ events = <<>> => \A n \in Node : task[n] = "none"

EventInv == Started /\ Placement /\ Paired /\ Ended /\ Begun

(* A step of the run without an event.                                     *)
LEMMA EventsKept ==
  ASSUME Typed, EventInv, events' = events,
         \A n \in Node : task[n] \in Open => task'[n] \in Open,
         \A n \in Node : task[n] \notin Unended => task'[n] \notin Unended,
         exit' \in Answers <=> exit \in Answers, exit \in Answers => mark' = mark,
         pc' \in {"boundary", "level"} => pc \in {"boundary", "level"},
         events = <<>> => \A n \in Node : task'[n] = "none"
  PROVE  EventInv'
<1>1. \A i, kind, n : At(i, kind, n)' <=> At(i, kind, n)
  BY DEF At, Event
<1>2. Started' /\ Placement' /\ Begun'
  BY <1>1 DEF EventInv, Started, Placement, Begun
<1>3. Ended'
  BY <1>1 DEF EventInv, Ended
<1>4. Paired'
  BY <1>1 DEF EventInv, Paired
<1> QED
  BY <1>2, <1>3, <1>4 DEF EventInv

(* One more event.                                                         *)
LEMMA OneMore ==
  ASSUME Typed, NEW kind \in EventKind, NEW n \in Node \cup {0},
         events' = Append(events, Event(kind, n))
  PROVE  /\ Len(events') = Len(events) + 1 /\ Len(events) \in Nat /\ events' # <<>>
         /\ events'[Len(events) + 1] = Event(kind, n)
         /\ \A i \in 1 .. Len(events) : events'[i] = events[i]
<1>1. Event(kind, n) \in Events /\ events \in Seq(Events)
  BY LevelBounds DEF Event, Events, Node, Typed, Types
<1> QED
  BY <1>1, AppendType

(* What a task's event is about.                                           *)
LEMMA StepTells ==
  ASSUME Typed, StepMoves
  PROVE  \E n \in Node :
           /\ Busy(n) /\ UNCHANGED <<pc, exit>> /\ \A m \in Node \ {n} : task'[m] = task[m]
           /\ \/ /\ events' = Append(events, Event("step_start", n))
                 /\ task[n] = "queued" /\ task'[n] = "running"
              \/ /\ events' = Append(events, Event("step_end", n))
                 /\ task'[n] \notin Unended
              \/ /\ events' = events /\ task'[n] \notin Unended
                 /\ task[n] = "running" => task'[n] = "raised"
<1>t. task \in [Node -> TaskState]
  BY DEF Typed, Types
<1>1. ASSUME NEW n \in Node, StepStarts(n)
      PROVE  /\ Busy(n) /\ UNCHANGED <<pc, exit>> /\ \A m \in Node \ {n} : task'[m] = task[m]
             /\ events' = Append(events, Event("step_start", n))
             /\ task[n] = "queued" /\ task'[n] = "running"
  BY <1>1, <1>t DEF StepStarts, Turn, Busy
<1>2. ASSUME NEW n \in Node, StepRefused(n)
      PROVE  /\ Busy(n) /\ UNCHANGED <<pc, exit>> /\ \A m \in Node \ {n} : task'[m] = task[m]
             /\ events' = Append(events, Event("step_end", n)) \/ events' = events
             /\ task[n] = "queued" /\ task'[n] \notin Unended
  BY <1>2, <1>t DEF StepRefused, Turn, Busy, Unended
<1>3. ASSUME NEW n \in Node, NEW r \in Succeeded \cup {"failed"}, StepReturns(n, r)
      PROVE  /\ Busy(n) /\ UNCHANGED <<pc, exit>> /\ \A m \in Node \ {n} : task'[m] = task[m]
             /\ events' = Append(events, Event("step_end", n)) /\ task'[n] \notin Unended
  BY <1>3, <1>t DEF StepReturns, Busy, Unended, Succeeded
<1>4. ASSUME NEW n \in Node, StepRaises(n)
      PROVE  /\ Busy(n) /\ UNCHANGED <<pc, exit>> /\ \A m \in Node \ {n} : task'[m] = task[m]
             /\ events' = events /\ task'[n] = "raised" /\ task'[n] \notin Unended
  BY <1>4, <1>t DEF StepRaises, Busy, Unended
<1> QED
  BY <1>1, <1>2, <1>3, <1>4 DEF StepMoves

LEMMA EventInit == SInit => EventInv
BY DEF SInit, Init, EventInv, Started, Placement, Paired, Ended, Begun, Answers

LEMMA EventStep == Typed /\ TaskInv /\ EventInv /\ [SNext]_vars => EventInv'
<1> SUFFICES ASSUME Typed, TaskInv, EventInv, [SNext]_vars PROVE EventInv'
  OBVIOUS
<1>t. /\ task \in [Node -> TaskState] /\ Len(events) \in Nat /\ events \in Seq(Events)
      /\ pc # "end" => exit = "none" /\ mark = NoMark
      /\ "none" \notin Answers /\ "raised" \notin Answers /\ "aborted" \notin Answers
  BY DEF Typed, Types, Placed, Answers
<1>1. ASSUME Beside, Start PROVE EventInv'
  <2>1. /\ events' = <<Event("flow_start", 0)>> /\ pc' = "boundary"
        /\ UNCHANGED <<task, exit>> /\ exit = "none"
    BY <1>1, <1>t DEF Start
  <2>2. /\ Len(events') = 1 /\ events'[1] = Event("flow_start", 0) /\ events' # <<>>
        /\ events'[1].kind = "flow_start"
    BY <2>1 DEF Event
  <2>3. \A i \in 1 .. Len(events') : i = 1
    BY <2>2
  <2>4. Started' /\ Placement' /\ Begun' /\ Ended'
    BY <2>1, <2>2, <2>3, <1>t DEF Started, Placement, Begun, Ended, At
  <2>5. Paired'
    BY <2>2, <2>3 DEF Paired, At, Event
  <2> QED
    BY <2>4, <2>5 DEF EventInv
<1>2. ASSUME Beside, Answer PROVE EventInv'
  <2>1. /\ pc \in {"boundary", "level"} /\ pc' = "end" /\ exit' \in Answers
        /\ events' = Append(events, Event("flow_end", 0)) /\ task' = task
    BY <1>2, AnswerMeans
  <2>2. /\ Len(events') = Len(events) + 1 /\ events' # <<>>
        /\ events'[Len(events) + 1] = Event("flow_end", 0)
        /\ \A i \in 1 .. Len(events) : events'[i] = events[i]
    BY <2>1, OneMore DEF EventKind
  <2>3. events # <<>> /\ 1 \in 1 .. Len(events)
    BY <2>1, <1>t DEF EventInv, Begun
  <2>4. exit = "none" /\ mark = NoMark
    BY <2>1, <1>t
  <2>5. mark' = Len(events')
    BY <1>2, <2>1, <2>4 DEF Beside, Ends
  <2>6. Started' /\ Begun' /\ Ended'
    BY <2>1, <2>2, <2>3, <2>5 DEF EventInv, Started, Begun, Ended, At, Event
  <2>7. Placement'
    <3>1. ASSUME NEW i \in 1 .. Len(events')
          PROVE  /\ events'[i].kind = "flow_start" => i = 1
                 /\ events'[i].kind = "flow_end" => i = Len(events')
      <4>1. CASE i \in 1 .. Len(events)
        BY <2>2, <2>4, <4>1, <1>t DEF EventInv, Placement
      <4>2. CASE i = Len(events) + 1
        BY <2>2, <4>2 DEF Event
      <4> QED
        BY <2>2, <4>1, <4>2, <1>t
    <3> QED
      BY <2>1, <3>1 DEF Placement
  <2>8. Paired'
    <3>1. \A kind \in {"step_start", "step_end"}, n \in Node, i \in 1 .. Len(events') :
            At(i, kind, n)' <=> i \in 1 .. Len(events) /\ At(i, kind, n)
      BY <2>2, <1>t DEF At, Event
    <3>2. 1 .. Len(events) \subseteq 1 .. Len(events')
      BY <2>2, <1>t
    <3> QED
      BY <2>1, <3>1, <3>2 DEF EventInv, Paired
  <2> QED
    BY <2>6, <2>7, <2>8 DEF EventInv
<1>3. ASSUME Beside, EnterLevel PROVE EventInv'
  <2>1. /\ pc = "boundary" /\ UNCHANGED <<events, exit>> /\ lvl \in Level
        /\ \A n \in Node : task'[n] = IF n \in InLevel(lvl) THEN "queued" ELSE task[n]
    BY <1>3 DEF EnterLevel
  <2>2. \A n \in InLevel(lvl) : task[n] = "none"
    BY <2>1, LevelBounds DEF TaskInv, InLevel
  <2>3. events # <<>>
    BY <2>1 DEF EventInv, Begun
  <2> QED
    BY <1>t, <2>1, <2>2, <2>3, EventsKept DEF Open, Unended
<1>4. ASSUME Beside, LevelRaises \/ ProcessRaises PROVE EventInv'
  <2>1. /\ pc = "level" /\ pc' = "end" /\ exit' = "raised" /\ events' = events
        /\ \A n \in Node : task'[n] = task[n] \/ (task[n] = "queued" /\ task'[n] = "none")
    BY <1>4, <1>t DEF LevelRaises, ProcessRaises, LevelDone, Escapes
  <2>2. events # <<>> /\ exit = "none"
    BY <2>1, <1>t DEF EventInv, Begun
  <2> QED
    BY <1>t, <2>1, <2>2, EventsKept DEF Open, Unended
<1>5. ASSUME TaskCancelled PROVE EventInv'
  <2>1. /\ pc' = "end" /\ exit' = "aborted" /\ events' = events /\ exit = "none"
        /\ \A n \in Node : task'[n] = IF Busy(n) THEN "cancelled" ELSE task[n]
    BY <1>5, <1>t DEF TaskCancelled, Escapes, CancelledTasks, Live, In, Busy
  <2>2. events = <<>> => \A n \in Node : task'[n] = "none"
    BY <2>1 DEF EventInv, Begun, Busy
  <2> QED
    BY <1>t, <2>1, <2>2, EventsKept DEF Open, Unended, Busy
<1>6. ASSUME RequestCancel \/ LevelMerges, Beside PROVE EventInv'
  <2>1. /\ UNCHANGED <<events, exit, task>> /\ pc # "end"
        /\ pc' \in {"boundary", "level"} => pc \in {"boundary", "level"}
    BY <1>6 DEF RequestCancel, LevelMerges, LevelDone
  <2>2. exit \notin Answers
    BY <2>1, <1>t
  <2>3. events = <<>> => \A n \in Node : task'[n] = "none"
    BY <2>1 DEF EventInv, Begun
  <2> QED
    BY <2>1, <2>2, <2>3, EventsKept
<1>7. ASSUME Consume PROVE EventInv'
  <2>1. UNCHANGED <<events, exit, task, pc, mark>>
    BY <1>7 DEF Consume, dagVars, Take, TakeSentinel, Abandon, TaskDone, WorkerEnds, vars
  <2>2. events = <<>> => \A n \in Node : task'[n] = "none"
    BY <2>1 DEF EventInv, Begun
  <2> QED
    BY <2>1, <2>2, EventsKept
<1>8. ASSUME Beside, StepMoves PROVE EventInv'
  <2> PICK n \in Node :
           /\ Busy(n) /\ UNCHANGED <<pc, exit>> /\ \A m \in Node \ {n} : task'[m] = task[m]
           /\ \/ /\ events' = Append(events, Event("step_start", n))
                 /\ task[n] = "queued" /\ task'[n] = "running"
              \/ /\ events' = Append(events, Event("step_end", n))
                 /\ task'[n] \notin Unended
              \/ /\ events' = events /\ task'[n] \notin Unended
                 /\ task[n] = "running" => task'[n] = "raised"
    BY <1>8, StepTells
  <2>1. exit \notin Answers /\ events # <<>> /\ 1 \in 1 .. Len(events)
    <3>1. pc = "level" \/ exit = "raised"
      BY DEF TaskInv
    <3>2. exit \notin Answers
      BY <1>t, <3>1
    <3>3. events # <<>>
      BY DEF EventInv, Begun, Busy
    <3> QED
      BY <1>t, <3>2, <3>3
  <2>2. task[n] \in Unended
    BY DEF Busy, Unended
  <2>3. CASE /\ events' = events /\ task'[n] \notin Unended
             /\ task[n] = "running" => task'[n] = "raised"
    <3>1. \A m \in Node : task[m] \in Open => task'[m] \in Open
      BY <2>3 DEF Open, Busy
    <3>2. \A m \in Node : task[m] \notin Unended => task'[m] \notin Unended
      BY <2>3
    <3> QED
      BY <2>1, <2>3, <3>1, <3>2, EventsKept
  <2>4. ASSUME NEW kind \in {"step_start", "step_end"}, events' = Append(events, Event(kind, n)),
               kind = "step_start" => task[n] = "queued" /\ task'[n] = "running",
               kind = "step_end" => task'[n] \notin Unended
        PROVE  EventInv'
    <3>1. /\ Len(events') = Len(events) + 1 /\ events' # <<>>
          /\ events'[Len(events) + 1] = Event(kind, n)
          /\ \A i \in 1 .. Len(events) : events'[i] = events[i]
      BY <2>4, OneMore DEF EventKind
    <3>2. Started' /\ Ended' /\ Begun'
      BY <2>1, <3>1 DEF EventInv, Started, Ended, Begun, At, Event
    <3>3. Placement'
      <4>1. ASSUME NEW i \in 1 .. Len(events')
            PROVE  (events'[i].kind = "flow_start" => i = 1) /\ events'[i].kind # "flow_end"
        <5>1. CASE i \in 1 .. Len(events)
          BY <2>1, <3>1, <5>1 DEF EventInv, Placement
        <5>2. CASE i = Len(events) + 1
          BY <3>1, <5>2 DEF Event
        <5> QED
          BY <3>1, <5>1, <5>2, <1>t
      <4> QED
        BY <4>1 DEF Placement
    <3>4. Paired'
      <4>1. \A k \in {"step_start", "step_end"}, m \in Node, i \in 1 .. Len(events') :
              At(i, k, m)' <=> \/ i \in 1 .. Len(events) /\ At(i, k, m)
                               \/ i = Len(events) + 1 /\ k = kind /\ m = n
        BY <3>1, <1>t DEF At, Event
      <4>2. 1 .. Len(events) \subseteq 1 .. Len(events') /\ Len(events) + 1 \in 1 .. Len(events')
        BY <3>1, <1>t
      <4>3. ASSUME NEW i \in 1 .. Len(events'), NEW m \in Node, At(i, "step_end", m)'
            PROVE  task'[m] \notin Unended
        <5>1. CASE m = n
          BY <2>2, <2>4, <4>1, <4>3, <5>1 DEF EventInv, Paired
        <5>2. CASE m # n
          BY <4>1, <4>3, <5>2 DEF EventInv, Paired
        <5> QED
          BY <5>1, <5>2
      <4>4. ASSUME NEW i \in 1 .. Len(events'), NEW m \in Node, At(i, "step_start", m)'
            PROVE  /\ ~\E j \in 1 .. i : At(j, "step_end", m)'
                   /\ task'[m] \in Open \/ \E j \in 1 .. Len(events') : At(j, "step_end", m)'
        <5>1. CASE i \in 1 .. Len(events) /\ At(i, "step_start", m)
          <6>1. /\ ~\E j \in 1 .. i : At(j, "step_end", m)
                /\ task[m] \in Open \/ \E j \in 1 .. Len(events) : At(j, "step_end", m)
            BY <5>1 DEF EventInv, Paired
          <6>2. \A j \in 1 .. i :
                  j \in 1 .. Len(events) /\ j \in 1 .. Len(events') /\ j # Len(events) + 1
            BY <5>1, <3>1, <1>t
          <6>3. ~\E j \in 1 .. i : At(j, "step_end", m)'
            BY <4>1, <6>1, <6>2
          <6>4. CASE \E j \in 1 .. Len(events) : At(j, "step_end", m)
            BY <4>1, <4>2, <6>3, <6>4
          <6>5. CASE task[m] \in Open /\ m # n
            BY <6>3, <6>5
          <6>6. CASE m = n /\ kind = "step_end"
            BY <4>1, <4>2, <6>3, <6>6
          <6>7. CASE m = n /\ kind = "step_start"
            BY <2>4, <6>3, <6>7 DEF Open
          <6> QED
            BY <6>1, <6>4, <6>5, <6>6, <6>7
        <5>2. CASE i = Len(events) + 1 /\ kind = "step_start" /\ m = n
          <6>1. \A j \in 1 .. Len(events) : ~At(j, "step_end", m)
            BY <2>2, <5>2 DEF EventInv, Paired
          <6>2. 1 .. i = 1 .. Len(events')
            BY <5>2, <3>1
          <6> QED
            BY <2>4, <4>1, <5>2, <6>1, <6>2 DEF Open
        <5> QED
          BY <4>1, <4>4, <5>1, <5>2
      <4> QED
        BY <4>3, <4>4 DEF Paired
    <3> QED
      BY <3>2, <3>3, <3>4 DEF EventInv
  <2> QED
    BY <2>3, <2>4
<1> QED
  BY AsyncCases, <1>1, <1>2, <1>3, <1>4, <1>5, <1>6, <1>7, <1>8 DEF StepMoves

LEMMA EventAlways == Spec => []EventInv
BY EventInit, EventStep, TypedAlways, TaskAlways, PTL DEF Spec

(* The consumer's stream is ordered, although the steps of a level         *)
(* interleave: flow_start first, each step_start before its step_end, and  *)
(* both before flow_end, which comes last; and a run that gave a result    *)
(* shows its flow_end before the iteration stops (stream_flow_async,       *)
(* _StreamCollectorMiddleware).                                            *)
THEOREM AsyncStreamOrdered == Spec => []StreamIsOrdered
<1>1. Typed /\ TaskInv /\ EventInv => StreamIsOrdered
  <2> SUFFICES ASSUME Typed, TaskInv, EventInv PROVE StreamIsOrdered
    OBVIOUS
  <2>t. taken \in 0 .. Len(events) /\ Len(events) \in Nat /\ (pc # "end" => exit \notin Answers)
    BY DEF Typed, Types, Placed, Answers
  <2>1. ASSUME NEW i \in 1 .. taken
        PROVE  /\ i = 1 <=> At(i, "flow_start", 0)
               /\ At(i, "flow_end", 0) =>
                    /\ i = taken
                    /\ \A n \in Node : (\E j \in 1 .. i : At(j, "step_start", n)) =>
                                         \E j \in 1 .. i : At(j, "step_end", n)
               /\ \A n \in Node : At(i, "step_start", n) =>
                    ~\E j \in 1 .. i : At(j, "step_end", n)
    <3>1. i \in 1 .. Len(events) /\ events # <<>>
      BY <2>t
    <3>2. i = 1 <=> At(i, "flow_start", 0)
      BY <3>1 DEF EventInv, Started, Placement, At, Event
    <3>3. ASSUME At(i, "flow_end", 0)
          PROVE  /\ i = taken
                 /\ \A n \in Node : (\E j \in 1 .. i : At(j, "step_start", n)) =>
                                      \E j \in 1 .. i : At(j, "step_end", n)
      <4>1. i = Len(events) /\ exit \in Answers
        BY <3>1, <3>3 DEF EventInv, Placement, At, Event
      <4>2. \A n \in Node : task[n] \notin Open
        BY <2>t, <4>1 DEF TaskInv, Busy, Open, Answers
      <4>3. \A n \in Node, j \in 1 .. i :
              At(j, "step_start", n) => \E m \in 1 .. i : At(m, "step_end", n)
        BY <4>1, <4>2 DEF EventInv, Paired
      <4> QED
        BY <2>t, <4>1, <4>3
    <3>4. \A n \in Node : At(i, "step_start", n) => ~\E j \in 1 .. i : At(j, "step_end", n)
      BY <3>1 DEF EventInv, Paired
    <3> QED
      BY <3>2, <3>3, <3>4
  <2>2. consumer = "closed" /\ exit \in {"success", "failure", "cancelled"} /\ taken = mark =>
          At(taken, "flow_end", 0)
    BY DEF EventInv, Ended, Answers
  <2> QED
    BY <2>1, <2>2 DEF StreamIsOrdered
<1> QED
  BY <1>1, TypedAlways, TaskAlways, EventAlways, PTL

-----------------------------------------------------------------------------
(* The abandoned run.                                                      *)

Closed == exit = "aborted" => consumer = "closed"

LEMMA ClosedStep == Typed /\ Closed /\ [SNext]_vars => Closed'
<1> SUFFICES ASSUME Typed, Closed, [SNext]_vars PROVE Closed'
  OBVIOUS
<1>1. ASSUME Beside, Start \/ Answer \/ EnterLevel \/ LevelRaises \/ LevelMerges \/ ProcessRaises
                     \/ RequestCancel \/ StepMoves
      PROVE  Closed'
  <2>1. Answer => exit' # "aborted"
    BY AnswerMeans DEF Answers
  <2>2. StepMoves => exit' = exit
    BY StepMeans
  <2>3. Start \/ EnterLevel \/ LevelRaises \/ LevelMerges \/ ProcessRaises \/ RequestCancel
        => exit' = exit \/ exit' = "raised"
    BY DEF Start, EnterLevel, LevelRaises, LevelMerges, ProcessRaises, RequestCancel, Escapes
  <2> QED
    BY <1>1, <2>1, <2>2, <2>3 DEF Beside, Closed
<1>2. CASE TaskCancelled
  BY <1>2 DEF TaskCancelled, Closed
<1>3. CASE Consume
  <2>1. exit' = exit /\ (consumer = "closed" => consumer' = "closed")
    BY <1>3 DEF Consume, dagVars, Take, TakeSentinel, Abandon, TaskDone, WorkerEnds, vars
  <2> QED
    BY <2>1 DEF Closed
<1> QED
  BY AsyncCases, <1>1, <1>2, <1>3 DEF StepMoves

(* After the consumer has left, the run stands still: at most a worker     *)
(* thread ends.                                                            *)
LEMMA StandsStill ==
  ASSUME Typed, TaskInv, Closed, exit = "aborted", [SNext]_vars
  PROVE  threads' \subseteq threads /\ UNCHANGED dagVars
<1>1. pc = "end" /\ consumer = "closed" /\ \A n \in Node : ~Busy(n)
  BY DEF Typed, Placed, TaskInv, Closed
<1>2. ~(Start \/ Answer \/ EnterLevel \/ LevelRaises \/ LevelMerges \/ ProcessRaises \/ RequestCancel)
  <2>1. ~Answer
    BY <1>1, AnswerMeans
  <2> QED
    BY <1>1, <2>1 DEF Start, EnterLevel, LevelRaises, LevelMerges, LevelDone, ProcessRaises, RequestCancel
<1>3. ~StepMoves
  <2>1. StepMoves => \E n \in Node : Busy(n)
    BY StepMeans DEF Busy
  <2> QED
    BY <1>1, <2>1
<1>4. ~TaskCancelled
  BY <1>1 DEF TaskCancelled
<1>5. Consume
  BY AsyncCases, <1>2, <1>3, <1>4 DEF StepMoves
<1> QED
  BY <1>5 DEF Consume, Take, TakeSentinel, Abandon, TaskDone, WorkerEnds, ThreadEnds, vars

(* A consumer that leaves a run behind cancels all of it that can be       *)
(* cancelled: no step is under way afterwards and none starts, and a sync  *)
(* tool's worker thread, which goes on (tools.py:453), touches nothing of  *)
(* the run (task.cancel in stream_flow_async).                             *)
THEOREM AsyncAbandonedStops == Spec => AbandonedRunStops
<1>1. Typed /\ TaskInv /\ ThreadInv /\ Closed =>
        (exit = "aborted" => Live = {} /\ consumer = "closed" /\ \A n \in threads : task[n] # "none")
  <2> SUFFICES ASSUME Typed, TaskInv, ThreadInv, Closed, exit = "aborted"
               PROVE  Live = {} /\ consumer = "closed" /\ \A n \in threads : task[n] # "none"
    OBVIOUS
  <2>1. \A n \in Node : ~Busy(n)
    BY DEF Typed, Placed, TaskInv
  <2> QED
    BY <2>1 DEF Closed, ThreadInv, Live, In, Busy
<1>2. Typed /\ TaskInv /\ Closed /\ [SNext]_vars =>
        [exit = "aborted" => threads' \subseteq threads /\ UNCHANGED dagVars]_vars
  BY StandsStill
<1>3. SInit => Closed
  BY DEF SInit, Init, Closed
<1>4. Spec => []Typed /\ []TaskInv /\ []ThreadInv /\ []Closed
  BY <1>3, ClosedStep, TypedAlways, TaskAlways, ThreadAlways, PTL DEF Spec
<1> QED
  BY <1>1, <1>2, <1>4, PTL DEF Spec, AbandonedRunStops
=============================================================================
