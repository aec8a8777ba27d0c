--------------------------- MODULE LinearRunProofs ---------------------------
(***************************************************************************)
(* LinearRun's invariants and its refinement of DurableRun, for every flow *)
(* (number of steps, keys, mappings, policies), every number of resumes    *)
(* and every set of hashes and versions.                                   *)
(***************************************************************************)
EXTENDS LinearRun, TLAPS

Snapshots == [done : 0 .. N, ctx : Context, log : Seq(Record),
              hash : [Step -> Hash \cup {Missing}], version : Version]

-----------------------------------------------------------------------------
(* Types of the values the actions build.                                  *)

(* A merge of outputs yields a context.                                    *)
LEMMA MergeType ==
  ASSUME NEW c \in Context, NEW s \in Step, NEW r
  PROVE  Merge(c, s, r) \in Context
BY FlowAssumption DEF Merge, Context, Step, Absent

(* The seeded and the empty context are contexts.                          *)
LEMMA SeedType ==
  /\ EmptyContext \in Context
  /\ \A g \in SUBSET Key : SeedContext(g) \in Context
BY FlowAssumption DEF EmptyContext, SeedContext, Context, Absent, Initial

(* The record of a step, and the synthetic records, are records.           *)
LEMMA RecordType ==
  ASSUME hash \in [Step -> Hash \cup {Missing}]
  PROVE  /\ InputRecord \in Record
         /\ OutputRecord \in Record
         /\ \A s \in Step, r \in Outcome : StepRec(s, r) \in Record
<1>1. 0 \in 0 .. N + 1 /\ N + 1 \in 0 .. N + 1 /\ \A s \in Step : s \in 0 .. N + 1
  BY FlowAssumption DEF Step
<1>2. "invalid" \in Outcome
  BY DEF Outcome
<1> QED
  BY <1>1, <1>2 DEF InputRecord, OutputRecord, StepRec, Record

(* The absent snapshot is a snapshot.                                      *)
LEMMA NoSnapshotType ==
  ASSUME Version # {}
  PROVE  NoSnapshot \in Snapshots
<1>1. (CHOOSE v \in Version : TRUE) \in Version
  OBVIOUS
<1>2. <<>> \in Seq(Record) /\ 0 \in 0 .. N
  BY FlowAssumption
<1> QED
  BY <1>1, <1>2, SeedType DEF NoSnapshot, Snapshots

(* The step in hand is a step of the flow.                                 *)
InLoop == pc \in {"tool", "save"} => idx \in Step

(* An escaping exception leaves well-typed state behind.                   *)
LEMMA RaiseType ==
  ASSUME TypeOK, NEW why \in Exit, Raise(why)
  PROVE  TypeOK'
<1>1. ctx' \in Context /\ log' \in Seq(Record) /\ exit' \in Exit /\ pc' \in Place
  BY SeedType DEF Raise, Place
<1> QED
  BY <1>1 DEF TypeOK, Raise, envVars, Context, Record, Step

(* Every step keeps the variables in their sets.                           *)
LEMMA TypeStep == TypeOK /\ InLoop /\ [Next]_vars => TypeOK'
<1> SUFFICES ASSUME TypeOK, InLoop, [Next]_vars PROVE TypeOK'
  OBVIOUS
<1> USE FlowAssumption
<1>t. /\ N \in Nat /\ idx \in 1 .. N + 1 /\ idx \in Int
      /\ hash \in [Step -> Hash \cup {Missing}] /\ log \in Seq(Record)
      /\ ctx \in Context /\ store \in Snapshots /\ version \in Version
  BY DEF TypeOK, Snapshots
<1>r. \A s \in Step, r \in Outcome : Append(log, StepRec(s, r)) \in Seq(Record)
  BY <1>t, RecordType
<1>1. CASE \E l \in {"sync", "async"}, g \in SUBSET Key, v \in Version : Start(l, g, v)
  <2> PICK l \in {"sync", "async"}, g \in SUBSET Key, v \in Version : Start(l, g, v)
    BY <1>1
  <2>1. ctx' \in Context /\ log' \in Seq(Record) /\ 1 \in 1 .. N + 1
    BY SeedType DEF Start
  <2> QED
    BY <2>1 DEF TypeOK, Start, Begin, envVars, Place
<1>2. CASE \E l \in {"sync", "async"}, g \in SUBSET Key, v \in Version : StartInvalid(l, g, v)
  <2> PICK l \in {"sync", "async"}, g \in SUBSET Key, v \in Version : StartInvalid(l, g, v)
    BY <1>2
  <2>1. log' \in Seq(Record) /\ 1 \in 1 .. N + 1
    BY <1>t, RecordType DEF StartInvalid
  <2> QED
    BY <2>1 DEF TypeOK, StartInvalid, Begin, envVars, Place, Exit
<1>3. CASE Cancel
  BY <1>3 DEF TypeOK, Cancel, envVars, Place, Exit
<1>4. CASE FailBeforeTool
  <2>1. log' \in Seq(Record)
    BY <1>4, <1>r DEF FailBeforeTool, Outcome
  <2> QED
    BY <1>4, <2>1 DEF TypeOK, FailBeforeTool, envVars, Place, Exit
<1>5. CASE Dispatch
  <2>1. runs' \in [Step -> Nat]
    BY <1>5 DEF TypeOK, Dispatch
  <2> QED
    BY <1>5, <2>1 DEF TypeOK, Dispatch, envVars, Place
<1>6. CASE StepFails
  <2>1. log' \in Seq(Record)
    BY <1>6, <1>r DEF StepFails, Outcome, InLoop
  <2> QED
    BY <1>6, <2>1 DEF TypeOK, StepFails, envVars, Place, Exit
<1>7. CASE \E r \in Succeeded : StepSucceeds(r)
  <2> PICK r \in Succeeded : StepSucceeds(r)
    BY <1>7
  <2>1. idx \in Step /\ r \in Outcome
    BY DEF StepSucceeds, InLoop, Outcome
  <2>2. log' \in Seq(Record) /\ ctx' \in Context
    BY <1>t, <1>r, <2>1, MergeType DEF StepSucceeds
  <2> QED
    BY <2>2 DEF TypeOK, StepSucceeds, envVars, Place
<1>8. CASE \E r \in Succeeded : MergeRaises(r)
  <2>1. "mapping" \in Exit /\ "collision" \in Exit
    BY DEF Exit
  <2> QED
    BY <1>8, <2>1, RaiseType DEF MergeRaises
<1>9. CASE Save
  <2>1. idx \in Step /\ idx \in 0 .. N /\ idx + 1 \in 1 .. N + 1
    BY <1>9, <1>t DEF Save, InLoop, Step
  <2>2. Snapshot \in Snapshots
    BY <2>1 DEF Snapshot, Snapshots, TypeOK
  <2> QED
    BY <1>9, <2>1, <2>2 DEF TypeOK, Snapshots, Save, envVars, Place
<1>10. CASE SaveFails \/ Crash
  <2>1. "saveerror" \in Exit /\ "crashed" \in Exit
    BY DEF Exit
  <2> QED
    BY <1>10, <2>1, RaiseType DEF SaveFails, Crash
<1>11. CASE Invalid
  <2>1. log' \in Seq(Record)
    BY <1>11, <1>t, RecordType DEF Invalid
  <2> QED
    BY <1>11, <2>1 DEF TypeOK, Invalid, envVars, Place, Exit
<1>12. CASE Complete
  BY <1>12 DEF TypeOK, Complete, envVars, Place, Exit
<1>13. CASE MakeResult
  <2>1. store' \in Snapshots
    BY <1>13, <1>t, NoSnapshotType DEF MakeResult
  <2> QED
    BY <1>13, <2>1 DEF TypeOK, Snapshots, MakeResult, envVars, Place
<1>14. CASE FireFlowEnd
  BY <1>14 DEF TypeOK, FireFlowEnd, envVars, Place
<1>15. CASE \E l \in {"sync", "async"} : Resume(l)
  <2> PICK l \in {"sync", "async"} : Resume(l)
    BY <1>15
  <2>1. idx' \in 1 .. N + 1 /\ ctx' \in Context /\ log' \in Seq(Record)
    BY <1>t DEF Resume, ResumeFrom, Snapshots
  <2> QED
    BY <2>1 DEF TypeOK, Resume, envVars, Place, Exit
<1>16. CASE RefuseResume
  <2>1. ctx' \in Context /\ log' \in Seq(Record)
    BY <1>16, SeedType DEF RefuseResume
  <2> QED
    BY <1>16, <2>1 DEF TypeOK, RefuseResume, envVars, Exit
<1>17. CASE RequestCancel
  BY <1>17 DEF TypeOK, RequestCancel, envVars
<1>18. CASE \E s \in Step, h \in Hash \cup {Missing}, drifted \in SUBSET Version :
              RegisterTool(s, h, drifted)
  <2> PICK s \in Step, h \in Hash \cup {Missing}, drifted \in SUBSET Version :
             RegisterTool(s, h, drifted)
    BY <1>18
  <2>1. hash' \in [Step -> Hash \cup {Missing}] /\ active' \in [Version -> BOOLEAN]
    BY DEF RegisterTool, TypeOK
  <2> QED
    BY <2>1 DEF TypeOK, RegisterTool, callVars
<1>19. CASE \E v \in Version : RegisterFlow(v) \/ SetStatus(v)
  <2>1. active' \in [Version -> BOOLEAN] /\ version' \in Version
    BY <1>19 DEF TypeOK, RegisterFlow, SetStatus
  <2> QED
    BY <1>19, <2>1 DEF TypeOK, RegisterFlow, SetStatus, callVars
<1>20. CASE UNCHANGED vars
  BY <1>20 DEF TypeOK, vars, callVars, envVars
<1> QED
  BY <1>1, <1>2, <1>3, <1>4, <1>5, <1>6, <1>7, <1>8, <1>9, <1>10, <1>11, <1>12,
     <1>13, <1>14, <1>15, <1>16, <1>17, <1>18, <1>19, <1>20 DEF Next, Advance

-----------------------------------------------------------------------------
(* The inductive invariant.                                                *)

(* Control: what the place of the call says about the other variables.     *)
ControlInv ==
  /\ InLoop
  /\ pc \in {"result", "flowend"} => exit \in {"success", "failure", "cancelled"}
  /\ Running => exit = "none"
  /\ mode = "none" => pc = "idle" /\ exit = "none" /\ store.done = 0 /\ idx = 1
  /\ Built /\ exit = "success" => idx = N + 1

(* The snapshot is one step behind the loop, or was deleted at the end.    *)
SnapshotPlace == store.done = idx - 1 \/ (store.done = 0 /\ idx = N + 1)

(* The step in hand has been dispatched.                                   *)
Dispatched == pc \in {"tool", "save"} => runs[idx] > 0

IInv ==
  /\ TypeOK
  /\ ControlInv
  /\ SnapshotPlace
  /\ Dispatched
  /\ LogTellsTheRun
  /\ SnapshotKeepsUp
  /\ SnapshotConsistent
  /\ ContextMatchesLog

(* A log of n completed steps, extended by the next step's successful      *)
(* record, is one of n + 1 completed steps.                                *)
LEMMA AppendCompleted ==
  ASSUME NEW l \in Seq(Record), NEW n \in Nat, Completed(l, n),
         NEW r \in Record, r.step = n + 1, r.res \in Succeeded
  PROVE  Completed(Append(l, r), n + 1)
BY DEF Completed

(* Merging the outputs of the next step keeps the context in step with the *)
(* log.                                                                    *)
LEMMA AppendMatches ==
  ASSUME NEW g \in SUBSET Key, NEW c \in Context, NEW l \in Seq(Record), 
         NEW s \in Step, Len(l) = s - 1, Matches(g, c, l),
         NEW rec \in Record, rec.res \in Succeeded
  PROVE  Matches(g, Merge(c, s, rec.res), Append(l, rec))
<1> DEFINE m == Append(l, rec)
<1> DEFINE d == Merge(c, s, rec.res)
<1>1. Len(m) = s /\ m[s] = rec /\ (\A j \in 1 .. s - 1 : m[j] = l[j])
  BY FlowAssumption DEF Step
<1>2. \A k \in Key : Wrote(m, s, k) <=> k \in Contribution(s, rec.res)
  BY <1>1 DEF Wrote
<1>3. \A k \in Key, j \in 1 .. s - 1 : Wrote(m, j, k) <=> Wrote(l, j, k)
  BY <1>1 DEF Wrote
<1>4. \A k \in Key : d[k] = IF k \in Contribution(s, rec.res) THEN s ELSE c[k]
  BY DEF Merge
<1> SUFFICES ASSUME NEW k \in Key
             PROVE  \/ /\ d[k] \in 1 .. Len(m) /\ Wrote(m, d[k], k)
                       /\ \A j \in 1 .. Len(m) : j > d[k] => ~Wrote(m, j, k)
                    \/ /\ d[k] = SeedContext(g)[k]
                       /\ \A j \in 1 .. Len(m) : ~Wrote(m, j, k)
  BY DEF Matches
<1>5. s \in Int /\ s >= 1
  BY FlowAssumption DEF Step
<1>6. CASE k \in Contribution(s, rec.res)
  BY <1>1, <1>2, <1>4, <1>5, <1>6
<1>7. CASE k \notin Contribution(s, rec.res)
  <2>1. d[k] = c[k] /\ ~Wrote(m, s, k)
    BY <1>2, <1>4, <1>7
  <2>2. CASE /\ c[k] \in 1 .. Len(l) /\ Wrote(l, c[k], k)
             /\ \A j \in 1 .. Len(l) : j > c[k] => ~Wrote(l, j, k)
    BY <2>1, <2>2, <1>1, <1>3, <1>5
  <2>3. CASE /\ c[k] = SeedContext(g)[k]
             /\ \A j \in 1 .. Len(l) : ~Wrote(l, j, k)
    BY <2>1, <2>3, <1>1, <1>3, <1>5
  <2> QED
    BY <2>2, <2>3 DEF Matches
<1> QED
  BY <1>6, <1>7

(* The initial states satisfy the invariant.                               *)
LEMMA InitIInv == Init => IInv
<1> SUFFICES ASSUME Init PROVE IInv
  OBVIOUS
<1>1. NoSnapshot \in Snapshots
  BY NoSnapshotType DEF Init
<1>2. TypeOK
  <2>1. 1 \in 1 .. N + 1 /\ runs \in [Step -> Nat] /\ log \in Seq(Record)
    BY FlowAssumption DEF Init
  <2> QED
    BY <1>1, <2>1, SeedType DEF Init, TypeOK, Snapshots, Place, Exit
<1>3. store.done = 0 /\ ~Running /\ ~Built
  BY DEF Init, NoSnapshot, Running, Built
<1> QED
  BY <1>2, <1>3 DEF Init, IInv, ControlInv, InLoop, SnapshotPlace, Dispatched,
     LogTellsTheRun, SnapshotKeepsUp, SnapshotConsistent, ContextMatchesLog

(* A call that raises, or dies, keeps the invariant.                       *)
LEMMA RaiseIInv ==
  ASSUME IInv, NEW why \in {"mapping", "collision", "saveerror", "crashed"},
         pc # "idle", Raise(why)
  PROVE  IInv'
<1>1. TypeOK'
  BY RaiseType DEF IInv, Exit
<1>2. ~Running' /\ ~Built' /\ mode # "none"
  BY DEF Raise, Running, Built, IInv, ControlInv
<1> QED
  BY <1>1, <1>2 DEF Raise, IInv, ControlInv, InLoop, SnapshotPlace, Dispatched,
     LogTellsTheRun, SnapshotKeepsUp, SnapshotConsistent, ContextMatchesLog

(* A step that leaves the call's frame, its place and the snapshot alone   *)
(* keeps the invariant.                                                    *)
LEMMA FrameIInv ==
  ASSUME IInv, TypeOK',
         UNCHANGED <<pc, mode, idx, given, ctx, log, exit, store, runs>>
  PROVE  IInv'
BY DEF IInv, ControlInv, InLoop, SnapshotPlace, Dispatched, LogTellsTheRun, Progress,
   SnapshotKeepsUp, SnapshotConsistent, ContextMatchesLog, Running, Built

(* Every step preserves the invariant.                                     *)
LEMMA StepIInv == IInv /\ [Next]_vars => IInv'
<1> SUFFICES ASSUME IInv, [Next]_vars PROVE IInv'
  OBVIOUS
<1> USE FlowAssumption
<1>t. TypeOK /\ TypeOK'
  BY TypeStep DEF IInv, ControlInv
<1>n. N \in Nat /\ idx \in Int /\ idx \in 1 .. N + 1 /\ store.done \in 0 .. N
  BY <1>t DEF TypeOK
<1>1. CASE \E l \in {"sync", "async"}, g \in SUBSET Key, v \in Version : Start(l, g, v)
  <2> PICK l \in {"sync", "async"}, g \in SUBSET Key, v \in Version : Start(l, g, v)
    BY <1>1
  <2>1. store'.done = 0 /\ exit' = "none" /\ idx' = 1 /\ log' = <<>> /\ pc' = "boundary"
    BY DEF Start, Begin, IInv, ControlInv
  <2>2. Completed(log', 0) /\ Matches(given', ctx', log')
    BY <2>1 DEF Start, Begin, Completed, Matches
  <2>3. mode' # "none"
    BY DEF Start, Begin
  <2> QED
    BY <1>t, <2>1, <2>2, <2>3 DEF IInv, ControlInv, InLoop, SnapshotPlace, Dispatched,
       LogTellsTheRun, Progress, SnapshotKeepsUp, SnapshotConsistent,
       ContextMatchesLog, Running, Built
<1>2. CASE \E l \in {"sync", "async"}, g \in SUBSET Key, v \in Version : StartInvalid(l, g, v)
  <2> PICK l \in {"sync", "async"}, g \in SUBSET Key, v \in Version : StartInvalid(l, g, v)
    BY <1>2
  <2>1. /\ store'.done = 0 /\ exit' = "failure" /\ idx' = 1 /\ log' = <<InputRecord>>
        /\ pc' = "result" /\ mode' # "none"
    BY DEF StartInvalid, Begin, IInv, ControlInv
  <2> QED
    BY <1>t, <2>1 DEF IInv, ControlInv, InLoop, SnapshotPlace, Dispatched,
       LogTellsTheRun, Progress, SnapshotKeepsUp, SnapshotConsistent,
       ContextMatchesLog, Running, Built
<1>3. CASE Cancel
  BY <1>t, <1>n, <1>3 DEF Cancel, IInv, ControlInv, InLoop, SnapshotPlace, Dispatched,
     LogTellsTheRun, Progress, SnapshotKeepsUp, SnapshotConsistent,
     ContextMatchesLog, Running, Built
<1>f. ASSUME pc \in {"boundary", "tool"}, idx \in Step, 
             log' = Append(log, StepRec(idx, "failed")), pc' = "result", exit' = "failure",
             UNCHANGED <<mode, idx, given, ctx, store, runs>>
      PROVE  IInv'
  <2>1. Completed(log, idx - 1) /\ log \in Seq(Record)
    BY <1>t, <1>f DEF IInv, LogTellsTheRun, Running, Progress, TypeOK
  <2>2. /\ Len(log') = idx /\ log'[idx] = StepRec(idx, "failed")
        /\ \A i \in 1 .. idx - 1 : log'[i] = log[i]
    BY <1>n, <1>f, <2>1 DEF Completed
  <2>3. LogTellsTheRun'
    BY <1>f, <2>1, <2>2 DEF LogTellsTheRun, Running, Built, Completed, StepRec, Succeeded
  <2>4. SnapshotKeepsUp'
    BY <1>n, <1>f, <2>2 DEF IInv, SnapshotKeepsUp, Running, Built
  <2> QED
    BY <1>t, <1>f, <2>3, <2>4 DEF IInv, ControlInv, InLoop, SnapshotPlace, Dispatched,
       SnapshotConsistent, ContextMatchesLog, Running, Built
<1>4. CASE FailBeforeTool
  BY <1>4, <1>f DEF FailBeforeTool
<1>5. CASE Dispatch
  <2>1. idx \in Step /\ runs'[idx] > 0
    BY <1>5, <1>t DEF Dispatch, TypeOK
  <2> QED
    BY <1>t, <1>n, <1>5, <2>1 DEF Dispatch, IInv, ControlInv, InLoop, SnapshotPlace,
       Dispatched, LogTellsTheRun, Progress, SnapshotKeepsUp, SnapshotConsistent,
       ContextMatchesLog, Running, Built
<1>6. CASE StepFails
  BY <1>6, <1>f DEF StepFails, IInv, ControlInv, InLoop
<1>7. CASE \E r \in Succeeded : StepSucceeds(r)
  <2> PICK r \in Succeeded : StepSucceeds(r)
    BY <1>7
  <2> DEFINE rec == StepRec(idx, r)
  <2>1. /\ pc = "tool" /\ pc' = "save" /\ idx' = idx /\ idx \in Step
        /\ log' = Append(log, rec) /\ ctx' = Merge(ctx, idx, r)
    BY DEF StepSucceeds, IInv, ControlInv, InLoop
  <2>2. Completed(log, idx - 1) /\ log \in Seq(Record) /\ Len(log) = idx - 1
    BY <1>t, <2>1 DEF IInv, LogTellsTheRun, Running, Progress, TypeOK, Completed
  <2>3. rec \in Record /\ rec.step = idx /\ rec.res = r
    BY <1>t, <2>1, RecordType DEF TypeOK, StepRec, Outcome
  <2>4. Completed(log', idx)
    BY <1>n, <2>1, <2>2, <2>3, AppendCompleted DEF Step
  <2>5. Matches(given', ctx', log')
    <3>1. Matches(given, ctx, log) /\ given' = given
      BY <2>1 DEF IInv, ContextMatchesLog, Running, StepSucceeds
    <3> QED
      BY <1>t, <2>1, <2>2, <2>3, <3>1, AppendMatches DEF TypeOK
  <2>6. \A i \in 1 .. idx - 1 : log'[i] = log[i]
    BY <1>n, <2>1, <2>2
  <2>7. SnapshotKeepsUp'
    BY <1>n, <2>1, <2>6 DEF IInv, SnapshotKeepsUp, StepSucceeds, Running, Built
  <2> QED
    BY <1>t, <2>1, <2>4, <2>5, <2>7 DEF StepSucceeds, IInv, ControlInv, InLoop,
       SnapshotPlace, Dispatched, LogTellsTheRun, Progress, SnapshotConsistent,
       ContextMatchesLog, Running, Built
<1>8. CASE \E r \in Succeeded : MergeRaises(r)
  BY <1>8, RaiseIInv DEF MergeRaises
<1>9. CASE Save
  <2>1. /\ idx \in Step /\ pc' = "boundary" /\ idx' = idx + 1 /\ log' = log
        /\ ctx' = ctx /\ given' = given /\ exit' = "none" /\ mode' # "none"
    BY <1>9 DEF Save, IInv, ControlInv, InLoop, Running
  <2>2. store'.done = idx /\ store'.log = log /\ store'.ctx = ctx
    BY <1>9 DEF Save, Snapshot
  <2>3. Completed(log, idx) /\ Matches(given, ctx, log)
    BY <1>9 DEF Save, IInv, LogTellsTheRun, ContextMatchesLog, Running, Progress
  <2>4. idx' - 1 = idx /\ Progress' = idx
    BY <1>n, <2>1 DEF Progress
  <2> QED
    BY <1>t, <1>n, <2>1, <2>2, <2>3, <2>4 DEF IInv, ControlInv, InLoop, SnapshotPlace,
       Dispatched, LogTellsTheRun, SnapshotKeepsUp, SnapshotConsistent,
       ContextMatchesLog, Running, Built, Step
<1>10. CASE SaveFails \/ Crash
  BY <1>10, RaiseIInv DEF SaveFails, Crash
<1>11. CASE Invalid
  <2>1. Completed(log, idx - 1) /\ log \in Seq(Record) /\ idx = N + 1
    BY <1>t, <1>11 DEF Invalid, IInv, LogTellsTheRun, Running, Progress, TypeOK
  <2>2. /\ Len(log') = idx /\ log'[idx] = OutputRecord
        /\ \A i \in 1 .. idx - 1 : log'[i] = log[i]
    BY <1>n, <1>11, <2>1 DEF Invalid, Completed
  <2>3. LogTellsTheRun'
    BY <1>11, <2>1, <2>2 DEF Invalid, LogTellsTheRun, Running, Built, Completed,
       OutputRecord, Succeeded
  <2>4. SnapshotKeepsUp'
    BY <1>n, <1>11, <2>2 DEF Invalid, IInv, SnapshotKeepsUp, Running, Built
  <2> QED
    BY <1>t, <1>11, <2>3, <2>4 DEF Invalid, IInv, ControlInv, InLoop, SnapshotPlace,
       Dispatched, SnapshotConsistent, ContextMatchesLog, Running, Built
<1>12. CASE Complete
  BY <1>t, <1>n, <1>12 DEF Complete, IInv, ControlInv, InLoop, SnapshotPlace, Dispatched,
     LogTellsTheRun, Progress, SnapshotKeepsUp, SnapshotConsistent,
     ContextMatchesLog, Running, Built
<1>13. CASE MakeResult
  <2>1. NoSnapshot.done = 0
    BY DEF NoSnapshot
  <2>2. store' # store => exit = "success" /\ store'.done = 0 /\ idx = N + 1
    BY <1>13, <2>1 DEF MakeResult, ResumeWindowCloses, IInv, ControlInv, Built, Running
  <2> QED
    BY <1>t, <1>n, <1>13, <2>2 DEF MakeResult, IInv, ControlInv, InLoop, SnapshotPlace,
       Dispatched, LogTellsTheRun, Progress, SnapshotKeepsUp, SnapshotConsistent,
       ContextMatchesLog, Running, Built
<1>14. CASE FireFlowEnd
  BY <1>t, <1>n, <1>14 DEF FireFlowEnd, IInv, ControlInv, InLoop, SnapshotPlace,
     Dispatched, LogTellsTheRun, Progress, SnapshotKeepsUp, SnapshotConsistent,
     ContextMatchesLog, Running, Built
<1>15. CASE \E l \in {"sync", "async"} : Resume(l)
  <2>1. /\ store.done > 0 /\ idx' = store.done + 1 /\ pc' = "boundary" /\ exit' = "none"
        /\ log' = store.log /\ ctx' = store.ctx /\ mode' # "none"
        /\ UNCHANGED <<given, store, runs>>
    BY <1>15 DEF Resume, Resumable, ResumeFrom
  <2>2. Completed(store.log, store.done) /\ Matches(given, store.ctx, store.log)
    BY <2>1 DEF IInv, SnapshotConsistent
  <2> QED
    BY <1>t, <1>n, <2>1, <2>2 DEF IInv, ControlInv, InLoop, SnapshotPlace, Dispatched,
       LogTellsTheRun, Progress, SnapshotKeepsUp, SnapshotConsistent,
       ContextMatchesLog, Running, Built
<1>16. CASE RefuseResume
  BY <1>t, <1>16 DEF RefuseResume, IInv, ControlInv, InLoop, SnapshotPlace, Dispatched,
     LogTellsTheRun, SnapshotKeepsUp, SnapshotConsistent, ContextMatchesLog, Running, Built
<1>17. CASE RequestCancel
  BY <1>t, <1>17, FrameIInv DEF RequestCancel
<1>18. CASE \E s \in Step, h \in Hash \cup {Missing}, drifted \in SUBSET Version :
              RegisterTool(s, h, drifted)
  BY <1>t, <1>18, FrameIInv DEF RegisterTool, callVars
<1>19. CASE \E v \in Version : RegisterFlow(v) \/ SetStatus(v)
  BY <1>t, <1>19, FrameIInv DEF RegisterFlow, SetStatus, callVars
<1>20. CASE UNCHANGED vars
  BY <1>t, <1>20, FrameIInv DEF vars, callVars
<1> QED
  BY <1>1, <1>2, <1>3, <1>4, <1>5, <1>6, <1>7, <1>8, <1>9, <1>10, <1>11, <1>12,
     <1>13, <1>14, <1>15, <1>16, <1>17, <1>18, <1>19, <1>20 DEF Next, Advance

(* The inductive invariant holds in every reachable state.                 *)
LEMMA Inductive == Spec => []IInv
<1>1. Init => IInv
  BY InitIInv
<1>2. IInv /\ [Next]_vars => IInv'
  BY StepIInv
<1> QED
  BY <1>1, <1>2, PTL DEF Spec

-----------------------------------------------------------------------------
(* The theorems.                                                           *)

(* Type correctness: the loop's step counter and the snapshot's            *)
(* completed_steps never leave the flow.                                   *)
THEOREM TypeCorrect == Spec => []TypeOK
<1>1. IInv => TypeOK
  BY DEF IInv
<1> QED
  BY <1>1, Inductive, PTL

(* The execution log names every step once, in order, over all the calls   *)
(* of a trace.                                                             *)
THEOREM LogCorrect == Spec => []LogTellsTheRun
<1>1. IInv => LogTellsTheRun
  BY DEF IInv
<1> QED
  BY <1>1, Inductive, PTL

(* The context, and the final output, are what the log's outputs build.    *)
THEOREM ContextCorrect == Spec => []ContextMatchesLog
<1>1. IInv => ContextMatchesLog
  BY DEF IInv
<1> QED
  BY <1>1, Inductive, PTL

(* Every stored snapshot is one a run can be continued from, and it is at  *)
(* most one step behind the call.                                          *)
THEOREM SnapshotCorrect == Spec => []SnapshotSound
<1>1. IInv => SnapshotSound
  BY DEF IInv, SnapshotSound
<1> QED
  BY <1>1, Inductive, PTL

(* Only Dispatch runs a step's tool.                                       *)
LEMMA RunsStep ==
  ASSUME [Next]_vars
  PROVE  Dispatch \/ UNCHANGED runs
BY DEF Next, Advance, Start, StartInvalid, Begin, Cancel, FailBeforeTool, StepFails,
   StepSucceeds, MergeRaises, Raise, Save, SaveFails, Crash, Invalid, Complete,
   MakeResult, FireFlowEnd, Resume, RefuseResume, RequestCancel, RegisterTool,
   RegisterFlow, SetStatus, vars

(* A step whose completion a snapshot records is never dispatched again.   *)
THEOREM NeverReruns == Spec => NeverRerunCheckpointed
<1>1. IInv /\ [Next]_vars => [\A s \in Step : runs'[s] # runs[s] => s > store.done]_vars
  <2> SUFFICES ASSUME IInv, [Next]_vars
               PROVE  \A s \in Step : runs'[s] # runs[s] => s > store.done
    OBVIOUS
  <2>1. CASE Dispatch
    <3>1. store.done = idx - 1 /\ idx \in Int
      BY <2>1 DEF Dispatch, IInv, SnapshotKeepsUp, Running, TypeOK
    <3>2. \A s \in Step : runs'[s] # runs[s] => s = idx
      BY <2>1 DEF Dispatch, IInv, TypeOK
    <3> QED
      BY <3>1, <3>2
  <2> QED
    BY <2>1, RunsStep
<1> QED
  BY <1>1, Inductive, PTL DEF Spec, NeverRerunCheckpointed

(* The run implements the durable frontier: no step of it commits a step   *)
(* that was not attempted, or attempts one that is committed.              *)
THEOREM Refinement == Spec => RefinesDurableRun
<1> DEFINE F == IF idx = N + 1 THEN N ELSE store.done
<1> USE FlowAssumption
<1>1. Init => Durable!Init
  BY DEF Init, Durable!Init, NoSnapshot, Step
<1>2. IInv /\ IInv' /\ [Next]_vars => [Durable!Next]_(Durable!vars)
  <2> SUFFICES ASSUME IInv, IInv', [Next]_vars
               PROVE  Durable!Next \/ (F' = F /\ runs' = runs)
    BY DEF Durable!vars
  <2>n. /\ N \in Nat /\ idx \in 1 .. N + 1 /\ store.done \in 0 .. N
        /\ runs \in [Step -> Nat]
    BY DEF IInv, TypeOK
  <2>p. SnapshotPlace /\ SnapshotPlace'
    BY DEF IInv
  <2>1. CASE Dispatch
    <3>1. F = idx - 1 /\ F' = F /\ idx \in Step /\ F < N /\ F + 1 = idx
      BY <2>1, <2>n DEF Dispatch, IInv, SnapshotKeepsUp, Running, Step
    <3> QED
      BY <2>1, <2>n, <3>1 DEF Dispatch, Durable!Next, Durable!Attempt
  <2>2. CASE Save
    <3>1. idx \in Step /\ store.done = idx - 1 /\ runs[idx] > 0
      BY <2>2 DEF Save, IInv, SnapshotKeepsUp, Running, ControlInv, InLoop, Dispatched
    <3>2. F = idx - 1 /\ F' = idx /\ F < N /\ runs' = runs /\ F + 1 = idx
      BY <2>2, <2>n, <3>1 DEF Save, Snapshot, Step
    <3> QED
      BY <3>1, <3>2 DEF Durable!Next, Durable!Commit
  <2>3. CASE \E l \in {"sync", "async"} : Resume(l)
    <3>1. store.done > 0 /\ idx' = store.done + 1 /\ store' = store /\ runs' = runs
      BY <2>3 DEF Resume, Resumable, ResumeFrom
    <3> QED
      BY <2>n, <2>p, <3>1 DEF SnapshotPlace
  <2>4. CASE MakeResult
    <3>1. idx' = idx /\ runs' = runs
      BY <2>4 DEF MakeResult
    <3>2. idx # N + 1 => store' = store
      BY <2>4 DEF MakeResult, ResumeWindowCloses, IInv, ControlInv, Built, Running
    <3> QED
      BY <3>1, <3>2
  <2>5. CASE \E l \in {"sync", "async"}, g \in SUBSET Key, v \in Version :
               Start(l, g, v) \/ StartInvalid(l, g, v)
    <3>1. idx' = idx /\ store' = store /\ runs' = runs
      BY <2>5 DEF Start, StartInvalid, Begin, IInv, ControlInv
    <3> QED
      BY <3>1
  <2>6. CASE UNCHANGED <<idx, store, runs>>
    BY <2>6
  <2> QED
    BY <2>1, <2>2, <2>3, <2>4, <2>5, <2>6 DEF Next, Advance, Cancel, FailBeforeTool,
       StepFails, StepSucceeds, MergeRaises, Raise, SaveFails, Crash, Invalid, Complete,
       FireFlowEnd, RefuseResume, RequestCancel, RegisterTool, RegisterFlow, SetStatus,
       vars, callVars
<1> QED
  BY <1>1, <1>2, Inductive, PTL DEF Spec, RefinesDurableRun, Durable!Spec

-----------------------------------------------------------------------------
(* Drift: schemas and versions over a trace.                               *)

(* The places at which the log's records are those of the current tools.   *)
Current == Running \/ (pc \in {"result", "flowend"} /\ exit = "success")

(* Records carry the hashes their snapshot records, and those of the       *)
(* registered tools while a call runs; the snapshot is the run's version.  *)
SchemaInv ==
  /\ \A i \in 1 .. store.done :
       store.log[i].hash = store.hash[i] /\ store.hash[i] # Missing
  /\ store.done > 0 => store.version = running
  /\ pc = "tool" => hash[idx] # Missing
  /\ Current => \A i \in 1 .. Len(log) : log[i].hash = hash[i] /\ hash[i] # Missing

(* Every step preserves the drift invariant.                               *)
LEMMA StepSchemaInv == IInv /\ SchemaInv /\ [Next]_vars => SchemaInv'
<1> SUFFICES ASSUME IInv, SchemaInv, [Next]_vars PROVE SchemaInv'
  OBVIOUS
<1> USE FlowAssumption
<1>n. /\ N \in Nat /\ idx \in 1 .. N + 1 /\ store.done \in 0 .. N
      /\ log \in Seq(Record) /\ pc \in Place
  BY DEF IInv, TypeOK
<1>1. CASE \E l \in {"sync", "async"}, g \in SUBSET Key, v \in Version :
             Start(l, g, v) \/ StartInvalid(l, g, v)
  <2>1. store.done = 0 /\ store' = store /\ pc' \in {"boundary", "result"}
    BY <1>1 DEF Start, StartInvalid, Begin, IInv, ControlInv
  <2>2. Current' => log' = <<>>
    BY <1>1 DEF Start, StartInvalid, Current, Running
  <2> QED
    BY <2>1, <2>2 DEF SchemaInv
<1>2. CASE Cancel \/ FailBeforeTool \/ StepFails \/ Invalid
  <2>1. /\ pc' = "result" /\ exit' \in {"cancelled", "failure"}
        /\ UNCHANGED <<store, running, hash>>
    BY <1>2 DEF Cancel, FailBeforeTool, StepFails, Invalid, envVars
  <2> QED
    BY <2>1 DEF SchemaInv, Current, Running
<1>3. CASE Dispatch
  BY <1>3 DEF Dispatch, Resolvable, SchemaInv, Current, Running, envVars
<1>4. CASE \E r \in Succeeded : StepSucceeds(r)
  <2> PICK r \in Succeeded : StepSucceeds(r)
    BY <1>4
  <2>1. /\ pc = "tool" /\ pc' = "save" /\ log' = Append(log, StepRec(idx, r))
        /\ UNCHANGED <<store, running, hash, idx>>
    BY DEF StepSucceeds, envVars
  <2>2. Len(log) = idx - 1
    BY <2>1 DEF IInv, LogTellsTheRun, Running, Progress, Completed
  <2>3. /\ Len(log') = idx /\ log'[idx].hash = hash[idx] /\ hash[idx] # Missing
        /\ \A i \in 1 .. idx - 1 : log'[i] = log[i]
    BY <1>n, <2>1, <2>2 DEF StepRec, SchemaInv
  <2>4. \A i \in 1 .. Len(log') : log'[i].hash = hash'[i] /\ hash'[i] # Missing
    BY <1>n, <2>1, <2>2, <2>3 DEF SchemaInv, Current, Running
  <2> QED
    BY <2>1, <2>4 DEF SchemaInv
<1>5. CASE (\E r \in Succeeded : MergeRaises(r)) \/ SaveFails \/ Crash
  <2>1. pc' = "idle" /\ UNCHANGED <<store, running, hash>>
    BY <1>5 DEF MergeRaises, SaveFails, Crash, Raise, envVars
  <2> QED
    BY <2>1 DEF SchemaInv, Current, Running
<1>6. CASE Save
  <2>1. Len(log) = idx
    BY <1>6 DEF Save, IInv, LogTellsTheRun, Running, Progress, Completed
  <2> QED
    BY <1>6, <2>1 DEF Save, Snapshot, SchemaInv, Current, Running, envVars
<1>7. CASE Complete \/ FireFlowEnd
  BY <1>7 DEF Complete, FireFlowEnd, SchemaInv, Current, Running, envVars
<1>8. CASE MakeResult
  <2>1. store' = store \/ store'.done = 0
    BY <1>8 DEF MakeResult, NoSnapshot
  <2> QED
    BY <1>8, <2>1 DEF MakeResult, SchemaInv, Current, Running, envVars
<1>9. CASE \E l \in {"sync", "async"} : Resume(l)
  <2>1. /\ store.done > 0 /\ VersionUnchanged /\ ToolsUnchanged /\ pc' = "boundary"
        /\ running' = version /\ log' = store.log /\ UNCHANGED <<store, hash>>
    BY <1>9 DEF Resume, Resumable, envVars
  <2>2. Len(store.log) = store.done
    BY <2>1 DEF IInv, SnapshotConsistent, Completed
  <2>3. \A i \in 1 .. store.done : store.log[i].hash = hash[i] /\ hash[i] # Missing
    <3>1. \A i \in 1 .. store.done :
            store.log[i].hash = store.hash[i] /\ store.hash[i] # Missing
      BY DEF SchemaInv
    <3>2. \A i \in 1 .. store.done : i \in Step
      BY <1>n DEF Step
    <3> QED
      BY <2>1, <3>1, <3>2 DEF ToolsUnchanged
  <2>4. \A i \in 1 .. Len(log') : log'[i].hash = hash'[i] /\ hash'[i] # Missing
    BY <2>1, <2>2, <2>3
  <2> QED
    BY <2>1, <2>4 DEF SchemaInv, VersionUnchanged
<1>10. CASE RefuseResume \/ (\E v \in Version : RegisterFlow(v) \/ SetStatus(v))
             \/ (\E s \in Step, h \in Hash \cup {Missing}, drifted \in SUBSET Version :
                   RegisterTool(s, h, drifted))
  <2>1. pc = "idle" /\ pc' = "idle" /\ UNCHANGED <<store, running>>
    BY <1>10 DEF RefuseResume, RegisterFlow, SetStatus, RegisterTool, callVars
  <2> QED
    BY <2>1 DEF SchemaInv, Current, Running
<1>11. CASE RequestCancel
  BY <1>11 DEF RequestCancel, SchemaInv, Current, Running, envVars
<1>12. CASE UNCHANGED vars
  BY <1>12 DEF vars, callVars, envVars, SchemaInv, Current, Running
<1> QED
  BY <1>1, <1>2, <1>3, <1>4, <1>5, <1>6, <1>7, <1>8, <1>9, <1>10, <1>11, <1>12
  DEF Next, Advance

(* The drift invariant holds in every reachable state.                     *)
LEMMA SchemaInductive == Spec => []SchemaInv
<1>1. Init => SchemaInv
  <2> SUFFICES ASSUME Init PROVE SchemaInv
    OBVIOUS
  <2>1. store.done = 0 /\ ~Current
    BY DEF Init, NoSnapshot, Current, Running
  <2> QED
    BY <2>1 DEF Init, SchemaInv
<1>2. IInv /\ SchemaInv /\ [Next]_vars => SchemaInv'
  BY StepSchemaInv
<1> QED
  BY <1>1, <1>2, Inductive, PTL DEF Spec

(* A run that completes has executed every step with the tool schemas that *)
(* are registered when it completes.                                       *)
THEOREM SchemasNeverMix == Spec => []NoMixedSchemas
<1>1. SchemaInv => NoMixedSchemas
  BY DEF SchemaInv, NoMixedSchemas, Current
<1> QED
  BY <1>1, SchemaInductive, PTL

(* A trace never changes the flow version it runs.                         *)
THEOREM VersionNeverChanges == Spec => OneFlowVersion
<1>1. SchemaInv /\ [Next]_vars => [mode # "none" => running' = running]_vars
  <2> SUFFICES ASSUME SchemaInv, Next, mode # "none" PROVE running' = running
    BY DEF vars, callVars
  <2>1. CASE \E l \in {"sync", "async"} : Resume(l)
    BY <2>1 DEF Resume, Resumable, VersionUnchanged, SchemaInv
  <2> QED
    BY <2>1 DEF Next, Advance, Start, StartInvalid, Begin, Cancel, FailBeforeTool,
       Dispatch, StepFails, StepSucceeds, MergeRaises, Raise, Save, SaveFails, Crash,
       Invalid, Complete, MakeResult, FireFlowEnd, RefuseResume, RequestCancel,
       RegisterTool, RegisterFlow, SetStatus, callVars
<1> QED
  BY <1>1, SchemaInductive, PTL DEF Spec, OneFlowVersion
=============================================================================
