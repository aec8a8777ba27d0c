----------------------------- MODULE DagRunProofs -----------------------------
(***************************************************************************)
(* DagRun's invariants, for every graph, every routing, every set of keys  *)
(* and every number of resumes.                                            *)
(***************************************************************************)
EXTENDS DagRun, FiniteSetTheorems, WellFoundedInduction, TLAPS

Snapshots == [done : 0 .. Depth, ctx : Context, log : Seq(Record)]

-----------------------------------------------------------------------------
(* The levels.                                                             *)

(* A level is a non-empty range of steps.                                  *)
LEMMA LevelBounds ==
  /\ N \in Nat /\ Depth \in Nat
  /\ \A l \in Level : /\ l \in 1 .. Depth + 1 /\ l + 1 \in 1 .. Depth + 1
                      /\ First[l] \in 1 .. N /\ First[l + 1] \in 1 .. N + 1
                      /\ First[l] < First[l + 1]
                      /\ First[l] .. First[l + 1] - 1 \subseteq Node
<1>1. N \in Nat /\ Depth \in Nat
  BY GraphAssumption
<1>2. ASSUME NEW l \in Level
      PROVE  /\ l \in 1 .. Depth + 1 /\ l + 1 \in 1 .. Depth + 1 /\ l < l + 1
  BY <1>1 DEF Level
<1>3. ASSUME NEW l \in Level
      PROVE  /\ First[l] \in 1 .. N + 1 /\ First[l + 1] \in 1 .. N + 1
             /\ First[l] < First[l + 1]
  BY <1>2, GraphAssumption
<1> QED
  BY <1>1, <1>2, <1>3 DEF Node

(* A nonempty set of numbers below a bound has a largest element.          *)
LEMMA LargestExists ==
  ASSUME NEW m \in Nat, NEW T \in SUBSET (1 .. m), T # {}
  PROVE  \E v \in T : \A w \in T : w <= v
<1> DEFINE Top(U) == \E v \in U : \A w \in U : w <= v
           W == {U \in SUBSET (1 .. m) : U # {} /\ ~Top(U)}
<1>1. IsFiniteSet(1 .. m) /\ \A U \in SUBSET (1 .. m) : IsFiniteSet(U)
  <2>1. IsFiniteSet(1 .. m)
    BY FS_Interval
  <2> QED
    BY <2>1, FS_Subset
<1>2. W \subseteq FiniteSubsetsOf(1 .. m)
  BY <1>1 DEF FiniteSubsetsOf
<1>3. SUFFICES ASSUME W # {} PROVE FALSE
  OBVIOUS
<1>4. PICK U \in W : \A X \in W : <<X, U>> \notin StrictSubsetOrdering(1 .. m)
  <2> HIDE DEF W
  <2> QED
    BY <1>1, <1>2, <1>3, FS_StrictSubsetOrderingWellFounded, WFMin
<1>5. PICK x \in U : TRUE
  OBVIOUS
<1>6. U \ {x} \notin W
  BY <1>1, <1>4, <1>5 DEF StrictSubsetOrdering
<1>7. CASE U \ {x} = {}
  BY <1>5, <1>7
<1>8. CASE U \ {x} # {}
  <2>1. PICK y \in U \ {x} : \A w \in U \ {x} : w <= y
    BY <1>6, <1>8
  <2>2. x \in Nat /\ y \in Nat /\ \A w \in U : w \in Nat
    BY <1>5
  <2>3. (\A w \in U : w <= x) \/ (\A w \in U : w <= y)
    BY <2>1, <2>2
  <2> QED
    BY <2>1, <2>3, <1>5
<1> QED
  BY <1>7, <1>8

(* Every step is in a level.                                               *)
LEMMA LevelOf == \A n \in Node : \E l \in Level : n \in First[l] .. First[l + 1] - 1
<1> SUFFICES ASSUME NEW n \in Node
             PROVE  \E l \in Level : n \in First[l] .. First[l + 1] - 1
  OBVIOUS
<1> DEFINE T == {l \in 1 .. Depth + 1 : First[l] <= n}
<1>1. N \in Nat /\ Depth \in Nat /\ n \in 1 .. N
  BY GraphAssumption DEF Node
<1>2. 1 \in T /\ Depth + 1 \notin T
  BY <1>1, GraphAssumption
<1>3. PICK v \in T : \A w \in T : w <= v
  <2>1. Depth + 1 \in Nat /\ T \in SUBSET (1 .. Depth + 1) /\ T # {}
    BY <1>1, <1>2
  <2> HIDE DEF T
  <2> QED
    BY <2>1, LargestExists
<1>4. v \in Level /\ v + 1 \in 1 .. Depth + 1
  BY <1>1, <1>2, <1>3 DEF Level
<1>5. v + 1 \notin T
  BY <1>3, <1>4 DEF Level
<1>6. First[v] <= n /\ First[v] \in Int /\ First[v + 1] \in Int /\ ~(First[v + 1] <= n)
  BY <1>3, <1>4, <1>5, LevelBounds
<1> QED
  BY <1>1, <1>4, <1>6

(* No step lies before the first level or behind the last.                 *)
LEMMA Ends ==
  /\ 1 \in 1 .. Depth + 1 /\ Depth + 1 \in 1 .. Depth + 1
  /\ Before(1) = 0 /\ Before(Depth + 1) = N
BY GraphAssumption DEF Before

(* The number of steps before a level.                                     *)
LEMMA BeforeType == \A l \in 1 .. Depth + 1 : Before(l) \in 0 .. N /\ First[l] = Before(l) + 1
BY GraphAssumption DEF Before

-----------------------------------------------------------------------------
(* Types of the values the actions build.                                  *)

(* What Append and \o yield.                                               *)
LEMMA AppendType ==
  ASSUME NEW T, NEW s \in Seq(T), NEW x \in T
  PROVE  /\ Append(s, x) \in Seq(T) /\ Len(Append(s, x)) = Len(s) + 1
         /\ \A i \in 1 .. Len(s) : Append(s, x)[i] = s[i]
         /\ Append(s, x)[Len(s) + 1] = x
OBVIOUS

LEMMA Joined ==
  ASSUME NEW T, NEW s \in Seq(T), NEW t \in Seq(T)
  PROVE  /\ s \o t \in Seq(T) /\ Len(s \o t) = Len(s) + Len(t)
         /\ Len(s) \in Nat /\ Len(t) \in Nat
         /\ \A i \in 1 .. Len(s) : (s \o t)[i] = s[i]
         /\ \A i \in 1 .. Len(t) : (s \o t)[Len(s) + i] = t[i]
         /\ \A i \in 1 .. Len(s \o t) :
              (s \o t)[i] = IF i <= Len(s) THEN s[i] ELSE t[i - Len(s)]
OBVIOUS

(* A record appended to the second part is appended to the whole.          *)
LEMMA JoinedAppend ==
  ASSUME NEW T, NEW s \in Seq(T), NEW t \in Seq(T), NEW x \in T
  PROVE  s \o Append(t, x) = Append(s \o t, x)
<1>1. Append(t, x) \in Seq(T) /\ s \o t \in Seq(T)
  BY AppendType, Joined
<1>2. s \o Append(t, x) \in Seq(T) /\ Append(s \o t, x) \in Seq(T)
  BY <1>1, AppendType, Joined
<1>3. Len(s \o Append(t, x)) = Len(Append(s \o t, x))
  BY <1>1, AppendType, Joined
<1>4. \A i \in 1 .. Len(s \o Append(t, x)) : (s \o Append(t, x))[i] = Append(s \o t, x)[i]
  OBVIOUS
<1> QED
  BY <1>2, <1>3, <1>4

(* Records and contexts.                                                   *)
LEMMA ValueTypes ==
  /\ \A n \in Node, r \in Outcome : Rec(n, r) \in Record
  /\ Validation \in Record /\ EmptyContext \in Context /\ NoSnapshot \in Snapshots
  /\ \A g : SeedContext(g) \in Context
<1>1. N \in Nat /\ Depth \in Nat
  BY GraphAssumption
<1>2. \A n \in Node, r \in Outcome : Rec(n, r) \in Record
  BY <1>1 DEF Rec, Record, Node
<1>3. Validation \in Record
  BY <1>1 DEF Validation, Rec, Record, Outcome
<1>4. EmptyContext \in Context /\ \A g : SeedContext(g) \in Context
  BY <1>1 DEF EmptyContext, SeedContext, Context, Absent, Initial
<1>5. NoSnapshot \in Snapshots
  BY <1>1, <1>4 DEF NoSnapshot, Snapshots
<1> QED
  BY <1>2, <1>3, <1>4, <1>5

(* A merge of contexts is a context.                                       *)
LEMMA MergeType ==
  ASSUME NEW c \in Context, NEW o \in Context
  PROVE  Merge(c, o) \in Context
BY DEF Merge, Context

-----------------------------------------------------------------------------
(* Where the loop is.                                                      *)

Placed ==
  /\ pc \in {"step", "tool", "save"} => lvl \in Level
  /\ pc = "step" => at \in First[lvl] .. First[lvl + 1]
  /\ pc = "tool" => at \in First[lvl] .. First[lvl + 1] - 1
  /\ mode = "none" => pc = "idle" /\ lvl = 1 /\ store = NoSnapshot /\ exit = "none"

Typed == TypeOK /\ Placed

(* The ways a level is cut short, and a call ends in an exception.         *)
Aborts ==
  /\ pc \in {"step", "tool"} /\ at < First[lvl + 1] /\ (pc = "step" => Selected)
  /\ Abort(Rec(at, "failed"))
Raises == pc # "idle" /\ \E why \in Exit \ {"none", "success", "failure", "cancelled"} : Raise(why)

LEMMA DagCases ==
  ASSUME Typed, [Next]_vars
  PROVE  \/ \E g \in SUBSET Key : Start(g)
         \/ Cancel \/ BeginLevel \/ SkipStep \/ Aborts \/ Dispatch \/ Raises
         \/ \E r \in Ran, t \in 0 .. N : StepSucceeds(r, t)
         \/ MergeLevel \/ Save \/ Invalid \/ Complete \/ MakeResult \/ FireFlowEnd
         \/ Resume \/ RefuseResume \/ RequestCancel
         \/ UNCHANGED vars
<1>1. pc = "tool" => at < First[lvl + 1]
  <2>1. pc = "tool" => lvl \in Level /\ at \in First[lvl] .. First[lvl + 1] - 1
    BY DEF Typed, Placed
  <2> QED
    BY <2>1, LevelBounds
<1>2. FailBeforeTool \/ StepFails \/ (\E r \in Ran : SiblingConflict(r) \/ BranchFails(r))
      => Aborts
  BY <1>1 DEF Aborts, FailBeforeTool, Selected, InLevel, StepFails, SiblingConflict, BranchFails
<1>3. LevelCollides \/ SaveFails \/ Crash \/ (\E r \in Ran : MapRaises(r)) => Raises
  BY DEF Raises, Exit, LevelCollides, LevelDone, SaveFails, Crash, MapRaises
<1> QED
  BY <1>2, <1>3, Zenon DEF Next, Advance

(* The initial state.                                                      *)
LEMMA TypedInit == Init => Typed
<1> SUFFICES ASSUME Init PROVE Typed
  OBVIOUS
<1>1. 1 \in 1 .. Depth + 1 /\ 1 \in 1 .. N + 1 /\ <<>> \in Seq(Record) /\ 0 \in 0 .. N
  BY GraphAssumption
<1>2. store \in Snapshots /\ ctx \in Context /\ outs \in Context
  BY ValueTypes DEF Init
<1> QED
  BY <1>1, <1>2 DEF Init, Typed, TypeOK, Placed, Snapshots, Place, Exit, NoTarget

(* An exception leaves well-typed state behind.                            *)
LEMMA RaiseTyped == Typed /\ Raises => Typed'
<1> SUFFICES ASSUME Typed, Raises PROVE Typed'
  OBVIOUS
<1>1. mode # "none"
  BY DEF Typed, Placed, Raises
<1>2. ctx' \in Context /\ outs' \in Context /\ log' = <<>> /\ recs' = <<>> /\ exit' \in Exit
      /\ pc' = "idle"
  BY ValueTypes DEF Raises, Raise
<1> QED
  BY <1>1, <1>2 DEF Typed, TypeOK, Placed, Raises, Raise, Place

(* Every step keeps the types and the place.                               *)
LEMMA TypedStep == Typed /\ [Next]_vars => Typed'
<1> SUFFICES ASSUME Typed, [Next]_vars PROVE Typed'
  OBVIOUS
<1>t. /\ N \in Nat /\ lvl \in 1 .. Depth + 1 /\ at \in 1 .. N + 1
      /\ log \in Seq(Record) /\ recs \in Seq(Record) /\ ctx \in Context /\ outs \in Context
      /\ store \in Snapshots /\ pc \in Place /\ Depth \in Nat
  BY LevelBounds DEF Typed, TypeOK, Snapshots
<1>p. pc \in {"step", "tool"} /\ at < First[lvl + 1] =>
        /\ lvl \in Level /\ at \in Node /\ at + 1 \in First[lvl] .. First[lvl + 1]
        /\ at + 1 \in 1 .. N + 1 /\ at \in First[lvl] .. First[lvl + 1] - 1
  BY <1>t, LevelBounds DEF Typed, Placed, Node
<1>1. ASSUME NEW g \in SUBSET Key, Start(g) PROVE Typed'
  <2>1. /\ ctx' \in Context /\ log' \in Seq(Record) /\ pc' \in {"boundary", "result"}
        /\ exit' \in Exit
    <3>1. <<Validation>> \in Seq(Record)
      BY ValueTypes
    <3>2. /\ ctx' \in {ctx, SeedContext(g)} /\ log' \in {log, <<Validation>>}
          /\ pc' \in {"boundary", "result"} /\ exit' \in {exit, "failure"}
      BY <1>1 DEF Start
    <3>3. exit \in Exit /\ "failure" \in Exit
      BY DEF Typed, TypeOK, Exit
    <3> QED
      BY <1>t, <3>1, <3>2, <3>3, ValueTypes
  <2> QED
    BY <1>1, <2>1 DEF Typed, TypeOK, Placed, Start, Place
<1>2. ASSUME Cancel \/ Complete PROVE Typed'
  BY <1>2 DEF Typed, TypeOK, Placed, Cancel, Complete, Place, Exit
<1>3. ASSUME BeginLevel PROVE Typed'
  <2>1. /\ lvl \in Level /\ at' = First[lvl] /\ First[lvl] \in First[lvl] .. First[lvl + 1]
        /\ First[lvl] \in 1 .. N + 1
    BY <1>3, LevelBounds DEF BeginLevel
  <2>2. outs' \in Context /\ recs' = <<>> /\ pc' = "step"
    BY <1>3, ValueTypes DEF BeginLevel
  <2> QED
    BY <1>3, <2>1, <2>2 DEF Typed, TypeOK, Placed, BeginLevel, Place
<1>4. ASSUME SkipStep PROVE Typed'
  <2>1. /\ lvl \in Level /\ at \in Node /\ at + 1 \in First[lvl] .. First[lvl + 1]
        /\ at + 1 \in 1 .. N + 1
    BY <1>4, <1>p DEF SkipStep, InLevel
  <2>2. Append(recs, Rec(at, "deselected")) \in Seq(Record)
    BY <1>t, <2>1, ValueTypes, AppendType DEF Outcome, Succeeded
  <2> QED
    BY <1>4, <2>1, <2>2 DEF Typed, TypeOK, Placed, SkipStep
<1>5. ASSUME Aborts PROVE Typed'
  <2>1. Rec(at, "failed") \in Record
    BY <1>5, <1>p, ValueTypes DEF Aborts, Outcome
  <2>2. log \o Append(recs, Rec(at, "failed")) \in Seq(Record)
    BY <1>t, <2>1, AppendType, Joined
  <2> QED
    BY <1>5, <2>2 DEF Typed, TypeOK, Placed, Aborts, Abort, Place, Exit
<1>6. ASSUME Dispatch PROVE Typed'
  <2>1. lvl \in Level /\ at \in Node /\ at \in First[lvl] .. First[lvl + 1] - 1
    BY <1>6, <1>p DEF Dispatch, Selected, InLevel
  <2>2. runs' \in [Node -> Nat]
    <3>1. runs \in [Node -> Nat] /\ runs' = [runs EXCEPT ![at] = runs[at] + 1]
      BY <1>6 DEF Dispatch, Typed, TypeOK
    <3> QED
      BY <2>1, <3>1
  <2> QED
    BY <1>6, <2>1, <2>2 DEF Typed, TypeOK, Placed, Dispatch, Selected, Place
<1>7. ASSUME NEW r \in Ran, NEW t \in 0 .. N, StepSucceeds(r, t) PROVE Typed'
  <2>1. /\ lvl \in Level /\ at \in Node /\ at + 1 \in First[lvl] .. First[lvl + 1]
        /\ at + 1 \in 1 .. N + 1
    <3>1. pc = "tool" /\ lvl \in Level /\ at \in First[lvl] .. First[lvl + 1] - 1
      BY <1>7 DEF StepSucceeds, Typed, Placed
    <3> QED
      BY <1>p, <3>1, LevelBounds
  <2>2. Append(recs, Rec(at, r)) \in Seq(Record)
    BY <1>t, <2>1, ValueTypes, AppendType DEF Outcome, Succeeded
  <2>3. outs' \in Context
    BY <1>7, <1>t, <2>1 DEF StepSucceeds, Context, Node, Absent
  <2>4. skipped' \subseteq Node
    BY <1>7 DEF StepSucceeds, Typed, TypeOK, Deselected, Dependents
  <2>5. chosen' \in [Node -> 0 .. N]
    BY <1>7, <2>1 DEF StepSucceeds, Typed, TypeOK
  <2> QED
    BY <1>7, <2>1, <2>2, <2>3, <2>4, <2>5 DEF Typed, TypeOK, Placed, StepSucceeds, Place
<1>8. ASSUME MergeLevel PROVE Typed'
  <2>1. log \o recs \in Seq(Record)
    BY <1>t, Joined
  <2>2. Merge(ctx, outs) \in Context /\ EmptyContext \in Context
    BY <1>t, MergeType, ValueTypes
  <2> QED
    BY <1>8, <2>1, <2>2 DEF Typed, TypeOK, Placed, MergeLevel, LevelDone, Place
<1>9. ASSUME Save PROVE Typed'
  <2>1. lvl \in Level /\ lvl \in 0 .. Depth /\ lvl + 1 \in 1 .. Depth + 1
    BY <1>9, <1>t DEF Save, Typed, Placed, Level
  <2>2. Snapshot \in Snapshots
    BY <1>t, <2>1 DEF Snapshot, Snapshots
  <2> QED
    BY <1>9, <2>1, <2>2 DEF Typed, TypeOK, Snapshots, Placed, Save, Place
<1>10. ASSUME Invalid PROVE Typed'
  <2>1. Append(log, Validation) \in Seq(Record)
    BY <1>t, ValueTypes, AppendType
  <2> QED
    BY <1>10, <2>1 DEF Typed, TypeOK, Placed, Invalid, Place, Exit
<1>11. ASSUME MakeResult PROVE Typed'
  <2>1. store' \in Snapshots
    BY <1>11, <1>t, ValueTypes DEF MakeResult
  <2> QED
    BY <1>11, <2>1 DEF Typed, TypeOK, Snapshots, Placed, MakeResult, Place
<1>12. ASSUME FireFlowEnd \/ RequestCancel PROVE Typed'
  BY <1>12 DEF Typed, TypeOK, Placed, FireFlowEnd, RequestCancel, Place
<1>13. ASSUME Resume PROVE Typed'
  <2>1. store.ctx \in Context /\ store.log \in Seq(Record) /\ store.done + 1 \in 1 .. Depth + 1
    BY <1>t DEF Snapshots
  <2>2. chosen' \in [Node -> 0 .. N]
    BY <1>13, <1>t DEF Resume, Typed, TypeOK, NoTarget
  <2>3. outs' \in Context
    BY <1>13, ValueTypes DEF Resume
  <2> QED
    BY <1>13, <2>1, <2>2, <2>3 DEF Typed, TypeOK, Placed, Resume, ResumeLevel, Place, Exit
<1>14. ASSUME RefuseResume PROVE Typed'
  BY <1>14, ValueTypes DEF Typed, TypeOK, Placed, RefuseResume, Place, Exit
<1>15. CASE UNCHANGED vars
  BY <1>15 DEF Typed, TypeOK, Placed, vars
<1> QED
  BY DagCases, <1>1, <1>2, <1>3, <1>4, <1>5, <1>6, <1>7, <1>8, <1>9, <1>10, <1>11, <1>12, <1>13,
     <1>14, <1>15, RaiseTyped, Zenon

(* The types and the place, in every reachable state.                      *)
LEMMA TypedAlways == Spec => []Typed
BY TypedInit, TypedStep, PTL DEF Spec

(* The types hold: neither the level nor the position in it leaves the     *)
(* graph, whatever is skipped, aborted and resumed.                        *)
THEOREM DagTypes == Spec => []TypeOK
<1>1. Typed => TypeOK
  BY Zenon DEF Typed
<1> QED
  BY <1>1, TypedAlways, PTL

-----------------------------------------------------------------------------
(* The log.                                                                *)

InLevelLoop == pc \in {"step", "tool"}

(* The records of the level in hand continue the log.                      *)
Gathered == InLevelLoop => Completed(log \o recs, at - 1)

LogInv ==
  /\ LogFollowsOrder /\ Gathered
  /\ pc = "save" => Completed(log, Before(lvl + 1))
  /\ store.done > 0 => Completed(store.log, Before(store.done + 1))
  /\ mode = "none" => log = <<>>

(* A log whose last record reports a failure.                              *)
FailedLog(l) ==
  /\ l # <<>> /\ l[Len(l)].res \notin Succeeded
  /\ \A i \in 1 .. Len(l) - 1 : l[i].res \in Succeeded
  /\ \A i \in 1 .. Len(l) : l[i].step \in {0, i}

(* One more successful step, and a record of a failure.                    *)
LEMMA CompletedAppend ==
  ASSUME NEW l \in Seq(Record), NEW n \in Node, Completed(l, n - 1), NEW r \in Succeeded
  PROVE  Completed(Append(l, Rec(n, r)), n)
<1>1. n \in Nat /\ n > 0 /\ Rec(n, r) \in Record /\ Rec(n, r).step = n /\ Rec(n, r).res = r
  BY LevelBounds, ValueTypes DEF Node, Outcome, Rec
<1>2. Len(l) = n - 1
  BY DEF Completed
<1>3. /\ Len(Append(l, Rec(n, r))) = n /\ Append(l, Rec(n, r))[n] = Rec(n, r)
      /\ \A i \in 1 .. n - 1 : Append(l, Rec(n, r))[i] = l[i]
  BY <1>1, <1>2, AppendType
<1> QED
  BY <1>1, <1>3 DEF Completed

LEMMA FailedAppend ==
  ASSUME NEW l \in Seq(Record), NEW n \in Nat, Completed(l, n),
         NEW x \in Record, x.res \notin Succeeded, x.step \in {0, n + 1}
  PROVE  FailedLog(Append(l, x))
<1>1. Len(l) = n
  BY DEF Completed
<1>2. /\ Len(Append(l, x)) = n + 1 /\ Append(l, x)[n + 1] = x /\ Append(l, x) \in Seq(Record)
      /\ \A i \in 1 .. n : Append(l, x)[i] = l[i]
  BY <1>1, AppendType
<1> DEFINE a == Append(l, x)
<1> HIDE DEF a
<1>3. a # <<>> /\ Len(a) = n + 1 /\ a[n + 1] = x /\ \A i \in 1 .. n : a[i] = l[i]
  BY <1>2 DEF a
<1>4. FailedLog(a)
  BY <1>3 DEF Completed, FailedLog
<1> QED
  BY <1>4 DEF a

(* Initially nothing is logged and nothing stored.                         *)
LEMMA LogInit == Init => LogInv
<1> SUFFICES ASSUME Init PROVE LogInv
  OBVIOUS
<1>1. pc = "idle" /\ exit = "none" /\ store.done = 0 /\ log = <<>>
  BY DEF Init, NoSnapshot
<1> QED
  BY <1>1 DEF LogInv, LogFollowsOrder, Gathered, InLevelLoop, Built

(* Every step keeps the log in order.                                      *)
LEMMA LogStep == Typed /\ LogInv /\ [Next]_vars => LogInv'
<1> SUFFICES ASSUME Typed, LogInv, [Next]_vars PROVE LogInv'
  OBVIOUS
<1>t. /\ lvl \in 1 .. Depth + 1 /\ at \in 1 .. N + 1 /\ N \in Nat
      /\ log \in Seq(Record) /\ recs \in Seq(Record) /\ log \o recs \in Seq(Record)
  BY LevelBounds, Joined DEF Typed, TypeOK
<1>p. InLevelLoop /\ at < First[lvl + 1] => lvl \in Level /\ at \in Node
  BY <1>t, LevelBounds DEF Typed, Placed, Node, InLevelLoop
<1>1. ASSUME NEW g \in SUBSET Key, Start(g) PROVE LogInv'
  <2>1. lvl = 1 /\ store.done = 0 /\ log = <<>>
    BY <1>1 DEF Start, Typed, Placed, NoSnapshot, LogInv
  <2>2. UNCHANGED <<lvl, store>> /\ mode' # "none"
    BY <1>1 DEF Start
  <2>3. CASE pc' = "boundary" /\ log' = log
    <3>1. Completed(log, Before(lvl))
      BY <2>1, Ends DEF Completed
    <3> QED
      BY <2>1, <2>2, <2>3, <3>1
         DEF LogInv, LogFollowsOrder, Gathered, InLevelLoop, Built, Running
  <2>4. CASE pc' = "result" /\ exit' = "failure" /\ log' = <<Validation>>
    <3>1. FailedLog(log')
      BY <2>4 DEF FailedLog, Validation, Rec, Succeeded, Ran
    <3>2. LogFollowsOrder'
      BY <2>4, <3>1 DEF LogFollowsOrder, FailedLog, Built, Running
    <3> QED
      BY <2>1, <2>2, <2>4, <3>2 DEF LogInv, Gathered, InLevelLoop
  <2> QED
    BY <1>1, <2>3, <2>4 DEF Start
<1>2. ASSUME Cancel \/ Complete PROVE LogInv'
  <2>1. /\ pc = "boundary" /\ pc' = "result" /\ UNCHANGED <<lvl, log, store, mode>>
        /\ exit' = "cancelled" \/ (exit' = "success" /\ lvl = Depth + 1)
    BY <1>2 DEF Cancel, Complete
  <2>2. Completed(log, Before(lvl))
    BY <2>1 DEF LogInv, LogFollowsOrder
  <2>3. LogFollowsOrder'
    BY <2>1, <2>2, Ends DEF LogFollowsOrder, Built, Running
  <2> QED
    BY <2>1, <2>3 DEF LogInv, Gathered, InLevelLoop
<1>3. ASSUME BeginLevel PROVE LogInv'
  <2>1. /\ pc = "boundary" /\ pc' = "step" /\ at' = First[lvl] /\ recs' = <<>> /\ lvl \in Level
        /\ UNCHANGED <<lvl, log, store, mode>>
    BY <1>3 DEF BeginLevel
  <2>2. log \o <<>> = log
    BY <1>t
  <2>3. Completed(log, Before(lvl))
    BY <2>1 DEF LogInv, LogFollowsOrder
  <2>4. Gathered'
    BY <2>1, <2>2, <2>3 DEF Gathered, Before
  <2> QED
    BY <2>1, <2>3, <2>4 DEF LogInv, LogFollowsOrder, Built, Running
<1>4. ASSUME SkipStep \/ \E r \in Ran, t \in 0 .. N : StepSucceeds(r, t) PROVE LogInv'
  <2>1. /\ InLevelLoop /\ at < First[lvl + 1] /\ pc' = "step" /\ at' = at + 1
        /\ UNCHANGED <<lvl, log, store, mode>>
        /\ \E r \in Succeeded : recs' = Append(recs, Rec(at, r))
    <3>1. pc = "tool" => at < First[lvl + 1]
      <4>1. pc = "tool" => lvl \in Level /\ at \in First[lvl] .. First[lvl + 1] - 1
        BY DEF Typed, Placed
      <4> QED
        BY <4>1, LevelBounds
    <3> QED
      BY <1>4, <3>1 DEF SkipStep, StepSucceeds, InLevelLoop, InLevel, Succeeded
  <2> PICK r \in Succeeded : recs' = Append(recs, Rec(at, r))
    BY <2>1
  <2>2. at \in Node /\ Rec(at, r) \in Record
    BY <1>p, <2>1, ValueTypes DEF Outcome
  <2>3. log \o recs' = Append(log \o recs, Rec(at, r))
    BY <1>t, <2>2, JoinedAppend
  <2>4. Completed(Append(log \o recs, Rec(at, r)), at)
    BY <1>t, <2>1, <2>2, CompletedAppend DEF LogInv, Gathered
  <2>5. Gathered'
    BY <1>t, <2>1, <2>3, <2>4 DEF Gathered
  <2>6. Completed(log, Before(lvl))
    BY <2>1 DEF LogInv, LogFollowsOrder, InLevelLoop
  <2> QED
    BY <2>1, <2>5, <2>6 DEF LogInv, LogFollowsOrder, Built, Running
<1>5. ASSUME Aborts PROVE LogInv'
  <2>1. /\ InLevelLoop /\ at < First[lvl + 1] /\ log' = log \o Append(recs, Rec(at, "failed"))
        /\ pc' = "result" /\ exit' = "failure" /\ UNCHANGED <<lvl, store, mode>>
    BY <1>5 DEF Aborts, Abort, InLevelLoop
  <2>2. at \in Node /\ Rec(at, "failed") \in Record /\ at - 1 \in Nat
    BY <1>t, <1>p, <2>1, ValueTypes DEF Outcome
  <2>3. log' = Append(log \o recs, Rec(at, "failed"))
    BY <1>t, <2>1, <2>2, JoinedAppend
  <2>4. /\ Rec(at, "failed").res \notin Succeeded
        /\ Rec(at, "failed").step \in {0, at - 1 + 1}
    BY <1>t DEF Rec, Succeeded, Ran
  <2>5. Completed(log \o recs, at - 1)
    BY <2>1 DEF LogInv, Gathered
  <2>6. FailedLog(log')
    BY <1>t, <2>2, <2>3, <2>4, <2>5, FailedAppend
  <2>7. LogFollowsOrder'
    BY <2>1, <2>6 DEF LogFollowsOrder, FailedLog, Built, Running
  <2>8. mode # "none"
    BY <2>1 DEF Typed, Placed, InLevelLoop
  <2> QED
    BY <2>1, <2>7, <2>8 DEF LogInv, Gathered, InLevelLoop
<1>6. ASSUME Dispatch PROVE LogInv'
  BY <1>6 DEF Dispatch, Selected, LogInv, LogFollowsOrder, Gathered, InLevelLoop, Built, Running
<1>7. ASSUME Raises PROVE LogInv'
  <2>1. /\ pc' = "idle" /\ exit' \notin {"none", "success", "failure", "cancelled"}
        /\ UNCHANGED <<store, mode>> /\ log' = <<>>
    BY <1>7 DEF Raises, Raise
  <2> QED
    BY <2>1 DEF LogInv, LogFollowsOrder, Gathered, InLevelLoop, Built, Running
<1>8. ASSUME MergeLevel PROVE LogInv'
  <2>1. /\ pc = "step" /\ ~(at < First[lvl + 1]) /\ pc' = "save" /\ log' = log \o recs
        /\ UNCHANGED <<lvl, store, mode>>
    BY <1>8 DEF MergeLevel, LevelDone, InLevel
  <2>2. lvl \in Level /\ at = First[lvl + 1] /\ mode # "none"
    <3>1. lvl \in Level /\ at \in First[lvl] .. First[lvl + 1] /\ mode # "none"
      BY <2>1 DEF Typed, Placed
    <3> QED
      BY <2>1, <3>1, LevelBounds
  <2>3. Completed(log', Before(lvl + 1))
    BY <2>1, <2>2 DEF LogInv, Gathered, InLevelLoop, Before
  <2> QED
    BY <2>1, <2>2, <2>3 DEF LogInv, LogFollowsOrder, Gathered, InLevelLoop, Built, Running
<1>9. ASSUME Save PROVE LogInv'
  <2>1. /\ pc = "save" /\ pc' = "boundary" /\ lvl' = lvl + 1 /\ store'.done = lvl
        /\ store'.log = log /\ UNCHANGED <<log, mode>>
    BY <1>9 DEF Save, Snapshot
  <2> QED
    BY <2>1 DEF LogInv, LogFollowsOrder, Gathered, InLevelLoop, Built, Running
<1>10. ASSUME Invalid PROVE LogInv'
  <2>1. /\ pc = "boundary" /\ lvl = Depth + 1 /\ log' = Append(log, Validation)
        /\ pc' = "result" /\ exit' = "failure" /\ UNCHANGED <<lvl, store, mode>>
    BY <1>10 DEF Invalid
  <2>2. Completed(log, N) /\ mode # "none"
    BY <2>1, Ends DEF LogInv, LogFollowsOrder, Typed, Placed
  <2>3. FailedLog(log')
    <3>1. Validation \in Record /\ Validation.res \notin Succeeded /\ Validation.step \in {0, N + 1}
      BY ValueTypes DEF Validation, Rec, Succeeded, Ran
    <3> QED
      BY <1>t, <2>1, <2>2, <3>1, FailedAppend
  <2>4. LogFollowsOrder'
    BY <2>1, <2>3 DEF LogFollowsOrder, FailedLog, Built, Running
  <2> QED
    BY <2>1, <2>2, <2>4 DEF LogInv, Gathered, InLevelLoop
<1>11. ASSUME MakeResult PROVE LogInv'
  <2>1. /\ pc = "result" /\ pc' = "flowend" /\ UNCHANGED <<lvl, log, mode, exit>>
        /\ store' \in {store, NoSnapshot}
    BY <1>11 DEF MakeResult
  <2>2. LogFollowsOrder'
    BY <2>1 DEF LogInv, LogFollowsOrder, Built, Running
  <2> QED
    BY <2>1, <2>2 DEF LogInv, Gathered, InLevelLoop, NoSnapshot
<1>12. ASSUME FireFlowEnd PROVE LogInv'
  BY <1>12 DEF FireFlowEnd, LogInv, LogFollowsOrder, Gathered, InLevelLoop, Built, Running
<1>13. ASSUME Resume PROVE LogInv'
  <2>1. /\ pc' = "boundary" /\ log' = store.log /\ lvl' = store.done + 1 /\ store.done > 0
        /\ mode' # "none" /\ UNCHANGED store
    BY <1>13 DEF Resume, ResumeLevel
  <2> QED
    BY <2>1 DEF LogInv, LogFollowsOrder, Gathered, InLevelLoop, Built, Running
<1>14. ASSUME RefuseResume PROVE LogInv'
  BY <1>14 DEF RefuseResume, LogInv, LogFollowsOrder, Gathered, InLevelLoop, Built, Running
<1>15. ASSUME RequestCancel \/ UNCHANGED vars PROVE LogInv'
  BY <1>15
     DEF RequestCancel, vars, LogInv, LogFollowsOrder, Gathered, InLevelLoop, Built, Running
<1> QED
  BY DagCases, <1>1, <1>2, <1>3, <1>4, <1>5, <1>6, <1>7, <1>8, <1>9, <1>10, <1>11, <1>12, <1>13,
     <1>14, <1>15, Zenon

LEMMA LogAlways == Spec => []LogInv
BY LogInit, LogStep, TypedAlways, PTL DEF Spec

(* The log has one record per step, at the step's flat index, over all the *)
(* calls of a trace (_execute_dag_flow, _resume_dag_flow): whole levels    *)
(* while the run proceeds, and up to the failed step in a failed result.   *)
THEOREM DagLogFollowsOrder == Spec => []LogFollowsOrder
<1>1. LogInv => LogFollowsOrder
  BY Zenon DEF LogInv
<1> QED
  BY <1>1, LogAlways, PTL

-----------------------------------------------------------------------------
(* The context.                                                            *)

(* o holds, for each key, the one of the steps lo .. hi that wrote it.     *)
Writers(o, l, lo, hi) ==
  \A k \in Key :
    \/ /\ o[k] \in lo .. hi /\ Wrote(l, o[k], k)
       /\ \A j \in lo .. hi : Wrote(l, j, k) => j = o[k]
    \/ /\ o[k] = Absent
       /\ \A j \in lo .. hi : ~Wrote(l, j, k)

(* level_outputs is what the records of the level in hand contributed.     *)
Outputs == InLevelLoop => Writers(outs, log \o recs, First[lvl], at - 1)

ContextInv ==
  /\ ContextMatchesLog /\ Outputs
  /\ store.done > 0 => Matches(given, store.ctx, store.log)

(* Who wrote a key depends on the record alone.                            *)
LEMMA WroteSame ==
  ASSUME NEW l, NEW m, NEW i, NEW k, l[i] = m[i]
  PROVE  Wrote(l, i, k) <=> Wrote(m, i, k)
BY DEF Wrote

(* Merging the outputs of the steps that follow the log keeps the context  *)
(* what the log builds.                                                    *)
LEMMA MergeMatches ==
  ASSUME NEW g, NEW c \in Context, NEW o \in Context,
         NEW l \in Seq(Record), NEW r \in Seq(Record),
         Matches(g, c, l), Writers(o, l \o r, Len(l) + 1, Len(l) + Len(r))
  PROVE  Matches(g, Merge(c, o), l \o r)
<1> DEFINE f == l \o r
<1>1. /\ Len(l) \in Nat /\ Len(r) \in Nat /\ Len(f) = Len(l) + Len(r)
      /\ \A i \in 1 .. Len(l) : f[i] = l[i]
  BY Joined
<1>2. \A i \in 1 .. Len(l) : \A k \in Key : Wrote(f, i, k) <=> Wrote(l, i, k)
  BY <1>1, WroteSame
<1>3. Writers(o, f, Len(l) + 1, Len(f))
  BY <1>1
<1> HIDE DEF f
<1>4. ASSUME NEW k \in Key
      PROVE  LET m == Merge(c, o)[k]
             IN  \/ /\ m \in 1 .. Len(f) /\ Wrote(f, m, k)
                    /\ \A j \in 1 .. Len(f) : j > m => ~Wrote(f, j, k)
                 \/ /\ m = SeedContext(g)[k]
                    /\ \A j \in 1 .. Len(f) : ~Wrote(f, j, k)
  <2>1. CASE /\ o[k] \in Len(l) + 1 .. Len(f) /\ Wrote(f, o[k], k)
             /\ \A j \in Len(l) + 1 .. Len(f) : Wrote(f, j, k) => j = o[k]
    <3>1. Merge(c, o)[k] = o[k]
      BY <1>1, <2>1 DEF Merge, Absent
    <3>l. Len(l) \in Nat /\ Len(f) \in Nat
      BY <1>1
    <3>o. o[k] \in Len(l) + 1 .. Len(f)
      BY <2>1
    <3>a. o[k] \in 1 .. Len(f)
      BY <3>l, <3>o
    <3>b. \A j \in 1 .. Len(f) : j > o[k] => j \in Len(l) + 1 .. Len(f) /\ j # o[k]
      BY <3>l, <3>o
    <3>2. o[k] \in 1 .. Len(f) /\ \A j \in 1 .. Len(f) : j > o[k] => ~Wrote(f, j, k)
      BY <3>a, <3>b, <2>1, Zenon
    <3> QED
      BY <2>1, <3>1, <3>2
  <2>2. CASE o[k] = Absent /\ \A j \in Len(l) + 1 .. Len(f) : ~Wrote(f, j, k)
    <3>1. Merge(c, o)[k] = c[k]
      BY <2>2 DEF Merge
    <3>2. \A j \in 1 .. Len(f) : Wrote(f, j, k) => j \in 1 .. Len(l) /\ Wrote(l, j, k)
      BY <1>1, <1>2, <2>2
    <3>3. \/ /\ c[k] \in 1 .. Len(l) /\ Wrote(l, c[k], k)
             /\ \A j \in 1 .. Len(l) : j > c[k] => ~Wrote(l, j, k)
          \/ /\ c[k] = SeedContext(g)[k]
             /\ \A j \in 1 .. Len(l) : ~Wrote(l, j, k)
      BY DEF Matches
    <3>4. CASE /\ c[k] \in 1 .. Len(l) /\ Wrote(l, c[k], k)
               /\ \A j \in 1 .. Len(l) : j > c[k] => ~Wrote(l, j, k)
      <4>1. c[k] \in 1 .. Len(f) /\ Wrote(f, c[k], k)
        BY <1>1, <1>2, <3>4
      <4> QED
        BY <3>1, <3>2, <3>4, <4>1
    <3>5. CASE c[k] = SeedContext(g)[k] /\ \A j \in 1 .. Len(l) : ~Wrote(l, j, k)
      BY <3>1, <3>2, <3>5
    <3> QED
      BY <3>3, <3>4, <3>5
  <2> QED
    BY <1>3, <2>1, <2>2 DEF Writers
<1>5. Matches(g, Merge(c, o), f)
  BY <1>4 DEF Matches
<1> QED
  BY <1>5 DEF f

(* One more record in the level.                                           *)
LEMMA WritersAppend ==
  ASSUME NEW o \in Context, NEW p \in Context, NEW l \in Seq(Record), NEW n \in Node,
         NEW lo \in Nat, lo <= n, lo > 0, NEW r \in Outcome, Len(l) = n - 1,
         Writers(o, l, lo, n - 1),
         \A k \in Key : IF r \in Ran /\ k \in Contribution(n, r)
                          THEN p[k] = n /\ o[k] = Absent ELSE p[k] = o[k]
  PROVE  Writers(p, Append(l, Rec(n, r)), lo, n)
<1> DEFINE f == Append(l, Rec(n, r))
<1>1. /\ n \in Nat /\ n > 0 /\ Rec(n, r) \in Record /\ Rec(n, r).res = r
  BY LevelBounds, ValueTypes DEF Node, Rec
<1>2. f[n] = Rec(n, r) /\ \A i \in 1 .. n - 1 : f[i] = l[i]
  BY <1>1, AppendType
<1> HIDE DEF f
<1>3. \A i \in lo .. n - 1, k \in Key : Wrote(f, i, k) <=> Wrote(l, i, k)
  BY <1>1, <1>2, WroteSame
<1>4. \A k \in Key : Wrote(f, n, k) <=> r \in Ran /\ k \in Contribution(n, r)
  BY <1>1, <1>2 DEF Wrote
<1>5. ASSUME NEW k \in Key
      PROVE  \/ /\ p[k] \in lo .. n /\ Wrote(f, p[k], k)
                /\ \A j \in lo .. n : Wrote(f, j, k) => j = p[k]
             \/ p[k] = Absent /\ \A j \in lo .. n : ~Wrote(f, j, k)
  <2>1. CASE Wrote(f, n, k)
    <3>1. p[k] = n /\ o[k] = Absent
      BY <1>4, <2>1
    <3>2. \A j \in lo .. n - 1 : ~Wrote(l, j, k)
      BY <1>1, <3>1 DEF Writers, Absent
    <3> QED
      BY <1>1, <1>3, <2>1, <3>1, <3>2
  <2>2. CASE ~Wrote(f, n, k)
    <3>1. p[k] = o[k]
      BY <1>4, <2>2
    <3>2. \A j \in lo .. n : Wrote(f, j, k) => j \in lo .. n - 1 /\ Wrote(l, j, k)
      BY <1>1, <1>3, <2>2
    <3>3. CASE /\ o[k] \in lo .. n - 1 /\ Wrote(l, o[k], k)
               /\ \A j \in lo .. n - 1 : Wrote(l, j, k) => j = o[k]
      <4>1. p[k] \in lo .. n /\ Wrote(f, p[k], k)
        BY <1>1, <1>3, <3>1, <3>3
      <4> QED
        BY <3>1, <3>2, <3>3, <4>1
    <3>4. CASE o[k] = Absent /\ \A j \in lo .. n - 1 : ~Wrote(l, j, k)
      BY <3>1, <3>2, <3>4
    <3> QED
      BY <3>3, <3>4 DEF Writers
  <2> QED
    BY <2>1, <2>2
<1>6. Writers(p, f, lo, n)
  BY <1>5 DEF Writers
<1> QED
  BY <1>6 DEF f

(* Initially nothing is claimed.                                           *)
LEMMA ContextInit == Init => ContextInv
<1> SUFFICES ASSUME Init PROVE ContextInv
  OBVIOUS
<1>1. pc = "idle" /\ exit = "none" /\ store.done = 0
  BY DEF Init, NoSnapshot
<1> QED
  BY <1>1 DEF ContextInv, ContextMatchesLog, Outputs, InLevelLoop, Running, Built

(* Every step keeps the context what the log builds.                       *)
LEMMA ContextStep == Typed /\ LogInv /\ ContextInv /\ [Next]_vars => ContextInv'
<1> SUFFICES ASSUME Typed, LogInv, ContextInv, [Next]_vars PROVE ContextInv'
  OBVIOUS
<1>t. /\ lvl \in 1 .. Depth + 1 /\ at \in 1 .. N + 1 /\ N \in Nat
      /\ log \in Seq(Record) /\ recs \in Seq(Record) /\ log \o recs \in Seq(Record)
      /\ ctx \in Context /\ outs \in Context
  BY LevelBounds, Joined DEF Typed, TypeOK
<1>p. InLevelLoop /\ at < First[lvl + 1] =>
        /\ lvl \in Level /\ at \in Node /\ First[lvl] \in Nat /\ First[lvl] > 0 /\ First[lvl] <= at
  BY <1>t, LevelBounds, SMTT(60) DEF Typed, Placed, Node, InLevelLoop
<1>1. ASSUME NEW g \in SUBSET Key, Start(g) PROVE ContextInv'
  <2>1. log = <<>> /\ store.done = 0 /\ UNCHANGED store /\ given' = g
    BY <1>1 DEF Start, Typed, Placed, NoSnapshot, LogInv
  <2>2. CASE pc' = "boundary" /\ ctx' = SeedContext(g) /\ log' = log
    <3>1. Matches(g, SeedContext(g), <<>>)
      BY DEF Matches
    <3> QED
      BY <2>1, <2>2, <3>1 DEF ContextInv, ContextMatchesLog, Outputs, InLevelLoop
  <2>3. CASE pc' = "result" /\ exit' = "failure"
    BY <2>1, <2>3 DEF ContextInv, ContextMatchesLog, Outputs, InLevelLoop, Running, Built
  <2> QED
    BY <1>1, <2>2, <2>3 DEF Start
<1>2. ASSUME Cancel \/ Complete PROVE ContextInv'
  BY <1>2 DEF Cancel, Complete, ContextInv, ContextMatchesLog, Outputs, InLevelLoop, Running,
              Built
<1>3. ASSUME BeginLevel PROVE ContextInv'
  <2>1. /\ pc = "boundary" /\ pc' = "step" /\ at' = First[lvl] /\ outs' = EmptyContext
        /\ lvl \in Level /\ UNCHANGED <<lvl, log, ctx, given, store>>
    BY <1>3 DEF BeginLevel
  <2>2. First[lvl] \in Nat
    BY <2>1, LevelBounds
  <2>3. \A l : Writers(EmptyContext, l, First[lvl], First[lvl] - 1)
    BY <2>2 DEF Writers, EmptyContext
  <2>4. Outputs'
    BY <2>1, <2>3 DEF Outputs
  <2> QED
    BY <2>1, <2>4 DEF ContextInv, ContextMatchesLog, Running
<1>4. ASSUME NEW r \in Succeeded, NEW o \in Context, InLevelLoop, at < First[lvl + 1],
             pc' = "step", at' = at + 1, recs' = Append(recs, Rec(at, r)), outs' = o,
             UNCHANGED <<lvl, log, ctx, given, store>>,
             \A k \in Key : IF r \in Ran /\ k \in Contribution(at, r)
                              THEN o[k] = at /\ outs[k] = Absent ELSE o[k] = outs[k]
      PROVE  ContextInv'
  <2>1. /\ lvl \in Level /\ at \in Node /\ First[lvl] \in Nat /\ First[lvl] > 0
        /\ First[lvl] <= at /\ r \in Outcome /\ Rec(at, r) \in Record
    BY <1>4, <1>p, ValueTypes DEF Outcome
  <2>2. log \o recs' = Append(log \o recs, Rec(at, r))
    BY <1>t, <1>4, <2>1, JoinedAppend, SMTT(60)
  <2>3. Len(log \o recs) = at - 1
    BY <1>4 DEF LogInv, Gathered, Completed
  <2>4. Writers(outs, log \o recs, First[lvl], at - 1)
    BY <1>4 DEF ContextInv, Outputs
  <2>5. Writers(o, Append(log \o recs, Rec(at, r)), First[lvl], at)
    BY <1>t, <1>4, <2>1, <2>3, <2>4, WritersAppend
  <2>6. Outputs'
    BY <1>t, <1>4, <2>2, <2>5 DEF Outputs
  <2> QED
    BY <1>4, <2>6 DEF ContextInv, ContextMatchesLog, InLevelLoop, Running
<1>5. ASSUME SkipStep PROVE ContextInv'
  <2>1. "deselected" \in Succeeded /\ "deselected" \notin Ran
    BY DEF Succeeded, Ran
  <2> QED
    BY <1>t, <1>4, <1>5, <2>1 DEF SkipStep, InLevelLoop, InLevel
<1>6. ASSUME NEW r \in Ran, NEW t \in 0 .. N, StepSucceeds(r, t) PROVE ContextInv'
  <2>1. /\ pc = "tool" /\ at < First[lvl + 1] /\ at \in Node
    <3>1. pc = "tool" /\ lvl \in Level /\ at \in First[lvl] .. First[lvl + 1] - 1
      BY <1>6 DEF StepSucceeds, Typed, Placed
    <3> QED
      BY <3>1, LevelBounds
  <2>2. outs' = [k \in Key |-> IF k \in Contribution(at, r) THEN at ELSE outs[k]]
    BY <1>6 DEF StepSucceeds
  <2>3. outs' \in Context
    BY <1>t, <2>1, <2>2, LevelBounds DEF Context, Node, Absent
  <2>4. \A k \in Key : IF r \in Ran /\ k \in Contribution(at, r)
                         THEN outs'[k] = at /\ outs[k] = Absent ELSE outs'[k] = outs[k]
    BY <1>6, <2>2 DEF StepSucceeds, Conflicts
  <2> QED
    BY <1>4, <1>6, <2>1, <2>3, <2>4 DEF StepSucceeds, InLevelLoop, Succeeded
<1>7. ASSUME Dispatch PROVE ContextInv'
  BY <1>7 DEF Dispatch, Selected, ContextInv, ContextMatchesLog, Outputs, InLevelLoop, Running
<1>8. ASSUME Raises \/ Aborts \/ Invalid \/ RefuseResume PROVE ContextInv'
  <2>1. /\ pc' \notin {"boundary", "step", "tool", "save"} /\ exit' # "success"
        /\ UNCHANGED <<store, given>>
    BY <1>8 DEF Raises, Raise, Aborts, Abort, Invalid, RefuseResume
  <2> QED
    BY <2>1 DEF ContextInv, ContextMatchesLog, Outputs, InLevelLoop, Running, Built
<1>9. ASSUME MergeLevel PROVE ContextInv'
  <2>1. /\ pc = "step" /\ ~(at < First[lvl + 1]) /\ pc' = "save" /\ log' = log \o recs
        /\ ctx' = Merge(ctx, outs) /\ UNCHANGED <<store, given>>
    BY <1>9 DEF MergeLevel, LevelDone, InLevel
  <2>2. Len(log \o recs) = at - 1 /\ Len(log) = First[lvl] - 1 /\ First[lvl] \in Nat
    <3>1. lvl \in Level
      BY <2>1 DEF Typed, Placed
    <3>2. Completed(log \o recs, at - 1) /\ Completed(log, First[lvl] - 1)
      BY <2>1 DEF LogInv, LogFollowsOrder, Gathered, InLevelLoop, Before
    <3> QED
      BY <3>1, <3>2, LevelBounds DEF Completed
  <2>3. Writers(outs, log \o recs, Len(log) + 1, Len(log) + Len(recs))
    <3>1. Len(log) + 1 = First[lvl] /\ Len(log) + Len(recs) = at - 1
      <4>1. /\ Len(log \o recs) = Len(log) + Len(recs)
            /\ Len(log) \in Nat /\ Len(recs) \in Nat /\ at \in Nat
        BY <1>t, Joined
      <4> QED
        BY <2>2, <4>1
    <3> QED
      BY <2>1, <3>1 DEF ContextInv, Outputs, InLevelLoop
  <2>4. Matches(given, ctx, log)
    BY <2>1 DEF ContextInv, ContextMatchesLog, Running
  <2>5. Matches(given, Merge(ctx, outs), log \o recs)
    BY <1>t, <2>3, <2>4, MergeMatches
  <2> QED
    BY <2>1, <2>5 DEF ContextInv, ContextMatchesLog, Outputs, InLevelLoop
<1>10. ASSUME Save PROVE ContextInv'
  <2>1. /\ pc = "save" /\ pc' = "boundary" /\ store'.ctx = ctx /\ store'.log = log
        /\ UNCHANGED <<ctx, log, given>>
    BY <1>10 DEF Save, Snapshot
  <2> QED
    BY <2>1 DEF ContextInv, ContextMatchesLog, Outputs, InLevelLoop, Running
<1>11. ASSUME MakeResult PROVE ContextInv'
  <2>1. /\ pc = "result" /\ pc' = "flowend" /\ UNCHANGED <<ctx, log, given, exit>>
        /\ store' \in {store, NoSnapshot}
    BY <1>11 DEF MakeResult
  <2>2. ContextMatchesLog'
    BY <2>1 DEF ContextInv, ContextMatchesLog, Running, Built
  <2> QED
    BY <2>1, <2>2 DEF ContextInv, Outputs, InLevelLoop, NoSnapshot
<1>12. ASSUME FireFlowEnd \/ RequestCancel \/ UNCHANGED vars PROVE ContextInv'
  BY <1>12 DEF FireFlowEnd, RequestCancel, vars, ContextInv, ContextMatchesLog, Outputs,
               InLevelLoop, Running, Built
<1>13. ASSUME Resume PROVE ContextInv'
  BY <1>13 DEF Resume, ContextInv, ContextMatchesLog, Outputs, InLevelLoop
<1> QED
  BY DagCases, <1>1, <1>2, <1>3, <1>5, <1>6, <1>7, <1>8, <1>9, <1>10, <1>11, <1>12, <1>13, Zenon

LEMMA ContextAlways == Spec => []ContextInv
BY ContextInit, ContextStep, TypedAlways, LogAlways, PTL DEF Spec

(* What a step reads, and what the caller gets, is what the logged steps   *)
(* contributed, merged level by level (merge of level_outputs in           *)
(* _execute_dag_flow), across crashes and resumes.                         *)
THEOREM DagContextMatchesLog == Spec => []ContextMatchesLog
<1>1. ContextInv => ContextMatchesLog
  BY Zenon DEF ContextInv
<1> QED
  BY <1>1, ContextAlways, PTL

-----------------------------------------------------------------------------
(* The snapshot.                                                           *)

(* The snapshot is one level behind until the level in hand is saved.      *)
KeepsUp ==
  Running \/ (Built /\ exit \in {"failure", "cancelled"}) => store.done = lvl - 1

LEMMA KeepsUpStep == Typed /\ KeepsUp /\ [Next]_vars => KeepsUp'
<1> SUFFICES ASSUME Typed, KeepsUp, [Next]_vars PROVE KeepsUp'
  OBVIOUS
<1> USE DEF KeepsUp, Running, Built
<1>1. ASSUME NEW g \in SUBSET Key, Start(g) PROVE KeepsUp'
  BY <1>1 DEF Start, Typed, Placed, NoSnapshot
<1>2. ASSUME \/ Cancel \/ Complete \/ BeginLevel \/ SkipStep \/ Aborts \/ Dispatch \/ MergeLevel
             \/ Invalid \/ FireFlowEnd \/ RequestCancel
             \/ \E r \in Ran, t \in 0 .. N : StepSucceeds(r, t)
      PROVE  KeepsUp'
  BY <1>2 DEF Cancel, Complete, BeginLevel, SkipStep, Aborts, Abort, Dispatch, Selected,
              MergeLevel, LevelDone, Invalid, FireFlowEnd, RequestCancel, StepSucceeds
<1>3. ASSUME Raises \/ RefuseResume PROVE KeepsUp'
  BY <1>3 DEF Raises, Raise, RefuseResume
<1>4. ASSUME Save \/ Resume PROVE KeepsUp'
  <2>1. lvl \in Int /\ store.done \in Int
    BY LevelBounds DEF Typed, TypeOK
  <2> QED
    BY <1>4, <2>1 DEF Save, Snapshot, Resume, ResumeLevel
<1>5. ASSUME MakeResult PROVE KeepsUp'
  BY <1>5 DEF MakeResult
<1>6. CASE UNCHANGED vars
  BY <1>6 DEF vars
<1> HIDE DEF KeepsUp, Running, Built
<1> QED
  BY DagCases, <1>1, <1>2, <1>3, <1>4, <1>5, <1>6, Zenon

LEMMA KeepsUpAlways == Spec => []KeepsUp
<1>1. Init => KeepsUp
  BY DEF Init, KeepsUp, Running, Built
<1> QED
  BY <1>1, KeepsUpStep, TypedAlways, PTL DEF Spec

(* A resume starts from whole levels (_checkpoint_after_level): the        *)
(* snapshot's log and context belong together, and a crash inside a level  *)
(* loses that level only.                                                  *)
THEOREM DagSnapshotSound == Spec => []SnapshotSound
<1>1. LogInv /\ ContextInv /\ KeepsUp => SnapshotSound
  <2> SUFFICES ASSUME LogInv, ContextInv, KeepsUp PROVE SnapshotSound
    OBVIOUS
  <2>1. SnapshotConsistent
    BY DEF LogInv, ContextInv, SnapshotConsistent
  <2>2. SnapshotKeepsUp
    BY DEF KeepsUp, SnapshotKeepsUp
  <2> QED
    BY <2>1, <2>2 DEF SnapshotSound
<1> QED
  BY <1>1, LogAlways, ContextAlways, KeepsUpAlways, PTL

(* A checkpointed step is never dispatched again, and a step is dispatched *)
(* only after every step it depends on has a successful record, although   *)
(* levels are replayed and branches skipped.                               *)
THEOREM DagDispatchesInTurn == Spec => DispatchedInTurn
<1>1. Typed /\ LogInv /\ KeepsUp /\ [Next]_vars =>
        [\A n \in Node : runs'[n] # runs[n] =>
           /\ n >= First[store.done + 1]
           /\ \A d \in Deps[n] :
                d <= Len(log) /\ log[d].step = d /\ log[d].res \in Succeeded]_vars
  <2> SUFFICES ASSUME Typed, LogInv, KeepsUp, [Next]_vars, NEW n \in Node, runs'[n] # runs[n]
               PROVE  /\ n >= First[store.done + 1]
                      /\ \A d \in Deps[n] :
                           d <= Len(log) /\ log[d].step = d /\ log[d].res \in Succeeded
    OBVIOUS
  <2>1. ~ \/ Cancel \/ Complete \/ BeginLevel \/ SkipStep \/ Aborts \/ MergeLevel \/ Save
          \/ Invalid \/ MakeResult \/ FireFlowEnd \/ RequestCancel \/ Raises \/ Resume
          \/ RefuseResume \/ UNCHANGED vars
          \/ \E r \in Ran, t \in 0 .. N : StepSucceeds(r, t)
          \/ \E g \in SUBSET Key : Start(g)
    BY DEF Cancel, Complete, BeginLevel, SkipStep, Aborts, Abort, MergeLevel, Save, Invalid,
           MakeResult, FireFlowEnd, RequestCancel, Raises, Raise, Resume, RefuseResume,
           StepSucceeds, Start, vars
  <2>2. Dispatch
    BY DagCases, <2>1, Zenon
  <2>3. /\ pc = "step" /\ at < First[lvl + 1] /\ runs' = [runs EXCEPT ![at] = runs[at] + 1]
        /\ runs \in [Node -> Nat]
    BY <2>2 DEF Dispatch, Selected, InLevel, Typed, TypeOK
  <2>4. n = at
    BY <2>3
  <2>5. lvl \in Level /\ at \in First[lvl] .. First[lvl + 1]
    BY <2>3 DEF Typed, Placed
  <2>6. /\ First[lvl] \in Nat /\ First[lvl + 1] \in Nat /\ lvl \in Int
        /\ at \in First[lvl] .. First[lvl + 1] - 1
    <3>1. First[lvl] \in Nat /\ First[lvl + 1] \in Nat /\ lvl \in Int
      BY <2>5, LevelBounds DEF Level
    <3> QED
      BY <2>3, <2>5, <3>1
  <2>7. store.done + 1 = lvl
    <3>1. store.done = lvl - 1
      BY <2>3 DEF KeepsUp, Running
    <3> QED
      BY <2>6, <3>1
  <2>8. Completed(log, First[lvl] - 1)
    BY <2>3 DEF LogInv, LogFollowsOrder, Before
  <2>9. Deps[at] \subseteq 1 .. First[lvl] - 1
    BY <2>5, <2>6, GraphAssumption
  <2> QED
    BY <2>4, <2>6, <2>7, <2>8, <2>9 DEF Completed
<1> QED
  BY <1>1, TypedAlways, LogAlways, KeepsUpAlways, PTL DEF Spec, DispatchedInTurn

-----------------------------------------------------------------------------
(* Siblings.                                                               *)

(* No two steps of a level wrote the same key.                             *)
Disjoint(l) ==
  \A m \in Level : \A i, j \in First[m] .. First[m + 1] - 1 : \A k \in Key :
    i < j /\ j <= Len(l) => ~(Wrote(l, i, k) /\ Wrote(l, j, k))

DisjointInv ==
  /\ SiblingsDisjoint
  /\ store.done > 0 => Disjoint(store.log)

LEMMA DisjointStep == Typed /\ LogInv /\ ContextInv /\ DisjointInv /\ [Next]_vars => DisjointInv'
<1> SUFFICES ASSUME Typed, LogInv, ContextInv, DisjointInv, [Next]_vars PROVE DisjointInv'
  OBVIOUS
<1>0. SiblingsDisjoint <=> (Running \/ (Built /\ exit = "success") => Disjoint(log))
  BY DEF SiblingsDisjoint, Disjoint
<1>0p. SiblingsDisjoint' <=> ((Running \/ (Built /\ exit = "success"))' => Disjoint(log'))
  BY DEF SiblingsDisjoint, Disjoint
<1>1. ASSUME NEW g \in SUBSET Key, Start(g) PROVE DisjointInv'
  <2>1. /\ (pc' = "boundary" /\ log' = <<>>) \/ (pc' = "result" /\ exit' = "failure")
        /\ store.done = 0 /\ UNCHANGED store
    BY <1>1 DEF Start, Typed, Placed, NoSnapshot, LogInv
  <2>2. Disjoint(<<>>)
    BY LevelBounds DEF Disjoint
  <2> QED
    BY <1>0p, <2>1, <2>2 DEF DisjointInv, Running, Built
<1>2. ASSUME \/ Cancel \/ Complete \/ BeginLevel \/ SkipStep \/ Dispatch
             \/ FireFlowEnd \/ RequestCancel
             \/ \E r \in Ran, t \in 0 .. N : StepSucceeds(r, t)
      PROVE  DisjointInv'
  <2>1. /\ UNCHANGED <<log, store>>
        /\ (Running \/ (Built /\ exit = "success"))' => Running \/ (Built /\ exit = "success")
    BY <1>2 DEF Cancel, Complete, BeginLevel, SkipStep, Dispatch, Selected, FireFlowEnd,
                RequestCancel, StepSucceeds, Running, Built
  <2> QED
    BY <1>0, <1>0p, <2>1 DEF DisjointInv
<1>3. ASSUME Raises \/ RefuseResume \/ Aborts \/ Invalid PROVE DisjointInv'
  <2>1. UNCHANGED store /\ ~(Running \/ (Built /\ exit = "success"))'
    BY <1>3 DEF Raises, Raise, RefuseResume, Aborts, Abort, Invalid, Running, Built
  <2> QED
    BY <1>0p, <2>1 DEF DisjointInv
<1>4. ASSUME MergeLevel PROVE DisjointInv'
  <2>1. /\ pc = "step" /\ ~(at < First[lvl + 1]) /\ pc' = "save" /\ log' = log \o recs
        /\ UNCHANGED store
    BY <1>4 DEF MergeLevel, LevelDone, InLevel
  <2>2. /\ lvl \in Level /\ at = First[lvl + 1] /\ First[lvl] \in Nat /\ First[lvl + 1] \in Nat
        /\ First[lvl] < First[lvl + 1]
    <3>1. lvl \in Level /\ at \in First[lvl] .. First[lvl + 1]
      BY <2>1 DEF Typed, Placed
    <3> QED
      BY <2>1, <3>1, LevelBounds
  <2>3. Completed(log', at - 1) /\ Completed(log, First[lvl] - 1) /\ Disjoint(log)
    BY <1>0, <2>1
       DEF LogInv, LogFollowsOrder, Gathered, InLevelLoop, Before, DisjointInv, Running
  <2>4. Len(log') = at - 1 /\ Len(log) = First[lvl] - 1
    BY <2>3 DEF Completed
  <2>5. \A i \in 1 .. Len(log) : log'[i] = log[i]
    BY <2>1, Joined DEF Typed, TypeOK
  <2>6. Writers(outs, log', First[lvl], at - 1)
    BY <2>1 DEF ContextInv, Outputs, InLevelLoop
  <2>7. ASSUME NEW m \in Level, NEW i \in First[m] .. First[m + 1] - 1,
               NEW j \in First[m] .. First[m + 1] - 1, NEW k \in Key,
               i < j, j <= Len(log'), Wrote(log', i, k), Wrote(log', j, k)
        PROVE  FALSE
    <3>1. /\ m \in Int /\ lvl \in Int /\ First[m] \in Nat /\ First[m] > 0 /\ First[m + 1] \in Nat
          /\ i \in Nat /\ j \in Nat
      <4>1. m \in Int /\ lvl \in Int
        BY <2>2 DEF Level
      <4>2. First[m] \in 1 .. N /\ First[m + 1] \in 1 .. N + 1 /\ N \in Nat
        BY LevelBounds
      <4> QED
        BY <4>1, <4>2
    <3>2. CASE m < lvl
      <4>1. First[m + 1] <= First[lvl]
        <5>1. m + 1 = lvl \/ (m + 1 < lvl /\ m + 1 \in 1 .. Depth + 1 /\ lvl \in 1 .. Depth + 1)
          <6>1. m + 1 \in 1 .. Depth + 1 /\ lvl \in 1 .. Depth + 1
            BY <2>2, LevelBounds
          <6> QED
            BY <3>1, <3>2, <6>1
        <5>2. m + 1 = lvl \/ First[m + 1] < First[lvl]
          BY <5>1, GraphAssumption
        <5>3. First[m + 1] \in Int /\ First[lvl] \in Int
          BY <2>2, <3>1
        <5>4. CASE m + 1 = lvl
          BY <5>3, <5>4
        <5> QED
          BY <5>2, <5>3, <5>4
      <4>2. i \in 1 .. Len(log) /\ j \in 1 .. Len(log)
        <5>1. First[m] <= i /\ i < First[m + 1] /\ First[m] <= j /\ j < First[m + 1]
          BY <3>1
        <5>2. First[m + 1] <= Len(log) + 1
          BY <2>2, <2>4, <4>1
        <5>3. Len(log) \in Int /\ First[m] \in Int /\ First[m + 1] \in Int
          BY <2>2, <2>4, <3>1
        <5> QED
          BY <3>1, <5>1, <5>2, <5>3
      <4>3. Wrote(log, i, k) /\ Wrote(log, j, k)
        BY <2>5, <2>7, <4>2, WroteSame
      <4> QED
        BY <2>3, <2>7, <4>2, <4>3 DEF Disjoint
    <3>3. CASE m = lvl
      <4>1. i \in First[lvl] .. at - 1 /\ j \in First[lvl] .. at - 1
        BY <2>2, <3>3
      <4> QED
        BY <2>6, <2>7, <3>1, <4>1 DEF Writers
    <3>4. CASE m > lvl
      <4>1. First[lvl + 1] <= First[m]
        <5>1. lvl + 1 = m \/ (lvl + 1 < m /\ lvl + 1 \in 1 .. Depth + 1 /\ m \in 1 .. Depth + 1)
          <6>1. lvl + 1 \in 1 .. Depth + 1 /\ m \in 1 .. Depth + 1
            BY <2>2, LevelBounds
          <6> QED
            BY <3>1, <3>4, <6>1
        <5>2. lvl + 1 = m \/ First[lvl + 1] < First[m]
          BY <5>1, GraphAssumption
        <5> QED
          BY <2>2, <3>1, <5>2
      <4> QED
        BY <2>2, <2>4, <2>7, <3>1, <4>1
    <3> QED
      BY <3>1, <3>2, <3>3, <3>4
  <2>8. Disjoint(log')
    BY <2>7 DEF Disjoint
  <2> QED
    BY <1>0p, <2>1, <2>8 DEF DisjointInv
<1>5. ASSUME Save PROVE DisjointInv'
  <2>1. pc = "save" /\ store'.log = log /\ UNCHANGED log
    BY <1>5 DEF Save, Snapshot
  <2> QED
    BY <1>0, <1>0p, <2>1 DEF DisjointInv, Running
<1>6. ASSUME MakeResult PROVE DisjointInv'
  <2>1. /\ UNCHANGED <<log, exit>> /\ pc = "result" /\ pc' = "flowend"
        /\ store' \in {store, NoSnapshot}
    BY <1>6 DEF MakeResult
  <2> QED
    BY <1>0, <1>0p, <2>1 DEF DisjointInv, NoSnapshot, Running, Built
<1>7. ASSUME Resume PROVE DisjointInv'
  BY <1>0p, <1>7 DEF Resume, DisjointInv
<1>8. CASE UNCHANGED vars
  <2>1. UNCHANGED <<log, store, pc, exit>>
    BY <1>8 DEF vars
  <2> QED
    BY <1>0, <1>0p, <2>1 DEF DisjointInv, Running, Built
<1> QED
  BY DagCases, <1>1, <1>2, <1>3, <1>4, <1>5, <1>6, <1>7, <1>8, Zenon

(* Two steps of a level never both contribute a key to a context the run   *)
(* goes on with (the sibling-conflict check of _execute_dag_flow), so that *)
(* the order of siblings does not show in the result.                      *)
THEOREM DagSiblingsDisjoint == Spec => []SiblingsDisjoint
<1>1. Init => DisjointInv
  <2> SUFFICES ASSUME Init PROVE DisjointInv
    OBVIOUS
  <2>1. pc = "idle" /\ exit = "none" /\ store.done = 0
    BY DEF Init, NoSnapshot
  <2> QED
    BY <2>1 DEF DisjointInv, SiblingsDisjoint, Running, Built
<1>2. DisjointInv => SiblingsDisjoint
  BY Zenon DEF DisjointInv
<1> QED
  BY <1>1, <1>2, DisjointStep, TypedAlways, LogAlways, ContextAlways, PTL DEF Spec

-----------------------------------------------------------------------------
(* Routing.                                                                *)

(* The records there are of the run so far.                                *)
Answered == IF InLevelLoop THEN log \o recs ELSE log

(* skipped_ids says of the steps with a record which ones are deselected,  *)
(* and nothing can rule out another one of them any more.                  *)
Propagated(f) ==
  \A n \in Node : n <= Len(f) =>
    /\ (f[n].res = "deselected") <=> (n \in skipped)
    /\ NoLivePath(n) => n \in skipped

Routed ==
  /\ skipped \subseteq RuledOut
  /\ \A n \in Node : RoutedElsewhere(n) => n \in skipped
  /\ Propagated(Answered)
  /\ Running => \A n \in Node : n > Len(Answered) => chosen[n] = NoTarget
  /\ pc = "tool" => at \notin skipped /\ ~NoLivePath(at)

RouteInv ==
  /\ mode = "execute" => Routed
  /\ mode = "none" => skipped = {} /\ chosen = [n \in Node |-> NoTarget]

(* A step depends on earlier steps.                                        *)
LEMMA DepsBefore == \A n \in Node : \A d \in Deps[n] : d \in Node /\ d < n
<1> SUFFICES ASSUME NEW n \in Node PROVE \A d \in Deps[n] : d \in Node /\ d < n
  OBVIOUS
<1>1. PICK l \in Level : n \in First[l] .. First[l + 1] - 1
  BY LevelOf
<1>2. Deps[n] \subseteq 1 .. First[l] - 1 /\ First[l] \in 1 .. N
  BY <1>1, GraphAssumption, LevelBounds
<1> QED
  BY <1>1, <1>2, LevelBounds DEF Node

(* Every set with the rules' property holds the steps that are ruled out.  *)
LEMMA RuledOutClosed ==
  /\ \A n \in Node : RoutedElsewhere(n) => n \in RuledOut
  /\ \A n \in Node : Deps[n] # {} /\ Deps[n] \subseteq RuledOut => n \in RuledOut
<1>1. ASSUME NEW n \in Node, RoutedElsewhere(n) PROVE n \in RuledOut
  BY <1>1 DEF RuledOut, RulesOut
<1>2. ASSUME NEW n \in Node, Deps[n] # {}, Deps[n] \subseteq RuledOut PROVE n \in RuledOut
  <2> SUFFICES ASSUME NEW R \in SUBSET Node, RulesOut(R) PROVE n \in R
    BY DEF RuledOut
  <2>1. Deps[n] \subseteq R
    BY <1>2 DEF RuledOut
  <2> QED
    BY <1>2, <2>1 DEF RulesOut
<1> QED
  BY <1>1, <1>2

(* More routing rules out more.                                            *)
LEMMA RuledOutGrows ==
  ASSUME \A n \in Node : RoutedElsewhere(n) => RoutedElsewhere(n)'
  PROVE  RuledOut \subseteq RuledOut'
<1> SUFFICES ASSUME NEW m \in RuledOut, NEW R \in SUBSET Node, RulesOut(R)' PROVE m \in R
  BY DEF RuledOut
<1>1. RulesOut(R)
  BY DEF RulesOut
<1> QED
  BY <1>1 DEF RuledOut

(* In a run that routes this way, the skipped steps are the ruled out ones *)
(* as far as the records go.                                               *)
LEMMA RoutedMeans ==
  ASSUME Routed, NEW i \in Node, i <= Len(Answered), Len(Answered) \in Nat
  PROVE  Answered[i].res = "deselected" <=> i \in RuledOut
<1> DEFINE f == Answered
           R == skipped \cup {n \in Node : n > Len(f)}
<1>1. (f[i].res = "deselected") <=> (i \in skipped)
  BY DEF Routed, Propagated
<1>2. i \in skipped => i \in RuledOut
  BY DEF Routed
<1>3. ASSUME i \in RuledOut PROVE i \in skipped
  <2>1. R \subseteq Node
    BY DEF Routed, RuledOut
  <2>2. ASSUME NEW m \in Node, m <= Len(f), Deps[m] # {}, Deps[m] \subseteq R PROVE m \in R
    <3>1. Deps[m] \subseteq skipped
      BY <2>2, DepsBefore DEF Node
    <3> QED
      BY <2>2, <3>1 DEF Routed, Propagated, NoLivePath
  <2>3. \A m \in Node : m > Len(f) => m \in R
    OBVIOUS
  <2>4. \A m \in Node : m <= Len(f) \/ m > Len(f)
    BY DEF Node
  <2>5. RulesOut(R)
    BY <2>2, <2>3, <2>4 DEF RulesOut, Routed
  <2>6. i \in R
    BY <1>3, <2>1, <2>5 DEF RuledOut
  <2> QED
    BY <2>6 DEF Node
<1> QED
  BY <1>1, <1>2, <1>3

(* How many records there are.                                             *)
LEMMA AnsweredType ==
  ASSUME Typed, LogInv
  PROVE  /\ Answered \in Seq(Record) /\ Len(Answered) \in Nat
         /\ InLevelLoop => Len(Answered) = at - 1
         /\ pc = "boundary" => Len(Answered) = Before(lvl)
         /\ pc = "save" => Len(Answered) = Before(lvl + 1)
<1>1. log \in Seq(Record) /\ recs \in Seq(Record) /\ log \o recs \in Seq(Record)
  BY Joined DEF Typed, TypeOK
<1>2. Answered \in Seq(Record)
  BY <1>1 DEF Answered
<1>3. InLevelLoop => Completed(log \o recs, at - 1)
  BY DEF LogInv, Gathered
<1>4. pc = "boundary" => Completed(log, Before(lvl))
  BY DEF LogInv, LogFollowsOrder
<1>5. pc = "save" => Completed(log, Before(lvl + 1))
  BY DEF LogInv
<1> QED
  BY <1>2, <1>3, <1>4, <1>5 DEF Answered, InLevelLoop, Completed

(* What a step leaves alone keeps the routing right.                       *)
LEMMA RoutedKept ==
  ASSUME Routed, UNCHANGED <<skipped, chosen>>, Answered' = Answered,
         Running' => Running,
         pc' = "tool" => at \notin skipped /\ ~NoLivePath(at) /\ at' = at
  PROVE  Routed'
<1>1. RuledOut' = RuledOut /\ \A n \in Node : RoutedElsewhere(n)' <=> RoutedElsewhere(n)
  BY DEF RuledOut, RulesOut, RoutedElsewhere
<1>2. \A n \in Node : NoLivePath(n)' <=> NoLivePath(n)
  BY DEF NoLivePath
<1>3. Propagated(Answered)'
  BY <1>2 DEF Routed, Propagated
<1> QED
  BY <1>1, <1>2, <1>3 DEF Routed, NoLivePath

(* A call that ends without a record has none left, or the records it had. *)
LEMMA RoutedEnds ==
  ASSUME Routed, UNCHANGED <<skipped, chosen>>, ~Running', Answered' = <<>>
  PROVE  Routed'
<1>1. RuledOut' = RuledOut /\ \A n \in Node : RoutedElsewhere(n)' <=> RoutedElsewhere(n)
  BY DEF RuledOut, RulesOut, RoutedElsewhere
<1>2. Propagated(Answered)'
  BY DEF Propagated, Node
<1> QED
  BY <1>1, <1>2 DEF Routed, Running

(* A record of a failure, or of a validation, rules nothing out.           *)
LEMMA RoutedFails ==
  ASSUME Routed, UNCHANGED <<skipped, chosen>>, ~Running',
         Answered \in Seq(Record), NEW x \in Record, Answered' = Append(Answered, x),
         x.res # "deselected",
         LET n == Len(Answered) + 1 IN n \in Node => n \notin skipped /\ ~NoLivePath(n)
  PROVE  Routed'
<1> DEFINE f == Answered
           g == Append(f, x)
<1>1. RuledOut' = RuledOut /\ \A n \in Node : RoutedElsewhere(n)' <=> RoutedElsewhere(n)
  BY DEF RuledOut, RulesOut, RoutedElsewhere
<1>2. /\ Len(f) \in Nat /\ Len(g) = Len(f) + 1 /\ g[Len(f) + 1] = x
      /\ \A i \in 1 .. Len(f) : g[i] = f[i]
  BY AppendType
<1>3. \A n \in Node : NoLivePath(n)' <=> NoLivePath(n)
  BY DEF NoLivePath
<1>4. Propagated(f)
  BY DEF Routed
<1> HIDE DEF f, g
<1>5. ASSUME NEW n \in Node, n <= Len(g)
      PROVE  /\ (g[n].res = "deselected") <=> (n \in skipped)
             /\ NoLivePath(n) => n \in skipped
  <2>1. n \in Nat /\ n >= 1
    BY DEF Node
  <2>2. CASE n <= Len(f)
    BY <2>1, <2>2, <1>2, <1>4 DEF Propagated
  <2>3. CASE n = Len(f) + 1
    BY <2>3, <1>2 DEF f
  <2> QED
    BY <1>2, <1>5, <2>1, <2>2, <2>3
<1>6. Propagated(Answered)'
  BY <1>3, <1>5 DEF Propagated, f, g
<1> QED
  BY <1>1, <1>6 DEF Routed, Running

(* A step is skipped: its predecessors are ruled out, or it is itself.     *)
LEMMA RoutedSkips ==
  ASSUME Typed, LogInv, Routed, SkipStep
  PROVE  Routed'
<1>1. /\ at \in Node /\ pc = "step" /\ pc' = "step" /\ at' = at + 1 /\ at \in Nat
      /\ skipped' = skipped \cup {at} /\ UNCHANGED <<chosen, log>>
      /\ at \in skipped \/ NoLivePath(at)
      /\ recs' = Append(recs, Rec(at, "deselected"))
  <2>1. pc = "step" /\ at < First[lvl + 1]
    BY DEF SkipStep, InLevel
  <2>2. lvl \in Level /\ at \in First[lvl] .. First[lvl + 1] - 1
    BY <2>1, LevelBounds DEF Typed, Placed
  <2>3. at \in Node
    BY <2>2, LevelBounds
  <2> QED
    BY <2>1, <2>3 DEF SkipStep, Node
<1> DEFINE f == Answered
           g == Append(f, Rec(at, "deselected"))
<1>2. Rec(at, "deselected") \in Record /\ Rec(at, "deselected").res = "deselected"
  BY <1>1, ValueTypes DEF Rec, Outcome, Succeeded
<1>3. Answered' = g
  <2>1. log \in Seq(Record) /\ recs \in Seq(Record)
    BY DEF Typed, TypeOK
  <2> QED
    BY <1>1, <1>2, <2>1, JoinedAppend DEF Answered, InLevelLoop
<1>4. f \in Seq(Record) /\ Len(f) = at - 1
  BY <1>1, AnsweredType DEF InLevelLoop
<1>5. /\ Len(g) = at /\ g[at].res = "deselected"
      /\ \A i \in 1 .. at - 1 : g[i] = f[i]
  BY <1>1, <1>2, <1>4, AppendType
<1>6. RuledOut' = RuledOut /\ \A n \in Node : RoutedElsewhere(n)' <=> RoutedElsewhere(n)
  BY <1>1 DEF RuledOut, RulesOut, RoutedElsewhere
<1>7. skipped' \subseteq RuledOut
  <2>1. at \in RuledOut
    BY <1>1, RuledOutClosed DEF Routed, NoLivePath
  <2> QED
    BY <1>1, <2>1 DEF Routed
<1>8. \A n \in Node : n < at =>
         (n \in skipped' <=> n \in skipped) /\ (NoLivePath(n)' <=> NoLivePath(n))
  <2>1. \A n \in Node : n < at => at \notin Deps[n] /\ n # at
    BY <1>1, DepsBefore DEF Node
  <2> QED
    BY <1>1, <2>1 DEF NoLivePath
<1> HIDE DEF f, g
<1>9. Propagated(f)
  BY DEF Routed, f
<1>10. ASSUME NEW n \in Node, n <= Len(g)
       PROVE  /\ (g[n].res = "deselected") <=> (n \in skipped')
              /\ NoLivePath(n)' => n \in skipped'
  <2>1. n \in Nat /\ n >= 1
    BY DEF Node
  <2>2. CASE n < at
    <3>1. n <= Len(f) /\ g[n] = f[n]
      BY <2>1, <2>2, <1>1, <1>4, <1>5
    <3> QED
      BY <2>2, <3>1, <1>8, <1>9 DEF Propagated
  <2>3. CASE n = at
    BY <2>3, <1>1, <1>5
  <2> QED
    BY <1>1, <1>5, <1>10, <2>1, <2>2, <2>3
<1>11. Propagated(Answered)'
  BY <1>3, <1>10 DEF Propagated
<1>12. \A n \in Node : n > Len(Answered') => chosen'[n] = NoTarget
  BY <1>1, <1>3, <1>4, <1>5 DEF Routed, Running, Node, f
<1> QED
  BY <1>1, <1>6, <1>7, <1>11, <1>12 DEF Routed

(* A step succeeds: the dependents it does not choose are ruled out.       *)
LEMMA RoutedSucceeds ==
  ASSUME Typed, LogInv, Routed, NEW r \in Ran, NEW t \in 0 .. N, StepSucceeds(r, t)
  PROVE  Routed'
<1>1. /\ at \in Node /\ at \in Nat /\ pc = "tool" /\ pc' = "step" /\ at' = at + 1
      /\ skipped' = skipped \cup Deselected(at, t) /\ UNCHANGED log
      /\ at \notin skipped /\ ~NoLivePath(at)
      /\ recs' = Append(recs, Rec(at, r)) /\ chosen' = [chosen EXCEPT ![at] = t]
      /\ chosen \in [Node -> 0 .. N]
  <2>1. pc = "tool"
    BY DEF StepSucceeds
  <2>2. lvl \in Level /\ at \in First[lvl] .. First[lvl + 1] - 1
    BY <2>1 DEF Typed, Placed
  <2>3. at \in Node
    BY <2>2, LevelBounds
  <2>4. at \notin skipped /\ ~NoLivePath(at)
    BY <2>1 DEF Routed
  <2> QED
    BY <2>1, <2>3, <2>4 DEF StepSucceeds, Node, Typed, TypeOK
<1> DEFINE f == Answered
           g == Append(f, Rec(at, r))
<1>2. Rec(at, r) \in Record /\ Rec(at, r).res # "deselected"
  BY <1>1, ValueTypes DEF Rec, Outcome, Succeeded, Ran
<1>3. Answered' = g
  <2>1. log \in Seq(Record) /\ recs \in Seq(Record)
    BY DEF Typed, TypeOK
  <2> QED
    BY <1>1, <1>2, <2>1, JoinedAppend DEF Answered, InLevelLoop
<1>4. f \in Seq(Record) /\ Len(f) = at - 1
  BY <1>1, AnsweredType DEF InLevelLoop
<1>5. /\ Len(g) = at /\ g[at].res # "deselected"
      /\ \A i \in 1 .. at - 1 : g[i] = f[i]
  BY <1>1, <1>2, <1>4, AppendType
<1>6. chosen[at] = NoTarget /\ chosen'[at] = t /\ \A n \in Node \ {at} : chosen'[n] = chosen[n]
  <2>1. chosen[at] = NoTarget
    BY <1>1, <1>4 DEF Routed, Running
  <2> QED
    BY <1>1, <2>1
<1>7. \A n \in Node : RoutedElsewhere(n) => RoutedElsewhere(n)'
  BY <1>6, DepsBefore DEF RoutedElsewhere
<1>8. \A n \in Deselected(at, t) : n \in Node /\ at \in Deps[n] /\ n # t /\ t # NoTarget
  BY DEF Deselected, Dependents
<1>9. \A n \in Deselected(at, t) : n \in Node /\ n > at /\ RoutedElsewhere(n)'
  <2>1. \A n \in Deselected(at, t) : RoutedElsewhere(n)'
    BY <1>6, <1>8 DEF RoutedElsewhere
  <2> QED
    BY <1>1, <1>8, <2>1, DepsBefore DEF Node
<1>10. skipped' \subseteq RuledOut'
  <2>1. RuledOut \subseteq RuledOut'
    BY <1>7, RuledOutGrows
  <2>2. \A n \in Node : RoutedElsewhere(n)' => n \in RuledOut'
    BY DEF RuledOut, RulesOut
  <2> QED
    BY <1>1, <1>9, <2>1, <2>2 DEF Routed
<1>11. ASSUME NEW n \in Node, RoutedElsewhere(n)' PROVE n \in skipped'
  <2>1. PICK d \in Deps[n] : chosen'[d] \notin {NoTarget, n}
    BY <1>11 DEF RoutedElsewhere
  <2>2. CASE d = at
    BY <1>1, <1>6, <2>1, <2>2 DEF Deselected, Dependents
  <2>3. CASE d # at
    BY <1>1, <1>6, <2>1, <2>3, DepsBefore DEF RoutedElsewhere, Routed
  <2> QED
    BY <2>2, <2>3
<1>12. \A n \in Node : n <= at =>
         (n \in skipped' <=> n \in skipped) /\ (NoLivePath(n)' <=> NoLivePath(n))
  <2>1. \A n \in Node : n <= at => n \notin Deselected(at, t)
    BY <1>1, <1>9 DEF Node
  <2>2. \A n \in Node : n <= at => \A d \in Deps[n] : d \notin Deselected(at, t)
    BY <1>1, <1>9, DepsBefore DEF Node
  <2> QED
    BY <1>1, <2>1, <2>2 DEF NoLivePath
<1> HIDE DEF f, g
<1>13. Propagated(f)
  BY DEF Routed, f
<1>14. ASSUME NEW n \in Node, n <= Len(g)
       PROVE  /\ (g[n].res = "deselected") <=> (n \in skipped')
              /\ NoLivePath(n)' => n \in skipped'
  <2>1. n \in Nat /\ n >= 1
    BY DEF Node
  <2>2. CASE n < at
    <3>1. n <= Len(f) /\ g[n] = f[n]
      BY <2>1, <2>2, <1>1, <1>4, <1>5
    <3> QED
      BY <2>2, <3>1, <1>1, <1>12, <1>13, <2>1 DEF Propagated
  <2>3. CASE n = at
    BY <2>3, <1>1, <1>5, <1>12
  <2> QED
    BY <1>1, <1>5, <1>14, <2>1, <2>2, <2>3
<1>15. Propagated(Answered)'
  BY <1>3, <1>14 DEF Propagated
<1>16. \A n \in Node : n > Len(Answered') => chosen'[n] = NoTarget
  BY <1>1, <1>3, <1>4, <1>5, <1>6 DEF Routed, Running, Node, f
<1> QED
  BY <1>1, <1>10, <1>11, <1>15, <1>16 DEF Routed

(* The initial state, and every step.                                      *)
LEMMA RouteInit == Init => RouteInv
BY DEF Init, RouteInv

LEMMA RouteStep == Typed /\ LogInv /\ RouteInv /\ [Next]_vars => RouteInv'
<1> SUFFICES ASSUME Typed, LogInv, RouteInv, [Next]_vars PROVE RouteInv'
  OBVIOUS
<1>t. /\ log \in Seq(Record) /\ recs \in Seq(Record) /\ Answered \in Seq(Record)
      /\ Len(Answered) \in Nat
  BY AnsweredType DEF Typed, TypeOK
<1>n. mode = "none" => pc = "idle"
  BY DEF Typed, Placed
<1>1. ASSUME NEW g \in SUBSET Key, Start(g) PROVE RouteInv'
  <2>1. /\ skipped' = {} /\ chosen' = [n \in Node |-> NoTarget] /\ mode' = "execute"
        /\ pc' \in {"boundary", "result"} /\ log' \in {<<>>, <<Validation>>}
    BY <1>1 DEF Start, RouteInv, LogInv
  <2>2. \A n \in Node : ~RoutedElsewhere(n)'
    BY <2>1, DepsBefore DEF RoutedElsewhere
  <2>3. Answered' \in {<<>>, <<Validation>>}
    BY <2>1 DEF Answered, InLevelLoop
  <2>4. \A n \in Node : ~NoLivePath(n)'
    BY <2>1 DEF NoLivePath
  <2>5. \A n \in Node : n <= Len(Answered') => Answered'[n].res # "deselected"
    BY <2>3 DEF Node, Validation, Rec
  <2>6. Propagated(Answered)'
    BY <2>1, <2>4, <2>5 DEF Propagated
  <2>7. Routed'
    BY <2>1, <2>2, <2>6 DEF Routed
  <2> QED
    BY <2>1, <2>7 DEF RouteInv
<1>2. ASSUME Cancel \/ Complete \/ BeginLevel \/ Save \/ MakeResult \/ FireFlowEnd
             \/ RequestCancel \/ MergeLevel \/ Dispatch
      PROVE  RouteInv'
  <2>1. UNCHANGED <<skipped, chosen, mode>> /\ (Running' => Running)
        /\ (pc' = "tool" => at \notin skipped /\ ~NoLivePath(at) /\ at' = at)
    BY <1>2 DEF Cancel, Complete, BeginLevel, Save, MakeResult, FireFlowEnd, RequestCancel,
       MergeLevel, LevelDone, Dispatch, Selected, Running, RouteInv, Routed
  <2>2. Answered' = Answered
    <3>1. log \o <<>> = log
      BY <1>t
    <3> QED
      BY <1>2, <3>1 DEF Cancel, Complete, BeginLevel, Save, MakeResult, FireFlowEnd,
         RequestCancel, MergeLevel, LevelDone, Dispatch, Selected, Answered, InLevelLoop
  <2>3. mode = "execute" => Routed'
    BY <2>1, <2>2, RoutedKept DEF RouteInv
  <2>4. mode # "none"
    BY <1>2, <1>n DEF Cancel, Complete, BeginLevel, Save, MakeResult, FireFlowEnd,
       RequestCancel, MergeLevel, LevelDone, Dispatch, Selected
  <2> QED
    BY <2>1, <2>3, <2>4 DEF RouteInv
<1>3. ASSUME SkipStep PROVE RouteInv'
  <2>1. mode' = mode /\ mode # "none"
    BY <1>3, <1>n DEF SkipStep
  <2> QED
    BY <1>3, <2>1, RoutedSkips DEF RouteInv
<1>4. ASSUME NEW r \in Ran, NEW t \in 0 .. N, StepSucceeds(r, t) PROVE RouteInv'
  <2>1. mode' = mode /\ mode # "none"
    BY <1>4, <1>n DEF StepSucceeds
  <2> QED
    BY <1>4, <2>1, RoutedSucceeds DEF RouteInv
<1>5. ASSUME Aborts PROVE RouteInv'
  <2>1. /\ mode' = mode /\ mode # "none" /\ ~Running' /\ UNCHANGED <<skipped, chosen>>
        /\ InLevelLoop /\ pc' = "result" /\ log' = log \o Append(recs, Rec(at, "failed"))
        /\ pc = "step" => at \notin skipped /\ ~NoLivePath(at)
    BY <1>5, <1>n DEF Aborts, Abort, Running, InLevelLoop, Selected
  <2>2. at \in Node
    BY <1>5, <2>1, LevelBounds, SMTT(60) DEF Aborts, Typed, TypeOK, Placed, InLevelLoop, Node
  <2>3. Rec(at, "failed") \in Record /\ Rec(at, "failed").res # "deselected"
    BY <2>2, ValueTypes DEF Rec, Outcome
  <2>4. Answered' = Append(Answered, Rec(at, "failed"))
    BY <1>t, <2>1, <2>3, JoinedAppend DEF Answered, InLevelLoop
  <2>5. Len(Answered) + 1 = at
    BY <2>1, <2>2, AnsweredType DEF Node
  <2>6. mode = "execute" => at \notin skipped /\ ~NoLivePath(at)
    BY <2>1 DEF RouteInv, Routed, InLevelLoop
  <2>7. mode = "execute" => Routed'
    BY <1>t, <2>1, <2>3, <2>4, <2>5, <2>6, RoutedFails DEF RouteInv
  <2> QED
    BY <2>1, <2>7 DEF RouteInv
<1>6. ASSUME Invalid PROVE RouteInv'
  <2>1. /\ mode' = mode /\ mode # "none" /\ ~Running' /\ UNCHANGED <<skipped, chosen>>
        /\ pc = "boundary" /\ pc' = "result" /\ log' = Append(log, Validation) /\ lvl = Depth + 1
    BY <1>6, <1>n DEF Invalid, Running
  <2>2. Validation \in Record /\ Validation.res # "deselected"
    BY ValueTypes DEF Validation, Rec
  <2>3. Answered' = Append(Answered, Validation)
    BY <2>1 DEF Answered, InLevelLoop
  <2>4. Len(Answered) + 1 \notin Node
    BY <2>1, AnsweredType, Ends, LevelBounds DEF Node
  <2>5. mode = "execute" => Routed'
    BY <1>t, <2>1, <2>2, <2>3, <2>4, RoutedFails DEF RouteInv
  <2> QED
    BY <2>1, <2>5 DEF RouteInv
<1>7. ASSUME Raises \/ RefuseResume PROVE RouteInv'
  <2>1. /\ mode' = mode /\ mode # "none" /\ pc' = "idle" /\ log' = <<>>
        /\ UNCHANGED <<skipped, chosen>>
    BY <1>7, <1>n DEF Raises, Raise, RefuseResume
  <2>2. ~Running' /\ Answered' = <<>>
    BY <2>1 DEF Running, Answered, InLevelLoop
  <2>3. mode = "execute" => Routed'
    BY <2>1, <2>2, RoutedEnds DEF RouteInv
  <2> QED
    BY <2>1, <2>3 DEF RouteInv
<1>8. ASSUME Resume PROVE RouteInv'
  BY <1>8 DEF Resume, RouteInv
<1>9. CASE UNCHANGED vars
  <2>1. Answered' = Answered /\ (Running' <=> Running)
    BY <1>9 DEF vars, Answered, InLevelLoop, Running
  <2>2. mode = "execute" => Routed'
    BY <1>9, <2>1, RoutedKept DEF vars, RouteInv, Routed
  <2> QED
    BY <1>9, <2>2 DEF vars, RouteInv
<1> QED
  BY DagCases, <1>1, <1>2, <1>3, <1>4, <1>5, <1>6, <1>7, <1>8, <1>9, Zenon

LEMMA RouteAlways == Spec => []RouteInv
BY RouteInit, RouteStep, TypedAlways, LogAlways, PTL DEF Spec

(* In a run that is not resumed, the steps recorded as skipped are exactly *)
(* the ones that branch routing rules out, whatever the order of branching *)
(* siblings and of the steps of a level (skip propagation in               *)
(* _execute_dag_flow): a step with one live predecessor runs.              *)
THEOREM DagSkipsRuledOut == Spec => []SkippedIffRuledOut
<1>1. Typed /\ LogInv /\ RouteInv => SkippedIffRuledOut
  <2> SUFFICES ASSUME Typed, LogInv, RouteInv, mode = "execute",
                      NEW i \in 1 .. Len(log), log[i].step = i
               PROVE  log[i].res = "deselected" <=> i \in RuledOut
    BY DEF SkippedIffRuledOut
  <2>1. log \in Seq(Record) /\ recs \in Seq(Record) /\ Len(log) \in Nat
    BY DEF Typed, TypeOK
  <2>2. i \in Node
    <3>1. log[i] \in Record /\ i >= 1
      BY <2>1
    <3> QED
      BY <3>1, LevelBounds DEF Record, Node
  <2>3. i <= Len(Answered) /\ Answered[i] = log[i] /\ Len(Answered) \in Nat
    BY <2>1, Joined DEF Answered
  <2>4. Routed
    BY DEF RouteInv
  <2> QED
    BY <2>2, <2>3, <2>4, RoutedMeans
<1> QED
  BY <1>1, TypedAlways, LogAlways, RouteAlways, PTL
=============================================================================
