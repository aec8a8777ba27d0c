---------------------------- MODULE StepExecProofs ----------------------------
(***************************************************************************)
(* StepExec's invariants and its refinement of StepPromise, for every set  *)
(* of tools and steps, every policy and every executor configuration.      *)
(***************************************************************************)
EXTENDS StepExec, FiniteSetTheorems, TLAPS

-----------------------------------------------------------------------------
(* Where the step is, and what follows for the tool in hand and the        *)
(* attempts made so far.                                                   *)

BeforeInvoke == {"decide", "precheck", "gate", "guard", "dry", "lookup"}

Shape ==
  /\ pc # "idle" => S \in Sid /\ tool \in Tool
  /\ acting = IF fb THEN Fallback[S] ELSE tool
  /\ fb => pc \in {"gate", "dry", "invoke", "wait", "end", "idle"}
           /\ S \in Sid /\ OnError[S] = "fallback"
  /\ pc \notin {"end", "idle"} => rec = "none"
  /\ cached => ~fb /\ pc \in {"contract", "end", "idle"}

(* The attempts of the tool come first, the fallback's one after them.     *)
Counted ==
  /\ ~fb => Len(worker) = attempts
  /\ ~fb /\ pc \in BeforeInvoke => attempts = 0
  /\ ~fb /\ pc \in {"wait", "onerror"} => attempts > 0
  /\ ~fb /\ pc = "contract" /\ ~cached => attempts > 0
  /\ fb => Len(worker) \in {attempts, attempts + 1}
  /\ fb /\ pc \in {"gate", "dry", "invoke"} => Len(worker) = attempts
  /\ fb /\ pc = "wait" => Len(worker) = attempts + 1

(* A second attempt needs a policy and a tool that may be retried.         *)
Tries ==
  /\ pc = "invoke" /\ ~fb => attempts = 0 \/ (RetriesAllowed /\ AttemptsLeft)
  /\ ex.strict /\ tool \in UnsafeRetry => attempts <= 1

StepInv == TypeOK /\ Shape /\ Counted /\ Tries

-----------------------------------------------------------------------------
(* Types.                                                                  *)

(* What Append yields.                                                     *)
LEMMA AppendType ==
  ASSUME NEW T, NEW s \in Seq(T), NEW x \in T
  PROVE  /\ Append(s, x) \in Seq(T) /\ Len(Append(s, x)) = Len(s) + 1
         /\ \A i \in 1 .. Len(s) : Append(s, x)[i] = s[i]
         /\ Append(s, x)[Len(s) + 1] = x
OBVIOUS

(* Initially no step is in hand.                                           *)
LEMMA StepInit == Init => StepInv
<1> SUFFICES ASSUME Init PROVE StepInv
  OBVIOUS
<1>1. /\ [h \in 1 .. MaxHash |-> None] \in [1 .. MaxHash -> Value \cup {None}]
      /\ 1 \in 1 .. MaxHash /\ <<>> \in Seq(Worker) /\ <<>> \in Seq(Event)
      /\ Len(<<>>) = 0
  BY StepAssumption
<1>2. TypeOK
  BY <1>1 DEF Init, TypeOK, NoStep, Place, Outcome, S
<1>3. Shape /\ Counted /\ Tries
  BY <1>1 DEF Init, Shape, Counted, Tries, BeforeInvoke
<1> QED
  BY <1>2, <1>3 DEF StepInv

(* The steps of the pipeline, with its early returns taken together.       *)
Begins == \E s \in Sid, lane \in {"sync", "async"}, dry, abort, replay \in BOOLEAN :
            Begin(s, lane, dry, abort, replay)
Binds  == pc = "decide" /\ \E t \in Tool : Bind(t)
Fails  == Fail /\ pc \in Place \ {"idle", "end", "invoke", "lookup"}
Ends   == \E a \in 1 .. Len(worker), r \in WorkerState \ {"running"} : WorkerEnds(a, r)

LEMMA StepCases ==
  ASSUME StepInv, [Next]_vars
  PROVE  \/ Begins \/ Binds \/ Fails \/ StartStep \/ GatePasses \/ GuardPasses \/ RunForReal
         \/ Stub \/ CacheHit \/ CacheMiss \/ Invoke \/ SkipStep \/ FallBack \/ Succeed \/ EndStep
         \/ Chunk \/ Ends
         \/ \E v \in Value : Preview(v) \/ TakeResult(v)
         \/ \E retryable \in BOOLEAN : AttemptFails(retryable)
         \/ \E t \in Tool : RegisterTool(t)
         \/ UNCHANGED vars
<1>1. DecisionFails \/ FailBeforeStart \/ GateRefuses \/ GuardBlocks \/ PreviewFails
      \/ FallbackFails \/ GiveUp \/ FallbackMissing \/ BreaksContract => Fails
  BY DEF Fails, Place, DecisionFails, Deciding, FailBeforeStart, GateRefuses, GuardBlocks,
         PreviewFails, FallbackFails, GiveUp, FallbackMissing, BreaksContract
<1>2. NoDecision \/ DecisionTimesOut \/ (\E t \in Tool : Decide(t)) => Binds
  BY StepAssumption DEF Binds, NoDecision, DecisionTimesOut, Decide, Deciding, StepInv, Shape, S
<1>3. Advance => \/ Binds \/ Fails \/ StartStep \/ GatePasses \/ GuardPasses \/ RunForReal
                 \/ Stub \/ CacheHit \/ CacheMiss \/ Invoke \/ SkipStep \/ FallBack \/ Succeed
                 \/ EndStep
                 \/ \E v \in Value : Preview(v) \/ TakeResult(v)
                 \/ \E retryable \in BOOLEAN : AttemptFails(retryable)
  BY <1>1, <1>2, Zenon DEF Advance
<1> QED
  BY <1>3, Zenon DEF Next, Begins, Ends

(* Every step keeps the types.                                             *)
LEMMA TypeStep == StepInv /\ [Next]_vars => TypeOK'
<1> SUFFICES ASSUME StepInv, [Next]_vars PROVE TypeOK'
  OBVIOUS
<1>e. /\ \A e \in {"start", "chunk", "end"} : e \in Event
      /\ <<>> \in Seq(Event) /\ <<>> \in Seq(Worker)
  BY DEF Event
<1>a. /\ \A e \in Event : Append(events, e) \in Seq(Event)
      /\ \A w \in Worker : Append(worker, w) \in Seq(Worker)
  BY AppendType DEF StepInv, TypeOK
<1>m. \A s \in Sid : 1 <= MaxAttempts(s) /\ s # None
  BY ToolAssumption, StepAssumption DEF MaxAttempts
<1> USE ToolAssumption, StepAssumption DEF StepInv, TypeOK, Shape, S, stepVars
<1>1. ASSUME Begins PROVE TypeOK'
  <2> PICK s \in Sid, lane \in {"sync", "async"}, dry \in BOOLEAN, abort \in BOOLEAN,
           replay \in BOOLEAN : Begin(s, lane, dry, abort, replay)
    BY <1>1 DEF Begins
  <2>1. cur' \in [sid : Sid \cup {None}, lane : {"sync", "async"}, dry : BOOLEAN,
                  abort : BOOLEAN, replay : BOOLEAN]
    BY DEF Begin
  <2>2. tool' \in Tool /\ acting' \in Tool /\ S' = s
    BY DEF Begin
  <2>3. attempts' = 0 /\ attempts' <= MaxAttempts(s)
    <3>1. 1 <= MaxAttempts(s) /\ MaxAttempts(s) \in Int
      BY <1>m DEF MaxAttempts
    <3>2. attempts' = 0
      BY DEF Begin
    <3> HIDE DEF StepInv, TypeOK, Shape
    <3> QED
      BY <3>1, <3>2
  <2>4. worker' \in Seq(Worker) /\ events' \in Seq(Event) /\ pc' \in Place /\ rec' \in Outcome
    BY <1>e DEF Begin, Place, Outcome
  <2>5. S' # None => attempts' <= MaxAttempts(S')
    BY <2>2, <2>3
  <2>6. /\ ex' \in Executor /\ hash' \in [Tool -> 1 .. MaxHash]
        /\ cache' \in [Tool -> [1 .. MaxHash -> Value \cup {None}]]
        /\ produced' \subseteq Tool \X (1 .. MaxHash) \X Value /\ steps' \in Nat
    <3>1. UNCHANGED <<ex, hash, cache, produced>> /\ steps' = steps + 1
      BY DEF Begin
    <3>2. steps' \in Nat
      <4>1. steps \in Nat
        OBVIOUS
      <4> HIDE DEF StepInv, TypeOK, Shape
      <4> QED
        BY <3>1, <4>1
    <3> QED
      BY <3>1, <3>2, Zenon
  <2>7. /\ fb' \in BOOLEAN /\ approved' \subseteq Tool /\ out' \in Value \cup {None}
        /\ cached' \in BOOLEAN /\ keyed' \in BOOLEAN /\ attempts' \in Nat
    BY DEF Begin
  <2> HIDE DEF StepInv, Shape, S
  <2> QED
    BY <2>1, <2>2, <2>4, <2>5, <2>6, <2>7
<1>2. ASSUME Fails PROVE TypeOK'
  BY <1>2 DEF Fails, Fail, Finish, Place, Outcome
<1>3. ASSUME Binds PROVE TypeOK'
  BY <1>3 DEF Binds, Bind, Place
<1>4. ASSUME StartStep PROVE TypeOK'
  BY <1>4, <1>a, <1>e DEF StartStep, Place
<1>5. ASSUME GatePasses PROVE TypeOK'
  BY <1>5, SMTT(60) DEF GatePasses, Place
<1>6. ASSUME GuardPasses \/ RunForReal PROVE TypeOK'
  BY <1>6 DEF GuardPasses, RunForReal, Place
<1>7. ASSUME Stub \/ SkipStep PROVE TypeOK'
  BY <1>7 DEF Stub, SkipStep, Finish, Place, Outcome
<1>8. ASSUME NEW v \in Value, Preview(v) \/ TakeResult(v) PROVE TypeOK'
  <2>1. out' \in Value /\ pc' \in {"end", "contract"} /\ rec' \in Outcome
    BY <1>8 DEF Preview, TakeResult, Finish, Outcome
  <2> QED
    BY <1>8, <2>1 DEF Preview, TakeResult, Finish, Place
<1>9. ASSUME CacheHit PROVE TypeOK'
  <2>1. tool \in Tool /\ hash[tool] \in 1 .. MaxHash
    BY <1>9 DEF CacheHit
  <2>2. cache[tool] \in [1 .. MaxHash -> Value \cup {None}]
    BY <2>1
  <2>3. cache[tool][hash[tool]] \in Value \cup {None}
    BY <2>1, <2>2
  <2> QED
    BY <1>9, <2>3 DEF CacheHit, Place
<1>10. ASSUME CacheMiss PROVE TypeOK'
  <2>1. ex.caches \in BOOLEAN
    BY ExecutorAssumption
  <2>2. keyed' \in BOOLEAN
    BY <1>10, <2>1, Zenon DEF CacheMiss, UsesCache
  <2> QED
    BY <1>10, <2>2 DEF CacheMiss, Place
<1>11. ASSUME Invoke PROVE TypeOK'
  <2>1. acting \in Tool /\ hash[acting] \in 1 .. MaxHash
    BY <1>11 DEF Invoke
  <2>2. [tool |-> acting, hash |-> hash[acting], st |-> "running"] \in Worker
    BY <2>1 DEF Worker, WorkerState
  <2>3. worker' \in Seq(Worker)
    BY <1>11, <1>a, <2>2 DEF Invoke
  <2>4. attempts' \in Nat /\ attempts' <= MaxAttempts(S)
    <3>1. CASE fb
      BY <3>1, <1>11, <1>m DEF Invoke
    <3>2. CASE ~fb
      <4>1. attempts \in Nat /\ attempts' = attempts + 1 /\ S \in Sid
        BY <3>2, <1>11 DEF Invoke
      <4>2. attempts = 0 \/ (Retries[S] >= 0 /\ attempts < Retries[S] + 1)
        BY <3>2, <1>11 DEF Invoke, Tries, RetriesAllowed, AttemptsLeft
      <4> HIDE DEF StepInv, TypeOK, Shape, S
      <4>3. Retries[S] \in Int
        BY <4>1
      <4> QED
        BY <4>1, <4>2, <4>3 DEF MaxAttempts
    <3> QED
      BY <3>1, <3>2
  <2> QED
    BY <1>11, <2>3, <2>4 DEF Invoke, Place
<1>12. ASSUME NEW retryable \in BOOLEAN, AttemptFails(retryable) PROVE TypeOK'
  BY <1>12 DEF AttemptFails, Place
<1>13. ASSUME FallBack PROVE TypeOK'
  BY <1>13 DEF FallBack, Place
<1>14. ASSUME Succeed PROVE TypeOK'
  <2>1. cache' \in [Tool -> [1 .. MaxHash -> Value \cup {None}]]
    <3> DEFINE row == [cache[tool] EXCEPT ![hash[tool]] = out]
    <3>1. tool \in Tool /\ cache[tool] \in [1 .. MaxHash -> Value \cup {None}]
      BY <1>14 DEF Succeed, MeetsContract
    <3>2. row \in [1 .. MaxHash -> Value \cup {None}]
      BY <3>1
    <3>3. cache' = cache \/ cache' = [cache EXCEPT ![tool] = row]
      BY <1>14 DEF Succeed
    <3> HIDE DEF row
    <3> QED
      BY <3>1, <3>2, <3>3
  <2> QED
    BY <1>14, <2>1 DEF Succeed, MeetsContract, Place, Outcome
<1>15. ASSUME EndStep PROVE TypeOK'
  BY <1>15, <1>a, <1>e, SMTT(60) DEF EndStep, Place
<1>16. ASSUME Ends PROVE TypeOK'
  <2> PICK a \in 1 .. Len(worker), r \in WorkerState \ {"running"} : WorkerEnds(a, r)
    BY <1>16 DEF Ends
  <2>1. worker[a] \in Worker
    OBVIOUS
  <2>2. [worker[a] EXCEPT !.st = r] \in Worker
    BY <2>1 DEF Worker
  <2>3. worker' = [worker EXCEPT ![a] = [worker[a] EXCEPT !.st = r]]
    BY DEF WorkerEnds
  <2>4. worker' \in Seq(Worker)
    BY <2>2, <2>3
  <2>5. produced' \subseteq Tool \X (1 .. MaxHash) \X Value
    <3>1. worker[a].tool \in Tool /\ worker[a].hash \in 1 .. MaxHash
      BY <2>1 DEF Worker
    <3>2. produced' = produced \cup
            {<<worker[a].tool, worker[a].hash, v>> : v \in {r} \cap Value}
      BY DEF WorkerEnds
    <3>3. produced \subseteq Tool \X (1 .. MaxHash) \X Value
      OBVIOUS
    <3> HIDE DEF StepInv, TypeOK, Shape, S
    <3>4. ASSUME NEW p \in produced' PROVE p \in Tool \X (1 .. MaxHash) \X Value
      <4>1. p \in produced \/ (r \in Value /\ p = <<worker[a].tool, worker[a].hash, r>>)
        BY <3>2, <3>4
      <4> QED
        BY <3>1, <3>3, <4>1
    <3> QED
      BY <3>4
  <2> QED
    BY <2>4, <2>5 DEF WorkerEnds
<1>17. ASSUME Chunk PROVE TypeOK'
  BY <1>17, <1>a, <1>e DEF Chunk
<1>18. ASSUME NEW t \in Tool, RegisterTool(t) PROVE TypeOK'
  <2>1. hash' \in [Tool -> 1 .. MaxHash]
    <3>1. /\ hash \in [Tool -> 1 .. MaxHash] /\ hash' = [hash EXCEPT ![t] = hash[t] + 1]
          /\ hash[t] < MaxHash /\ MaxHash \in Nat
      BY <1>18 DEF RegisterTool
    <3> HIDE DEF StepInv, TypeOK, Shape, S
    <3>2. hash[t] + 1 \in 1 .. MaxHash
      BY <3>1
    <3> QED
      BY <3>1, <3>2
  <2> QED
    BY <1>18, <2>1, ZenonT(60) DEF RegisterTool
<1>19. CASE UNCHANGED vars
  BY <1>19, ZenonT(60) DEF vars
<1> HIDE DEF StepInv, TypeOK, Shape, S, stepVars
<1> QED
  BY StepCases, <1>1, <1>2, <1>3, <1>4, <1>5, <1>6, <1>7, <1>8, <1>9, <1>10, <1>11, <1>12,
     <1>13,
     <1>14, <1>15, <1>16, <1>17, <1>18, <1>19, Zenon

(* Every step keeps what the place implies.                               *)
LEMMA ShapeStep == StepInv /\ [Next]_vars => Shape'
<1> SUFFICES ASSUME StepInv, [Next]_vars PROVE Shape'
  OBVIOUS
<1> USE DEF Shape, StepInv, S, stepVars
<1>1. ASSUME Begins PROVE Shape'
  BY <1>1, StepAssumption DEF Begins, Begin
<1>2. ASSUME Binds \/ Fails PROVE Shape'
  BY <1>2 DEF Binds, Bind, Fails, Fail, Finish, Place
<1>3. ASSUME StartStep \/ GatePasses \/ GuardPasses \/ RunForReal PROVE Shape'
  BY <1>3 DEF StartStep, GatePasses, GuardPasses, RunForReal
<1>4. ASSUME Stub \/ SkipStep \/ FallBack PROVE Shape'
  BY <1>4 DEF Stub, SkipStep, FallBack, Finish
<1>5. ASSUME CacheHit \/ CacheMiss \/ Invoke PROVE Shape'
  BY <1>5 DEF CacheHit, CacheMiss, Invoke
<1>6. ASSUME NEW v \in Value, Preview(v) \/ TakeResult(v) PROVE Shape'
  BY <1>6 DEF Preview, TakeResult, Finish
<1>7. ASSUME NEW retryable \in BOOLEAN, AttemptFails(retryable) PROVE Shape'
  BY <1>7 DEF AttemptFails
<1>8. ASSUME Succeed \/ EndStep PROVE Shape'
  BY <1>8 DEF Succeed, MeetsContract, EndStep
<1>9. ASSUME Chunk \/ Ends \/ \E t \in Tool : RegisterTool(t) PROVE Shape'
  BY <1>9 DEF Chunk, Ends, WorkerEnds, RegisterTool
<1>10. CASE UNCHANGED vars
  BY <1>10 DEF vars
<1> HIDE DEF Shape, StepInv, S, stepVars
<1> QED
  BY StepCases, <1>1, <1>2, <1>3, <1>4, <1>5, <1>6, <1>7, <1>8, <1>9, <1>10, Zenon

(* Every step keeps the count of the invocations.                          *)
LEMMA CountedStep == StepInv /\ [Next]_vars => Counted'
<1> SUFFICES ASSUME StepInv, [Next]_vars PROVE Counted'
  OBVIOUS
<1>t. worker \in Seq(Worker) /\ attempts \in Nat /\ Len(worker) \in Nat
  BY DEF StepInv, TypeOK
<1> USE <1>t DEF Counted, Shape, StepInv, BeforeInvoke, S, stepVars
<1>1. ASSUME Begins PROVE Counted'
  BY <1>1 DEF Begins, Begin
<1>2. ASSUME Binds PROVE Counted'
  BY <1>2 DEF Binds, Bind
<1>3. ASSUME Fails PROVE Counted'
  BY <1>3 DEF Fails, Fail, Finish, Place
<1>4. ASSUME StartStep \/ GatePasses \/ GuardPasses \/ RunForReal PROVE Counted'
  BY <1>4 DEF StartStep, GatePasses, GuardPasses, RunForReal
<1>5. ASSUME Stub \/ SkipStep \/ FallBack PROVE Counted'
  BY <1>5 DEF Stub, SkipStep, FallBack, Finish
<1>6. ASSUME CacheHit \/ CacheMiss PROVE Counted'
  BY <1>6 DEF CacheHit, CacheMiss
<1>7. ASSUME Invoke PROVE Counted'
  <2>1. Len(worker') = Len(worker) + 1
    BY <1>7, <1>t DEF Invoke
  <2> QED
    BY <1>7, <1>t, <2>1 DEF Invoke
<1>8. ASSUME NEW v \in Value, Preview(v) \/ TakeResult(v) PROVE Counted'
  BY <1>8 DEF Preview, TakeResult, Finish
<1>9. ASSUME NEW retryable \in BOOLEAN, AttemptFails(retryable) PROVE Counted'
  BY <1>9 DEF AttemptFails
<1>10. ASSUME Succeed \/ EndStep PROVE Counted'
  BY <1>10 DEF Succeed, MeetsContract, EndStep
<1>11. ASSUME Ends PROVE Counted'
  <2>1. Len(worker') = Len(worker)
    BY <1>11, <1>t DEF Ends, WorkerEnds
  <2> QED
    BY <1>11, <2>1 DEF Ends, WorkerEnds
<1>12. ASSUME Chunk \/ \E t \in Tool : RegisterTool(t) PROVE Counted'
  BY <1>12 DEF Chunk, RegisterTool
<1>13. CASE UNCHANGED vars
  BY <1>13 DEF vars
<1> HIDE DEF Counted, Shape, StepInv, BeforeInvoke, S, stepVars
<1> QED
  BY StepCases, <1>1, <1>2, <1>3, <1>4, <1>5, <1>6, <1>7, <1>8, <1>9, <1>10, <1>11, <1>12,
     <1>13, Zenon

(* Every step keeps the bound on the attempts.                             *)
LEMMA TriesStep == StepInv /\ [Next]_vars => Tries'
<1> SUFFICES ASSUME StepInv, [Next]_vars PROVE Tries'
  OBVIOUS
<1>t. attempts \in Nat
  BY DEF StepInv, TypeOK
<1> USE <1>t DEF Tries, Shape, StepInv, RetriesAllowed, AttemptsLeft, Streams, S, stepVars
<1>1. ASSUME Begins PROVE Tries'
  BY <1>1 DEF Begins, Begin
<1>2. ASSUME Binds PROVE Tries'
  BY <1>2 DEF Binds, Bind, Counted, BeforeInvoke
<1>3. ASSUME Fails PROVE Tries'
  BY <1>3 DEF Fails, Fail, Finish, Place
<1>4. ASSUME StartStep \/ GatePasses \/ GuardPasses \/ RunForReal PROVE Tries'
  BY <1>4 DEF StartStep, GatePasses, GuardPasses, RunForReal
<1>5. ASSUME Stub \/ SkipStep \/ FallBack PROVE Tries'
  BY <1>5 DEF Stub, SkipStep, FallBack, Finish
<1>6. ASSUME CacheHit \/ CacheMiss PROVE Tries'
  BY <1>6 DEF CacheHit, CacheMiss, Counted, BeforeInvoke
<1>7. ASSUME Invoke PROVE Tries'
  BY <1>7 DEF Invoke, Counted
<1>8. ASSUME NEW v \in Value, Preview(v) \/ TakeResult(v) PROVE Tries'
  BY <1>8 DEF Preview, TakeResult, Finish
<1>9. ASSUME NEW retryable \in BOOLEAN, AttemptFails(retryable) PROVE Tries'
  BY <1>9 DEF AttemptFails
<1>10. ASSUME Succeed \/ EndStep PROVE Tries'
  BY <1>10 DEF Succeed, MeetsContract, EndStep
<1>11. ASSUME Ends PROVE Tries'
  BY <1>11 DEF Ends, WorkerEnds
<1>12. ASSUME Chunk \/ \E t \in Tool : RegisterTool(t) PROVE Tries'
  BY <1>12 DEF Chunk, RegisterTool
<1>13. CASE UNCHANGED vars
  BY <1>13 DEF vars
<1> HIDE DEF Tries, Shape, StepInv, RetriesAllowed, AttemptsLeft, Streams, S, stepVars
<1> QED
  BY StepCases, <1>1, <1>2, <1>3, <1>4, <1>5, <1>6, <1>7, <1>8, <1>9, <1>10, <1>11, <1>12,
     <1>13, Zenon

(* StepInv holds of every state.                                           *)
LEMMA StepAlways == Spec => []StepInv
<1>1. StepInv /\ [Next]_vars => StepInv'
  BY TypeStep, ShapeStep, CountedStep, TriesStep, Zenon DEF StepInv
<1> QED
  BY <1>1, StepInit, PTL DEF Spec

(* The types hold, and with them the bound on the attempts: a step is      *)
(* tried at most 1 + max_retries times (_invoke_with_retry).               *)
THEOREM StepTypes == Spec => []TypeOK
<1>1. StepInv => TypeOK
  BY Zenon DEF StepInv
<1> QED
  BY <1>1, StepAlways, PTL

-----------------------------------------------------------------------------
(* The workers.                                                            *)

(* The attempts run the tool, the one worker after them the fallback.      *)
Bound == \A a \in 1 .. Len(worker) :
           worker[a].tool = IF a <= attempts THEN tool ELSE Fallback[S]

(* A worker got the schema that is registered as long as the step lasts,   *)
(* and what it returned is on record.                                      *)
Issued == \A a \in 1 .. Len(worker) :
            /\ pc # "idle" => worker[a].hash = hash[worker[a].tool]
            /\ worker[a].st \in Value =>
                 <<worker[a].tool, worker[a].hash, worker[a].st>> \in produced

(* What an invocation does to the workers.                                 *)
LEMMA InvokeWorkers ==
  ASSUME StepInv, Invoke
  PROVE  /\ Len(worker') = Len(worker) + 1 /\ Len(worker) \in Nat
         /\ \A a \in 1 .. Len(worker) : worker'[a] = worker[a]
         /\ worker'[Len(worker) + 1] = [tool |-> acting, hash |-> hash[acting], st |-> "running"]
<1>1. acting \in Tool /\ hash[acting] \in 1 .. MaxHash /\ worker \in Seq(Worker)
  BY StepAssumption DEF StepInv, TypeOK, Shape, Invoke, S
<1>2. [tool |-> acting, hash |-> hash[acting], st |-> "running"] \in Worker
  BY <1>1 DEF Worker, WorkerState
<1> QED
  BY <1>1, <1>2, AppendType DEF Invoke

(* What the end of a worker does to the workers.                           *)
LEMMA EndsWorkers ==
  ASSUME StepInv, NEW a \in 1 .. Len(worker), NEW r \in WorkerState, WorkerEnds(a, r)
  PROVE  /\ worker' \in Seq(Worker) /\ Len(worker') = Len(worker)
         /\ \A b \in 1 .. Len(worker) :
              /\ worker'[b].tool = worker[b].tool /\ worker'[b].hash = worker[b].hash
              /\ worker'[b].st = IF b = a THEN r ELSE worker[b].st
<1>1. worker \in Seq(Worker) /\ \A b \in 1 .. Len(worker) : worker[b] \in Worker
  BY DEF StepInv, TypeOK
<1>2. worker' = [worker EXCEPT ![a] = [worker[a] EXCEPT !.st = r]]
  BY DEF WorkerEnds
<1>3. [worker[a] EXCEPT !.st = r] \in Worker
  BY <1>1 DEF Worker
<1>4. worker' \in Seq(Worker) /\ Len(worker') = Len(worker)
  BY <1>1, <1>2, <1>3
<1>5. ASSUME NEW b \in 1 .. Len(worker)
      PROVE  worker'[b] = IF b = a THEN [worker[a] EXCEPT !.st = r] ELSE worker[b]
  BY <1>1, <1>2
<1>6. /\ [worker[a] EXCEPT !.st = r].tool = worker[a].tool
      /\ [worker[a] EXCEPT !.st = r].hash = worker[a].hash
      /\ [worker[a] EXCEPT !.st = r].st = r
  BY <1>1 DEF Worker
<1> QED
  BY <1>4, <1>5, <1>6

(* Every step keeps the workers bound to the tool and the fallback.        *)
LEMMA BoundStep == StepInv /\ Bound /\ [Next]_vars => Bound'
<1> SUFFICES ASSUME StepInv, Bound, [Next]_vars PROVE Bound'
  OBVIOUS
<1>t. Len(worker) \in Nat /\ attempts \in Nat
  BY DEF StepInv, TypeOK
<1>1. ASSUME Begins PROVE Bound'
  BY <1>1 DEF Begins, Begin, Bound
<1>2. ASSUME Binds PROVE Bound'
  BY <1>2, <1>t DEF Binds, Bind, Bound, StepInv, Shape, Counted, BeforeInvoke
<1>3. ASSUME Invoke PROVE Bound'
  <2>1. /\ Len(worker') = Len(worker) + 1
        /\ \A a \in 1 .. Len(worker) : worker'[a].tool = worker[a].tool
        /\ worker'[Len(worker) + 1].tool = acting
    BY <1>3, InvokeWorkers
  <2>2. /\ attempts' = IF fb THEN attempts ELSE attempts + 1
        /\ UNCHANGED <<tool, cur>> /\ pc = "invoke" /\ Len(worker) = attempts
        /\ acting = IF fb THEN Fallback[S] ELSE tool
    BY <1>3 DEF Invoke, StepInv, Shape, Counted
  <2> QED
    BY <1>t, <2>1, <2>2 DEF Bound, S
<1>4. ASSUME Ends PROVE Bound'
  <2> PICK a \in 1 .. Len(worker), r \in WorkerState \ {"running"} : WorkerEnds(a, r)
    BY <1>4 DEF Ends
  <2>1. UNCHANGED <<attempts, tool, cur>>
    BY DEF WorkerEnds
  <2> QED
    BY <2>1, EndsWorkers DEF Bound, S
<1>5. ASSUME UNCHANGED <<worker, attempts, tool, cur>> PROVE Bound'
  BY <1>5 DEF Bound, S
<1>6. ASSUME \/ Fails \/ StartStep \/ GatePasses \/ GuardPasses \/ RunForReal \/ Stub \/ CacheHit
             \/ CacheMiss \/ SkipStep \/ FallBack \/ Succeed \/ EndStep \/ Chunk
             \/ UNCHANGED vars
      PROVE  UNCHANGED <<worker, attempts, tool, cur>>
  BY <1>6
     DEF Fails, Fail, Finish, StartStep, GatePasses, GuardPasses, RunForReal, Stub, CacheHit,
              CacheMiss, SkipStep, FallBack, Succeed, EndStep, Chunk, stepVars, vars
<1>7. ASSUME \/ \E v \in Value : Preview(v) \/ TakeResult(v)
             \/ \E retryable \in BOOLEAN : AttemptFails(retryable)
             \/ \E t \in Tool : RegisterTool(t)
      PROVE  UNCHANGED <<worker, attempts, tool, cur>>
  BY <1>7 DEF Preview, TakeResult, AttemptFails, RegisterTool, Finish, stepVars
<1> QED
  BY StepCases, <1>1, <1>2, <1>3, <1>4, <1>5, <1>6, <1>7, Zenon

(* Under strict_safety a tool that must not be retried is invoked once     *)
(* (_retry_disallowed_by_contract): every worker of the tool is one of the *)
(* attempts, since the fallback is another tool, and there is one at most. *)
THEOREM StepUnsafeOnce == Spec => []UnsafeInvokedOnce
<1>1. Init => Bound
  BY DEF Init, Bound
<1>2. StepInv /\ Bound => UnsafeInvokedOnce
  <2> SUFFICES ASSUME StepInv, Bound, ex.strict, tool \in UnsafeRetry, Fallback[S] # tool
               PROVE  Cardinality({a \in 1 .. Len(worker) : worker[a].tool = tool}) <= 1
    BY DEF UnsafeInvokedOnce
  <2> DEFINE calls == {a \in 1 .. Len(worker) : worker[a].tool = tool}
  <2>1. attempts \in Nat /\ attempts <= 1 /\ Len(worker) \in Nat
    BY DEF StepInv, TypeOK, Tries
  <2>2. calls \subseteq {1}
    <3>1. ASSUME NEW a \in calls PROVE a = 1
      <4>1. a \in 1 .. Len(worker) /\ a <= attempts
        BY DEF Bound
      <4> HIDE DEF calls
      <4> QED
        BY <2>1, <4>1
    <3> QED
      BY <3>1
  <2>3. IsFiniteSet({1}) /\ Cardinality({1}) = 1
    BY FS_Singleton
  <2> HIDE DEF calls
  <2>4. calls \in SUBSET {1}
    BY <2>2
  <2>5. Cardinality(calls) <= Cardinality({1})
    BY <2>3, <2>4, FS_Subset, Zenon
  <2> QED
    BY <2>3, <2>5 DEF calls
<1>3. Spec => []Bound
  BY <1>1, BoundStep, StepAlways, PTL DEF Spec
<1> QED
  BY <1>2, <1>3, StepAlways, PTL

(* Every step keeps the workers' schemas and what they returned.           *)
LEMMA IssuedStep == StepInv /\ Issued /\ [Next]_vars => Issued'
<1> SUFFICES ASSUME StepInv, Issued, [Next]_vars PROVE Issued'
  OBVIOUS
<1>1. ASSUME Begins PROVE Issued'
  BY <1>1 DEF Begins, Begin, Issued
<1>2. ASSUME Invoke PROVE Issued'
  <2>1. pc = "invoke" /\ UNCHANGED <<hash, produced>> /\ "running" \notin Value
    BY <1>2, ToolAssumption DEF Invoke
  <2> QED
    BY <1>2, <2>1, InvokeWorkers DEF Issued
<1>3. ASSUME Ends PROVE Issued'
  <2> PICK a \in 1 .. Len(worker), r \in WorkerState \ {"running"} : WorkerEnds(a, r)
    BY <1>3 DEF Ends
  <2>1. /\ UNCHANGED <<pc, hash>> /\ produced \subseteq produced'
        /\ r \in Value => <<worker[a].tool, worker[a].hash, r>> \in produced'
    BY DEF WorkerEnds
  <2>2. ASSUME NEW b \in 1 .. Len(worker')
        PROVE  /\ pc' # "idle" => worker'[b].hash = hash'[worker'[b].tool]
               /\ worker'[b].st \in Value =>
                    <<worker'[b].tool, worker'[b].hash, worker'[b].st>> \in produced'
    <3>1. /\ b \in 1 .. Len(worker)
          /\ worker'[b].tool = worker[b].tool /\ worker'[b].hash = worker[b].hash
          /\ worker'[b].st = IF b = a THEN r ELSE worker[b].st
      BY EndsWorkers
    <3> QED
      BY <2>1, <3>1 DEF Issued
  <2> QED
    BY <2>2 DEF Issued
<1>4. ASSUME UNCHANGED <<worker, produced>>, pc' # "idle" => pc # "idle" /\ UNCHANGED hash
      PROVE  Issued'
  BY <1>4 DEF Issued
<1>5. ASSUME \/ Binds \/ Fails \/ StartStep \/ GatePasses \/ GuardPasses \/ RunForReal \/ Stub
             \/ CacheHit \/ CacheMiss \/ SkipStep \/ FallBack \/ Succeed \/ EndStep \/ Chunk
             \/ UNCHANGED vars
      PROVE  UNCHANGED <<worker, produced>> /\ (pc' # "idle" => pc # "idle" /\ UNCHANGED hash)
  BY <1>5 DEF Binds, Bind, Fails, Fail, Finish, StartStep, GatePasses, GuardPasses, RunForReal,
              Stub, CacheHit, CacheMiss, SkipStep, FallBack, Succeed, MeetsContract, EndStep,
              Chunk, stepVars, vars
<1>6. ASSUME \/ \E v \in Value : Preview(v) \/ TakeResult(v)
             \/ \E retryable \in BOOLEAN : AttemptFails(retryable)
             \/ \E t \in Tool : RegisterTool(t)
      PROVE  UNCHANGED <<worker, produced>> /\ (pc' # "idle" => pc # "idle" /\ UNCHANGED hash)
  BY <1>6 DEF Preview, TakeResult, AttemptFails, RegisterTool, Finish, stepVars
<1> QED
  BY StepCases, <1>1, <1>2, <1>3, <1>4, <1>5, <1>6, Zenon

-----------------------------------------------------------------------------
(* The output and the cache.                                               *)

(* A hit invokes nothing; the output under the contract is a value, the    *)
(* last worker's when it is fresh.                                         *)
Held ==
  /\ cached => worker = <<>>
  /\ pc = "contract" => out \in Value /\ (~cached => out = Latest.st)

(* The steps that change neither the workers nor what is produced, before  *)
(* there is an outcome.                                                    *)
LEMMA QuietSteps ==
  ASSUME StepInv,
         \/ Binds \/ StartStep \/ GatePasses \/ GuardPasses \/ RunForReal \/ CacheMiss
         \/ FallBack \/ Chunk \/ \E retryable \in BOOLEAN : AttemptFails(retryable)
  PROVE  /\ UNCHANGED <<worker, out, produced, cache, hash, rec, cached, cur, ex>>
         /\ ~cached /\ rec = "none" /\ pc' \notin {"contract", "end", "idle"}
<1>1. UNCHANGED <<worker, out, produced, cache, hash, rec, cached, cur, ex>>
  BY DEF Binds, Bind, StartStep, GatePasses, GuardPasses, RunForReal, CacheMiss, FallBack,
         Chunk, AttemptFails, stepVars
<1>2. pc \notin {"contract", "end", "idle"} /\ pc' \notin {"contract", "end", "idle"}
  BY DEF Binds, Bind, StartStep, GatePasses, GuardPasses, RunForReal, CacheMiss, FallBack,
         Chunk, AttemptFails
<1> QED
  BY <1>1, <1>2 DEF StepInv, Shape

(* The last worker's answer does not change once it is a value.            *)
LEMMA LatestKept ==
  ASSUME StepInv, Ends, Latest.st # "running"
  PROVE  Latest'.st = Latest.st /\ worker # <<>> /\ worker' # <<>>
<1> PICK a \in 1 .. Len(worker), r \in WorkerState \ {"running"} : WorkerEnds(a, r)
  BY DEF Ends
<1>1. worker[a].st = "running" /\ worker \in Seq(Worker) /\ Len(worker) \in Nat
  BY DEF WorkerEnds, StepInv, TypeOK
<1>2. a # Len(worker) /\ Len(worker) \in 1 .. Len(worker)
  BY <1>1 DEF Latest
<1>3. Len(worker') = Len(worker) /\ worker'[Len(worker)].st = worker[Len(worker)].st
  BY <1>2, EndsWorkers
<1>4. worker' \in Seq(Worker)
  BY EndsWorkers
<1> QED
  BY <1>1, <1>2, <1>3, <1>4 DEF Latest

(* Every step keeps the output in hand.                                    *)
LEMMA HeldStep == StepInv /\ Held /\ [Next]_vars => Held'
<1> SUFFICES ASSUME StepInv, Held, [Next]_vars PROVE Held'
  OBVIOUS
<1>1. ASSUME Begins PROVE Held'
  BY <1>1 DEF Begins, Begin, Held
<1>2. ASSUME \/ Binds \/ StartStep \/ GatePasses \/ GuardPasses \/ RunForReal \/ CacheMiss
             \/ FallBack \/ Chunk \/ \E retryable \in BOOLEAN : AttemptFails(retryable)
      PROVE  Held'
  BY <1>2, QuietSteps DEF Held
<1>3. ASSUME Fails \/ Stub \/ SkipStep \/ Succeed \/ EndStep PROVE Held'
  BY <1>3 DEF Fails, Fail, Finish, Stub, SkipStep, Succeed, EndStep, Held
<1>4. ASSUME CacheHit PROVE Held'
  <2>1. Len(worker) = 0 /\ worker \in Seq(Worker) /\ UNCHANGED worker
    BY <1>4 DEF CacheHit, StepInv, TypeOK, Counted, Shape, BeforeInvoke
  <2>2. tool \in Tool /\ hash[tool] \in 1 .. MaxHash
    BY <1>4 DEF CacheHit, StepInv, TypeOK, Shape
  <2>3. cache[tool] \in [1 .. MaxHash -> Value \cup {None}]
    BY <2>2 DEF StepInv, TypeOK
  <2>4. out' \in Value /\ cached'
    BY <1>4, <2>2, <2>3 DEF CacheHit
  <2> QED
    BY <2>1, <2>4 DEF Held
<1>5. ASSUME Invoke PROVE Held'
  BY <1>5 DEF Invoke, Held, StepInv, Shape
<1>6. ASSUME NEW v \in Value, Preview(v) \/ TakeResult(v) PROVE Held'
  BY <1>6 DEF Preview, TakeResult, Finish, Held, Answer, Latest, StepInv, Shape
<1>7. ASSUME Ends PROVE Held'
  <2>1. UNCHANGED <<pc, out, cached>> /\ worker # <<>>
    BY <1>7 DEF Ends, WorkerEnds
  <2>2. "running" \notin Value /\ ~cached
    BY <2>1, ToolAssumption DEF Held
  <2>3. pc = "contract" => out \in Value /\ out = Latest.st
    BY <2>2 DEF Held
  <2>4. pc = "contract" => Latest'.st = Latest.st
    BY <1>7, <2>2, <2>3, LatestKept
  <2> QED
    BY <2>1, <2>2, <2>3, <2>4 DEF Held
<1>8. ASSUME NEW t \in Tool, RegisterTool(t) PROVE Held'
  BY <1>8 DEF RegisterTool, stepVars, Held, Latest
<1>9. CASE UNCHANGED vars
  BY <1>9 DEF vars, stepVars, Held, Latest
<1> QED
  BY StepCases, <1>1, <1>2, <1>3, <1>4, <1>5, <1>6, <1>7, <1>8, <1>9, Zenon

(* Every step keeps the output of the latest step the last worker's.       *)
LEMMA LateStep ==
  StepInv /\ Held /\ LateResultIsDiscarded /\ [Next]_vars => LateResultIsDiscarded'
<1> SUFFICES ASSUME StepInv, Held, LateResultIsDiscarded, [Next]_vars
             PROVE  LateResultIsDiscarded'
  OBVIOUS
<1>1. ASSUME rec' \notin {"ok", "fallback"} PROVE LateResultIsDiscarded'
  BY <1>1 DEF LateResultIsDiscarded
<1>2. ASSUME \/ Binds \/ StartStep \/ GatePasses \/ GuardPasses \/ RunForReal \/ CacheMiss
             \/ FallBack \/ Chunk \/ \E retryable \in BOOLEAN : AttemptFails(retryable)
      PROVE  rec' \notin {"ok", "fallback"}
  BY <1>2, QuietSteps
<1>3. ASSUME Begins \/ Fails \/ Stub \/ SkipStep \/ CacheHit \/ Invoke
      PROVE  rec' \notin {"ok", "fallback"}
  BY <1>3
     DEF Begins, Begin, Fails, Fail, Finish, Stub, SkipStep, CacheHit, Invoke, StepInv, Shape
<1>4. ASSUME NEW v \in Value, Preview(v) PROVE LateResultIsDiscarded'
  BY <1>4 DEF Preview, Finish, LateResultIsDiscarded, Rehearsed
<1>5. ASSUME NEW v \in Value, TakeResult(v) PROVE LateResultIsDiscarded'
  BY <1>5 DEF TakeResult, Answer, LateResultIsDiscarded, Latest
<1>6. ASSUME Succeed PROVE LateResultIsDiscarded'
  BY <1>6 DEF Succeed, MeetsContract, Held, LateResultIsDiscarded, Latest
<1>7. ASSUME UNCHANGED <<rec, cached, cur, acting, worker, out>> PROVE LateResultIsDiscarded'
  BY <1>7 DEF LateResultIsDiscarded, Rehearsed, Latest
<1>8. ASSUME EndStep \/ (\E t \in Tool : RegisterTool(t)) \/ UNCHANGED vars
      PROVE  UNCHANGED <<rec, cached, cur, acting, worker, out>>
  BY <1>8 DEF EndStep, RegisterTool, stepVars, vars
<1>9. ASSUME Ends PROVE LateResultIsDiscarded'
  <2>1. UNCHANGED <<rec, cached, cur, acting, out>> /\ worker # <<>>
    BY <1>9 DEF Ends, WorkerEnds
  <2>2. out # "running"
    BY ToolAssumption DEF StepInv, TypeOK, None
  <2> SUFFICES ASSUME rec \in {"ok", "fallback"}, ~cached, ~Rehearsed
               PROVE  out = Latest'.st
    BY <2>1 DEF LateResultIsDiscarded, Rehearsed
  <2>3. out = Latest.st
    BY <2>1 DEF LateResultIsDiscarded
  <2> QED
    BY <1>9, <2>2, <2>3, LatestKept
<1> QED
  BY StepCases, <1>1, <1>2, <1>3, <1>4, <1>5, <1>6, <1>7, <1>8, <1>9, Zenon

(* A cached output and a cached row stay what a real invocation returned.  *)
LEMMA SoundStep ==
  StepInv /\ Bound /\ Issued /\ Held /\ CacheIsSound /\ [Next]_vars => CacheIsSound'
<1> SUFFICES ASSUME StepInv, Bound, Issued, Held, CacheIsSound, [Next]_vars
             PROVE  CacheIsSound'
  OBVIOUS
<1>1. ASSUME UNCHANGED cache, produced \subseteq produced',
             cached' => pc' = "idle" \/ out' = None
      PROVE  CacheIsSound'
  BY <1>1 DEF CacheIsSound
<1>2. ASSUME \/ Binds \/ StartStep \/ GatePasses \/ GuardPasses \/ RunForReal \/ CacheMiss
             \/ FallBack \/ Chunk \/ \E retryable \in BOOLEAN : AttemptFails(retryable)
      PROVE  CacheIsSound'
  BY <1>2, <1>1, QuietSteps
<1>3. ASSUME \/ Begins \/ Fails \/ Stub \/ SkipStep \/ Invoke \/ EndStep
             \/ \E v \in Value : Preview(v) \/ TakeResult(v)
             \/ \E t \in Tool : RegisterTool(t)
      PROVE  CacheIsSound'
  <2>1. UNCHANGED <<cache, produced>> /\ (cached' => pc' = "idle" \/ out' = None)
    BY <1>3 DEF Begins, Begin, Fails, Fail, Finish, Stub, SkipStep, Invoke, EndStep, Preview,
                TakeResult, RegisterTool, stepVars, StepInv, Shape
  <2> QED
    BY <1>1, <2>1
<1>4. ASSUME CacheHit PROVE CacheIsSound'
  <2>1. tool \in Tool /\ hash[tool] \in 1 .. MaxHash
    BY <1>4 DEF CacheHit, StepInv, TypeOK, Shape
  <2> QED
    BY <1>4, <2>1 DEF CacheHit, CacheIsSound
<1>5. ASSUME Succeed PROVE CacheIsSound'
  <2>1. /\ pc = "contract" /\ UNCHANGED <<cached, tool, hash, out, produced>>
        /\ cache' = IF keyed /\ ~cached THEN [cache EXCEPT ![tool][hash[tool]] = out] ELSE cache
    BY <1>5 DEF Succeed, MeetsContract
  <2>2. CASE keyed /\ ~cached
    <3>1. /\ ~fb /\ Len(worker) = attempts /\ attempts > 0 /\ attempts \in Nat
          /\ worker \in Seq(Worker)
      BY <2>1, <2>2 DEF StepInv, TypeOK, Shape, Counted
    <3>2. Latest.tool = tool /\ Latest.hash = hash[tool] /\ Latest.st = out /\ out \in Value
      <4>1. Len(worker) \in 1 .. Len(worker) /\ Len(worker) <= attempts
        BY <3>1
      <4>2. Latest.tool = tool
        BY <4>1 DEF Bound, Latest
      <4>3. Latest.hash = hash[Latest.tool]
        BY <2>1, <4>1 DEF Issued, Latest
      <4>4. Latest.st = out /\ out \in Value
        BY <2>1, <2>2 DEF Held
      <4> QED
        BY <4>2, <4>3, <4>4
    <3>3. <<tool, hash[tool], out>> \in produced
      BY <3>1, <3>2 DEF Issued, Latest
    <3>4. cache' = [cache EXCEPT ![tool][hash[tool]] = out]
      BY <2>1, <2>2
    <3>5. cache \in [Tool -> [1 .. MaxHash -> Value \cup {None}]]
      BY DEF StepInv, TypeOK
    <3>6. ASSUME NEW t \in Tool, NEW h \in 1 .. MaxHash, cache'[t][h] # None
          PROVE  <<t, h, cache'[t][h]>> \in produced
      <4>1. cache[t] \in [1 .. MaxHash -> Value \cup {None}]
        BY <3>5
      <4>2. cache'[t][h] = IF t = tool /\ h = hash[tool] THEN out ELSE cache[t][h]
        BY <3>4, <3>5, <4>1
      <4>3. CASE t = tool /\ h = hash[tool]
        BY <3>3, <4>2, <4>3
      <4>4. CASE ~(t = tool /\ h = hash[tool])
        BY <3>6, <4>2, <4>4 DEF CacheIsSound
      <4> QED
        BY <4>3, <4>4
    <3> QED
      BY <2>1, <2>2, <3>6 DEF CacheIsSound
  <2>3. CASE ~(keyed /\ ~cached)
    BY <2>1, <2>3 DEF CacheIsSound
  <2> QED
    BY <2>2, <2>3
<1>6. ASSUME Ends PROVE CacheIsSound'
  <2>1. UNCHANGED cache /\ ~cached' /\ produced \subseteq produced'
    BY <1>6 DEF Ends, WorkerEnds, Held
  <2> QED
    BY <1>1, <2>1
<1>7. CASE UNCHANGED vars
  BY <1>7 DEF vars, stepVars, CacheIsSound
<1> QED
  BY StepCases, <1>2, <1>3, <1>4, <1>5, <1>6, <1>7, Zenon

(* The invariant of the outputs.                                           *)
LEMMA OutputsAlways == Spec => [](Bound /\ Issued /\ Held)
<1>1. Init => Bound /\ Issued /\ Held
  BY DEF Init, Bound, Issued, Held
<1> QED
  BY <1>1, BoundStep, IssuedStep, HeldStep, StepAlways, PTL DEF Spec

(* A result that arrives after its timeout is never used (Tool._call_fn,   *)
(* _invoke_with_retry): only the last worker's answer is ever taken, and a *)
(* worker answers once.                                                    *)
THEOREM StepDiscardsLate == Spec => []LateResultIsDiscarded
<1>1. Init => LateResultIsDiscarded
  BY DEF Init, LateResultIsDiscarded
<1> QED
  BY <1>1, LateStep, OutputsAlways, StepAlways, PTL DEF Spec

(* The cache holds and serves what the tool itself returned under the      *)
(* schema of the key: only a keyed step whose primary was invoked and      *)
(* accepted stores its output (_execute_step, step_cache.put), and the     *)
(* schema does not change while a step runs.                               *)
THEOREM StepCacheSound == Spec => []CacheIsSound
<1>1. Init => CacheIsSound
  BY StepAssumption DEF Init, CacheIsSound
<1> QED
  BY <1>1, SoundStep, OutputsAlways, StepAlways, PTL DEF Spec

(* A successful step's output satisfies its contract, a cached output of   *)
(* another step too: the contract is checked after the cache and before    *)
(* the outcome is "ok" on every path but a preview.                        *)
THEOREM StepContract == Spec => []ContractKept
<1>1. Init => ContractKept
  BY DEF Init, ContractKept
<1>2. StepInv /\ ContractKept /\ [Next]_vars => ContractKept'
  <2> SUFFICES ASSUME StepInv, ContractKept, [Next]_vars PROVE ContractKept'
    OBVIOUS
  <2>1. ASSUME \/ Binds \/ StartStep \/ GatePasses \/ GuardPasses \/ RunForReal \/ CacheMiss
             \/ FallBack \/ Chunk \/ \E retryable \in BOOLEAN : AttemptFails(retryable)
      PROVE  rec' # "ok"
    BY <2>1, QuietSteps
  <2>2. ASSUME Begins \/ Fails \/ Stub \/ SkipStep \/ CacheHit \/ Invoke PROVE rec' # "ok"
    BY <2>2 DEF Begins, Begin, Fails, Fail, Finish, Stub, SkipStep, CacheHit, Invoke, StepInv,
                Shape
  <2>3. ASSUME \E v \in Value : Preview(v) \/ TakeResult(v) PROVE rec' # "ok" \/ cur'.dry
    BY <2>3 DEF Preview, TakeResult, Finish, Rehearsed, StepInv, Shape
  <2>4. ASSUME Succeed PROVE ContractKept'
    BY <2>4 DEF Succeed, MeetsContract, ContractKept, S
  <2>5. ASSUME Ends \/ EndStep \/ (\E t \in Tool : RegisterTool(t)) \/ UNCHANGED vars
        PROVE  UNCHANGED <<rec, cur, out>>
    BY <2>5 DEF Ends, WorkerEnds, EndStep, RegisterTool, stepVars, vars
  <2>6. rec' # "ok" \/ cur'.dry \/ UNCHANGED <<rec, cur, out>> => ContractKept'
    BY DEF ContractKept, S
  <2> QED
    BY StepCases, <2>1, <2>2, <2>3, <2>4, <2>5, <2>6, Zenon
<1> QED
  BY <1>1, <1>2, StepAlways, PTL DEF Spec

-----------------------------------------------------------------------------
(* The safety gate.                                                        *)

(* What the gate established of the acting tool.                           *)
Cleared ==
  /\ Effect[acting] <= ex.ceiling
  /\ acting \in NeedsApproval /\ (ex.strict \/ ex.approves) => acting \in approved

(* The way from the gate to a tool, and back to it for a retry; past the   *)
(* dry run nothing is a rehearsal.                                         *)
GateInv ==
  /\ pc \in {"guard", "dry", "lookup", "invoke"} \/ (pc = "wait" /\ ~fb) => Cleared
  /\ pc \in {"lookup", "invoke", "wait"} => ~Rehearsed

(* Every step keeps what the gate established.                             *)
LEMMA GateStep == StepInv /\ GateInv /\ [Next]_vars => GateInv'
<1> SUFFICES ASSUME StepInv, GateInv, [Next]_vars PROVE GateInv'
  OBVIOUS
<1>1. ASSUME GatePasses PROVE GateInv'
  <2>1. acting \in Tool /\ ex \in Executor /\ pc' \in {"dry", "guard"}
    BY <1>1, StepAssumption DEF GatePasses, StepInv, TypeOK, Shape, S
  <2>2. Effect[acting] \in Nat /\ ex.ceiling \in Nat
    BY <2>1, ToolAssumption, ExecutorAssumption
  <2>3. Effect[acting] <= ex.ceiling
    BY <1>1, <2>2 DEF GatePasses, AboveCeiling
  <2>4. acting \in NeedsApproval /\ (ex.strict \/ ex.approves) => acting \in approved'
    BY <1>1 DEF GatePasses, Unapprovable, Asks
  <2>5. UNCHANGED <<ex, acting>>
    BY <1>1 DEF GatePasses
  <2> QED
    BY <2>1, <2>3, <2>4, <2>5 DEF GateInv, Cleared
<1>2. ASSUME GuardPasses \/ RunForReal \/ CacheMiss \/ Invoke \/ Chunk \/ Ends
             \/ \E retryable \in BOOLEAN : AttemptFails(retryable)
      PROVE  GateInv'
  <2>1. UNCHANGED <<ex, acting, approved, cur, fb>>
    BY <1>2 DEF GuardPasses, RunForReal, CacheMiss, Invoke, Chunk, Ends, WorkerEnds,
                AttemptFails, stepVars
  <2>2. /\ pc' \in {"guard", "dry", "lookup", "invoke"} \/ (pc' = "wait" /\ ~fb) => Cleared
        /\ pc' \in {"lookup", "invoke", "wait"} => ~Rehearsed
    BY <1>2 DEF GuardPasses, RunForReal, CacheMiss, Invoke, Chunk, Ends, WorkerEnds,
                AttemptFails, GateInv
  <2> QED
    BY <2>1, <2>2 DEF GateInv, Cleared, Rehearsed
<1>3. ASSUME \/ Begins \/ Binds \/ Fails \/ StartStep \/ Stub \/ CacheHit \/ SkipStep \/ FallBack
             \/ Succeed \/ EndStep
             \/ \E v \in Value : Preview(v) \/ TakeResult(v)
             \/ \E t \in Tool : RegisterTool(t)
      PROVE  GateInv'
  <2>1. pc' \notin {"guard", "dry", "lookup", "invoke", "wait"}
    BY <1>3 DEF Begins, Begin, Binds, Bind, Fails, Fail, Finish, StartStep, Stub, CacheHit,
                SkipStep, FallBack, Succeed, EndStep, Preview, TakeResult, RegisterTool
  <2> QED
    BY <2>1 DEF GateInv
<1>4. CASE UNCHANGED vars
  BY <1>4 DEF vars, stepVars, GateInv, Cleared, Rehearsed
<1> QED
  BY StepCases, <1>1, <1>2, <1>3, <1>4, Zenon

(* No path to a tool avoids the safety gate (_evaluate_safety_gate): the   *)
(* primary, a decision's choice and a fallback are each cleared by it      *)
(* before a worker starts, and a rehearsal starts none that writes.        *)
THEOREM StepGated == Spec => NothingRunsUnapproved
<1>1. Init => GateInv
  BY DEF Init, GateInv
<1>2. StepInv /\ GateInv /\ [Next]_vars =>
        [\A t \in Tool : Runs(t) =>
           /\ Effect[t] <= ex.ceiling /\ (cur.dry => Effect[t] <= READ)
           /\ t \in NeedsApproval /\ (ex.strict \/ ex.approves) => t \in approved]_vars
  <2> SUFFICES ASSUME StepInv, GateInv, [Next]_vars, NEW t \in Tool, Runs(t)
               PROVE  /\ Effect[t] <= ex.ceiling /\ (cur.dry => Effect[t] <= READ)
                      /\ t \in NeedsApproval /\ (ex.strict \/ ex.approves) => t \in approved
    OBVIOUS
  <2>1. Len(worker) \in Nat /\ worker # worker'
    BY DEF StepInv, TypeOK, Runs
  <2>2. ~Begins
    BY <2>1 DEF Begins, Begin, Runs
  <2>3. ~Ends
    BY <2>1, EndsWorkers DEF Ends, Runs
  <2>4. ASSUME \/ Binds \/ Fails \/ StartStep \/ GatePasses \/ GuardPasses \/ RunForReal \/ Stub
               \/ CacheHit \/ CacheMiss \/ SkipStep \/ FallBack \/ Succeed \/ EndStep \/ Chunk
               \/ UNCHANGED vars
        PROVE  UNCHANGED worker
    BY <2>4
       DEF Binds, Bind, Fails, Fail, Finish, StartStep, GatePasses, GuardPasses, RunForReal,
                Stub, CacheHit, CacheMiss, SkipStep, FallBack, Succeed, EndStep, Chunk, stepVars,
                vars
  <2>5. ASSUME \/ \E v \in Value : Preview(v) \/ TakeResult(v)
               \/ \E retryable \in BOOLEAN : AttemptFails(retryable)
               \/ \E u \in Tool : RegisterTool(u)
        PROVE  UNCHANGED worker
    BY <2>5 DEF Preview, TakeResult, AttemptFails, RegisterTool, Finish, stepVars
  <2>6. Invoke
    BY StepCases, <2>1, <2>2, <2>3, <2>4, <2>5, Zenon
  <2>7. t = acting
    BY <2>6, InvokeWorkers DEF Runs
  <2>8. Cleared /\ ~Rehearsed /\ Effect[t] \in Nat
    BY <2>6, ToolAssumption DEF Invoke, GateInv
  <2> QED
    BY <2>7, <2>8 DEF Cleared, Rehearsed, READ
<1>3. Spec => []GateInv
  BY <1>1, GateStep, StepAlways, PTL DEF Spec
<1> QED
  BY <1>2, <1>3, StepAlways, PTL DEF Spec, NothingRunsUnapproved

-----------------------------------------------------------------------------
(* The lifecycle events.                                                   *)

(* The events of a step that has not ended.                                *)
Open ==
  /\ Len(events) <= MaxChunks + 1
  /\ \A i \in 1 .. Len(events) : events[i] = IF i = 1 THEN "start" ELSE "chunk"

EventInv ==
  /\ pc # "idle" => Open
  /\ pc \in {"decide", "precheck"} => Len(events) = 0
  /\ pc \notin {"decide", "precheck", "end", "idle"} => Len(events) > 0
  /\ EventsBracketed

(* What a step with a start and its chunks has fired when it ends.         *)
LEMMA Bracket ==
  ASSUME NEW e \in Seq(Event), NEW n \in Nat, Len(e) = n + 1,
         \A i \in 1 .. Len(e) : e[i] = IF i = 1 THEN "start" ELSE "chunk"
  PROVE  Append(e, "end") = <<"start">> \o [i \in 1 .. n |-> "chunk"] \o <<"end">>
<1> DEFINE c == [i \in 1 .. n |-> "chunk"]
           f == <<"start">> \o c \o <<"end">>
<1>1. c \in Seq(Event) /\ Len(c) = n /\ \A i \in 1 .. n : c[i] = "chunk"
  BY DEF Event
<1>2. "end" \in Event /\ "start" \in Event
  BY DEF Event
<1> HIDE DEF c
<1>3. /\ <<"start">> \o c \in Seq(Event) /\ Len(<<"start">> \o c) = n + 1
      /\ (<<"start">> \o c)[1] = "start"
      /\ \A i \in 2 .. n + 1 : (<<"start">> \o c)[i] = "chunk"
  BY <1>1, <1>2
<1>4. /\ f \in Seq(Event) /\ Len(f) = n + 2 /\ f[n + 2] = "end"
      /\ \A i \in 1 .. n + 1 : f[i] = (<<"start">> \o c)[i]
  BY <1>2, <1>3
<1>5. /\ Append(e, "end") \in Seq(Event) /\ Len(Append(e, "end")) = n + 2
      /\ Append(e, "end")[n + 2] = "end"
      /\ \A i \in 1 .. n + 1 : Append(e, "end")[i] = e[i]
  BY <1>2, AppendType
<1> HIDE DEF f
<1>6. \A i \in 1 .. n + 2 : Append(e, "end")[i] = f[i]
  <2> TAKE i \in 1 .. n + 2
  <2>1. CASE i = n + 2
    BY <1>4, <1>5, <2>1
  <2>2. CASE i \in 1 .. n + 1
    <3>1. Append(e, "end")[i] = e[i] /\ f[i] = (<<"start">> \o c)[i]
      BY <1>4, <1>5, <2>2
    <3>2. e[i] = IF i = 1 THEN "start" ELSE "chunk"
      BY <2>2
    <3>3. (<<"start">> \o c)[i] = IF i = 1 THEN "start" ELSE "chunk"
      BY <1>3, <2>2
    <3> QED
      BY <3>1, <3>2, <3>3
  <2> QED
    BY <2>1, <2>2
<1>7. Append(e, "end") = f
  BY <1>4, <1>5, <1>6
<1> QED
  BY <1>7 DEF f, c

(* Every step keeps the events in order.                                   *)
LEMMA EventStep == StepInv /\ EventInv /\ [Next]_vars => EventInv'
<1> SUFFICES ASSUME StepInv, EventInv, [Next]_vars PROVE EventInv'
  OBVIOUS
<1>t. /\ events \in Seq(Event) /\ Len(events) \in Nat /\ MaxChunks \in Nat /\ worker \in Seq(Worker)
      /\ "start" \in Event /\ "chunk" \in Event /\ "end" \in Event
  BY StepAssumption DEF StepInv, TypeOK, Event
<1>1. ASSUME Begins PROVE EventInv'
  BY <1>1, <1>t DEF Begins, Begin, EventInv, Open, EventsBracketed
<1>2. ASSUME StartStep PROVE EventInv'
  <2>1. events' \in Seq(Event) /\ Len(events') = 1 /\ events'[1] = "start"
    BY <1>2, <1>t, AppendType DEF StartStep, EventInv
  <2>2. pc' = "gate" /\ events' # <<>>
    BY <1>2, <2>1 DEF StartStep
  <2> QED
    BY <1>t, <2>1, <2>2 DEF EventInv, Open, EventsBracketed
<1>3. ASSUME Chunk PROVE EventInv'
  <2>1. /\ pc = "wait" /\ Len(events) <= MaxChunks /\ events' = Append(events, "chunk")
        /\ UNCHANGED <<pc, worker, steps>>
    BY <1>3 DEF Chunk
  <2>2. /\ events' \in Seq(Event) /\ Len(events') = Len(events) + 1
        /\ \A i \in 1 .. Len(events) : events'[i] = events[i]
        /\ events'[Len(events) + 1] = "chunk" /\ Len(events) > 0
    BY <1>t, <2>1, AppendType DEF EventInv
  <2>3. events' # <<>>
    BY <2>2
  <2>4. Open'
    BY <1>t, <2>1, <2>2 DEF EventInv, Open
  <2>5. events'[1] = "start"
    BY <1>t, <2>1, <2>2 DEF EventInv, Open
  <2> QED
    BY <1>t, <2>1, <2>2, <2>3, <2>4, <2>5 DEF EventInv, EventsBracketed
<1>4. ASSUME EndStep PROVE EventInv'
  <2>1. pc = "end" /\ pc' = "idle" /\ events' = Append(events, "end") /\ UNCHANGED worker
    BY <1>4 DEF EndStep
  <2>2. Open
    BY <2>1 DEF EventInv
  <2>3. CASE Len(events) = 0
    <3>1. events = <<>> /\ worker = <<>> /\ events' = <<"end">>
      BY <1>t, <2>1, <2>3 DEF EventInv, EventsBracketed
    <3> QED
      BY <1>t, <2>1, <3>1 DEF EventInv, EventsBracketed
  <2>4. CASE Len(events) > 0
    <3>1. /\ Len(events) - 1 \in 0 .. MaxChunks
          /\ events' = <<"start">> \o [i \in 1 .. Len(events) - 1 |-> "chunk"] \o <<"end">>
      BY <1>t, <2>1, <2>2, <2>4, Bracket DEF Open
    <3>2. events[1] = "start" /\ events'[1] = events[1] /\ events' # <<>>
      BY <1>t, <2>1, <2>2, <2>4, AppendType DEF Open
    <3>3. \E n \in 0 .. MaxChunks :
            events' \in {<<"end">>, <<"start">> \o [i \in 1 .. n |-> "chunk"] \o <<"end">>}
      BY <3>1
    <3> QED
      BY <2>1, <3>2, <3>3 DEF EventInv, EventsBracketed
  <2> QED
    BY <1>t, <2>3, <2>4
<1>5. ASSUME Invoke \/ Ends PROVE EventInv'
  <2>1. UNCHANGED <<events, steps>> /\ (pc = "idle" <=> pc' = "idle")
    BY <1>5 DEF Invoke, Ends, WorkerEnds
  <2>2. events # <<>> /\ events[1] = "start"
    <3>1. CASE Invoke
      BY <1>t, <3>1 DEF Invoke, EventInv, Open
    <3>2. CASE Ends
      BY <3>2 DEF Ends, WorkerEnds, EventInv, EventsBracketed
    <3> QED
      BY <1>5, <3>1, <3>2
  <2>3. pc' = pc \/ (pc = "invoke" /\ pc' = "wait")
    BY <1>5 DEF Invoke, Ends, WorkerEnds
  <2> QED
    BY <2>1, <2>2, <2>3 DEF EventInv, Open, EventsBracketed
<1>6. ASSUME UNCHANGED <<events, worker, steps>>, pc' = "idle" <=> pc = "idle",
             \/ pc \notin {"decide", "precheck", "end", "idle"} /\ pc' \notin {"decide", "precheck"}
             \/ pc \in {"decide", "precheck"} /\ pc' \in {"decide", "precheck", "end"}
             \/ pc' = pc
      PROVE  EventInv'
  BY <1>6 DEF EventInv, Open, EventsBracketed
<1>7. ASSUME \/ Binds \/ Fails \/ GatePasses \/ GuardPasses \/ RunForReal \/ Stub
             \/ CacheHit \/ CacheMiss \/ SkipStep \/ FallBack \/ Succeed
             \/ \E v \in Value : Preview(v) \/ TakeResult(v)
             \/ \E retryable \in BOOLEAN : AttemptFails(retryable)
             \/ \E t \in Tool : RegisterTool(t)
             \/ UNCHANGED vars
      PROVE  EventInv'
  <2>1. UNCHANGED <<events, worker, steps>> /\ (pc' = "idle" <=> pc = "idle")
    BY <1>7 DEF Binds, Bind, Fails, Fail, Finish, GatePasses, GuardPasses, RunForReal, Stub,
                CacheHit, CacheMiss, SkipStep, FallBack, Succeed, MeetsContract, Preview,
                TakeResult, AttemptFails, RegisterTool, stepVars, vars
  <2>2. \/ pc \notin {"decide", "precheck", "end", "idle"} /\ pc' \notin {"decide", "precheck"}
        \/ pc \in {"decide", "precheck"} /\ pc' \in {"decide", "precheck", "end"}
        \/ pc' = pc
    BY <1>7 DEF Binds, Bind, Fails, Fail, Finish, Place, GatePasses, GuardPasses, RunForReal,
                Stub, CacheHit, CacheMiss, SkipStep, FallBack, Succeed, MeetsContract, Preview,
                TakeResult, AttemptFails, RegisterTool, stepVars, vars
  <2> QED
    BY <1>6, <2>1, <2>2
<1> QED
  BY StepCases, <1>1, <1>2, <1>3, <1>4, <1>5, <1>7, Zenon

(* A step fires on_step_end once and last, everything else it fires lies   *)
(* between on_step_start and on_step_end, and no tool is invoked before    *)
(* on_step_start (_execute_step, _finish).                                 *)
THEOREM StepEvents == Spec => []EventsBracketed
<1>1. Init => EventInv
  BY DEF Init, EventInv, EventsBracketed
<1>2. EventInv => EventsBracketed
  BY Zenon DEF EventInv
<1> QED
  BY <1>1, <1>2, EventStep, StepAlways, PTL DEF Spec

-----------------------------------------------------------------------------
(* The promise.                                                            *)

(* A step that ends has an outcome its on_error policy allows.             *)
Kept == pc = "end" => rec \in Promise!Allowed(S, cur.dry)

(* Every step keeps that.                                                  *)
LEMMA KeptStep == StepInv /\ Kept /\ [Next]_vars => Kept'
<1> SUFFICES ASSUME StepInv, Kept, [Next]_vars PROVE Kept'
  OBVIOUS
<1>1. ASSUME Fails \/ Succeed PROVE Kept'
  BY <1>1 DEF Fails, Fail, Finish, Succeed, Kept, Promise!Allowed
<1>2. ASSUME Stub \/ SkipStep PROVE Kept'
  BY <1>2 DEF Stub, SkipStep, Finish, Rehearsed, Kept, Promise!Allowed, S
<1>3. ASSUME NEW v \in Value, Preview(v) \/ TakeResult(v) PROVE Kept'
  BY <1>3 DEF Preview, TakeResult, Finish, Kept, Promise!Allowed, StepInv, Shape, S
<1>4. ASSUME Begins \/ CacheHit \/ Invoke \/ EndStep PROVE Kept'
  BY <1>4 DEF Begins, Begin, CacheHit, Invoke, EndStep, Kept
<1>5. ASSUME \/ Binds \/ StartStep \/ GatePasses \/ GuardPasses \/ RunForReal \/ CacheMiss
             \/ FallBack \/ Chunk \/ \E retryable \in BOOLEAN : AttemptFails(retryable)
      PROVE  Kept'
  BY <1>5, QuietSteps DEF Kept
<1>6. ASSUME Ends \/ (\E t \in Tool : RegisterTool(t)) \/ UNCHANGED vars PROVE Kept'
  BY <1>6 DEF Ends, WorkerEnds, RegisterTool, stepVars, vars, Kept, S
<1> QED
  BY StepCases, <1>1, <1>2, <1>3, <1>4, <1>5, <1>6, Zenon

(* The pipeline implements StepPromise: a step in hand stays in hand until *)
(* it ends with one record, whose outcome the policy allows.               *)
THEOREM StepKeepsPromise == Spec => RefinesStepPromise
<1>1. Init => Promise!Init /\ Kept
  BY DEF Init, Promise!Init, Kept
<1>2. StepInv /\ Kept /\ [Next]_vars => [Promise!Next]_(Promise!vars)
  <2> SUFFICES ASSUME StepInv, Kept, [Next]_vars
               PROVE  Promise!Begin \/ Promise!End \/ UNCHANGED Promise!vars
    BY DEF Promise!Next
  <2>1. ASSUME Begins PROVE Promise!Begin
    BY <2>1, ToolAssumption DEF Begins, Begin, Promise!Begin, S, None
  <2>2. ASSUME EndStep PROVE Promise!End
    <3>1. pc = "end" /\ pc' = "idle" /\ UNCHANGED rec /\ S # "none" /\ cur.dry \in BOOLEAN
      BY <2>2, ToolAssumption DEF EndStep, StepInv, TypeOK, Shape, S, None
    <3>2. rec \in Promise!Allowed(S, cur.dry) /\ (pc # "idle" /\ cur.dry) = cur.dry
      BY <3>1 DEF Kept
    <3> QED
      BY <3>1, <3>2 DEF Promise!End
  <2>3. ASSUME UNCHANGED cur, pc # "idle", pc' # "idle" PROVE UNCHANGED Promise!vars
    BY <2>3 DEF Promise!vars, S
  <2>4. ASSUME UNCHANGED <<cur, pc, rec>> PROVE UNCHANGED Promise!vars
    BY <2>4 DEF Promise!vars, S
  <2>5. ASSUME \/ Binds \/ Fails \/ StartStep \/ GatePasses \/ GuardPasses \/ RunForReal \/ Stub
               \/ CacheHit \/ CacheMiss \/ Invoke \/ SkipStep \/ FallBack \/ Succeed \/ Chunk
        PROVE  UNCHANGED cur /\ pc # "idle" /\ pc' # "idle"
    BY <2>5
       DEF Binds, Bind, Fails, Fail, Finish, StartStep, GatePasses, GuardPasses, RunForReal,
                Stub, CacheHit, CacheMiss, Invoke, SkipStep, FallBack, Succeed, MeetsContract,
                Chunk, stepVars
  <2>6. ASSUME \/ \E v \in Value : Preview(v) \/ TakeResult(v)
               \/ \E retryable \in BOOLEAN : AttemptFails(retryable)
        PROVE  UNCHANGED cur /\ pc # "idle" /\ pc' # "idle"
    BY <2>6 DEF Preview, TakeResult, AttemptFails, Finish, stepVars
  <2>7. ASSUME Ends \/ (\E t \in Tool : RegisterTool(t)) \/ UNCHANGED vars
        PROVE  UNCHANGED <<cur, pc, rec>>
    BY <2>7 DEF Ends, WorkerEnds, RegisterTool, stepVars, vars
  <2> QED
    BY StepCases, <2>1, <2>2, <2>3, <2>4, <2>5, <2>6, <2>7, Zenon
<1>3. Spec => []Kept
  BY <1>1, KeptStep, StepAlways, PTL DEF Spec
<1> QED
  BY <1>1, <1>2, <1>3, StepAlways, PTL DEF Spec, RefinesStepPromise, Promise!Spec

=============================================================================
