---------------------------- MODULE EvidenceProofs ----------------------------
(***************************************************************************)
(* That what the harnesses say of a flow is true: fuzz, attest and         *)
(* record_then_replay, for every set of keys, inputs and bad inputs, every *)
(* number of cases, repeats and shrinking rounds, and every test, its      *)
(* tools, its calls and its sessions.                                      *)
(***************************************************************************)
EXTENDS Evidence, FiniteSetTheorems, SequenceTheorems, WellFoundedInduction, TLAPS

-----------------------------------------------------------------------------
(* Fuzzing: what is shrunk.                                                *)

(* A nonempty set of numbers has a least one.                              *)
LEMMA LeastIs ==
  ASSUME NEW T \in SUBSET Nat, T # {}
  PROVE  \E x \in T : \A y \in T : x <= y
<1> DEFINE R == OpToRel(<, Nat)
<1>1. IsWellFoundedOn(R, Nat)
  BY NatLessThanWellFounded
<1>2. \A y, z \in Nat : y < z => <<y, z>> \in R
  BY DEF OpToRel
<1> HIDE DEF R
<1>3. PICK x \in T : \A y \in T : ~(<<y, x>> \in R)
  BY <1>1, WFMin
<1>4. \A y \in T : x <= y
  <2>1. ASSUME NEW y \in T PROVE x <= y
    <3>1. x \in Nat /\ y \in Nat
      OBVIOUS
    <3>2. ~(y < x)
      BY <1>2, <1>3, <3>1
    <3> QED
      BY <3>1, <3>2
  <2> QED
    BY <2>1
<1> QED
  BY <1>4

LEMMA MinIsIn ==
  ASSUME NEW T \in SUBSET Nat, T # {}
  PROVE  Min(T) \in T
BY LeastIs DEF Min

LEMMA DroppedMeans ==
  ASSUME NEW in, NEW k
  PROVE  /\ DOMAIN Dropped(in, k) = DOMAIN in \ {k}
         /\ \A j \in DOMAIN in \ {k} : Dropped(in, k)[j] = in[j]
BY DEF Dropped

LEMMA ReplacedMeans ==
  ASSUME NEW in, NEW k \in DOMAIN in, NEW v
  PROVE  /\ DOMAIN Replaced(in, k, v) = DOMAIN in
         /\ \A j \in DOMAIN in : Replaced(in, k, v)[j] = IF j = k THEN v ELSE in[j]
BY DEF Replaced

(* A reduction of an input no larger than the failing one is no larger.    *)
LEMMA ReducedIsSmaller ==
  ASSUME NEW in, NEW from, NEW c, NoLargerThan(in, from), NEW k \in DOMAIN in,
         c = Dropped(in, k) \/ \E v \in SimplerValues(in[k]) : c = Replaced(in, k, v)
  PROVE  NoLargerThan(c, from)
<1>1. CASE c = Dropped(in, k)
  <2>1. DOMAIN c = DOMAIN in \ {k} /\ \A j \in DOMAIN c : c[j] = in[j]
    BY <1>1, DroppedMeans
  <2> QED
    BY <2>1 DEF NoLargerThan
<1>2. CASE \E v \in SimplerValues(in[k]) : c = Replaced(in, k, v)
  <2>1. PICK v \in SimplerValues(in[k]) : c = Replaced(in, k, v)
    BY <1>2
  <2>2. in[k] = "rich" /\ v = "simple"
    BY <2>1 DEF SimplerValues
  <2>3. in[k] = from[k]
    BY <2>2 DEF NoLargerThan, SimplerValues
  <2> QED
    BY <2>1, <2>2, <2>3, ReplacedMeans DEF NoLargerThan, SimplerValues
<1> QED
  BY <1>1, <1>2

-----------------------------------------------------------------------------
(* The inductive invariant.                                                *)

Fuzzing == {"run", "report", "shrink"}

EvidenceShape ==
  /\ cases \in Seq(FuzzInputs) /\ failures \in Seq([case : Nat, input : FuzzInputs])
  /\ caseAt \in Nat
  /\ runsOf \in Seq(Seq(AttestOutputs \cup {"failed"}))
  /\ harness \in {"idle", "attest"} => cases = <<>>
  /\ harness \in {"idle", "build"} => failures = <<>> /\ caseAt = 0
  /\ harness \in Fuzzing => cases # <<>>
  /\ harness = "run" => caseAt <= Len(cases)
  /\ harness = "report" => caseAt <= Len(failures)
  /\ harness = "shrink" => caseAt < Len(failures)

(* The cases that have run.                                                *)
Ran == IF harness = "run" THEN 1 .. caseAt ELSE IF harness = "build" THEN {} ELSE DOMAIN cases

CasesInv ==
  harness \in Fuzzing =>
    /\ \A i \in Ran : ~options.faults /\ cases[i] \in bad => failures # <<>>
    /\ \A i \in DOMAIN failures : options.faults \/ failures[i].input \in bad

SavedInv ==
  harness \in {"report", "shrink"} =>
    \A i \in 1 .. caseAt :
      \E t \in saved : t.case = failures[i].case /\ (options.faults \/ t.input \in bad)

(* No reduction tried in this round violates the property.                 *)
Tried ==
  /\ shrink.pass = "remove" =>
       \A k \in DOMAIN shrink.cur \ shrink.todo : Dropped(shrink.cur, k) \notin bad
  /\ shrink.pass = "simplify" =>
       /\ \A k \in DOMAIN shrink.cur : Dropped(shrink.cur, k) \notin bad
       /\ \A k \in DOMAIN shrink.cur \ shrink.todo : \A v \in SimplerValues(shrink.cur[k]) :
            Replaced(shrink.cur, k, v) \notin bad

ShrinkInv ==
  harness = "shrink" =>
    /\ DOMAIN shrink = {"cur", "pass", "todo", "changed", "round"}
    /\ shrink.pass \in {"remove", "simplify"}
    /\ shrink.changed \in BOOLEAN
    /\ DOMAIN shrink.cur \subseteq FuzzKeys /\ shrink.todo \subseteq DOMAIN shrink.cur
    /\ shrink.cur \in bad /\ NoLargerThan(shrink.cur, failures[caseAt + 1].input)
    /\ ~shrink.changed => Tried

AttestInv ==
  harness = "attest" =>
    /\ requested.runs \in Nat /\ requested.repeats \in Nat /\ requested.repeats > 1
    /\ \A i \in 1 .. Len(runsOf) : Len(runsOf[i]) <= requested.repeats
    /\ \A i \in 1 .. Len(runsOf) - 1 : Attested(runsOf[i])

EvidenceInv ==
  /\ EvidenceShape /\ CasesInv /\ SavedInv /\ ShrinkInv /\ AttestInv
  /\ FuzzReportIsTrue /\ AttestationIsTrue

LEMMA ShrunkMinimal ==
  ASSUME EvidenceInv
  PROVE  ShrunkIsMinimal
<1> SUFFICES ASSUME harness = "shrink"
             PROVE  /\ Violates(shrink.cur) /\ NoLargerThan(shrink.cur, Failure.input)
                    /\ RoundOver /\ ~shrink.changed => Reductions(shrink.cur) \cap bad = {}
  BY DEF ShrunkIsMinimal
<1>1. Violates(shrink.cur) /\ NoLargerThan(shrink.cur, Failure.input)
  BY DEF EvidenceInv, ShrinkInv, Violates, Failure
<1>2. ASSUME RoundOver, ~shrink.changed, NEW c \in Reductions(shrink.cur)
      PROVE  c \notin bad
  <2>1. /\ \A k \in DOMAIN shrink.cur : Dropped(shrink.cur, k) \notin bad
        /\ \A k \in DOMAIN shrink.cur : \A v \in SimplerValues(shrink.cur[k]) :
             Replaced(shrink.cur, k, v) \notin bad
    BY <1>2 DEF EvidenceInv, ShrinkInv, Tried, RoundOver
  <2> QED
    BY <1>2, <2>1 DEF Reductions
<1> QED
  BY <1>1, <1>2

LEMMA EvidenceStarts ==
  ASSUME EvidenceInit
  PROVE  EvidenceInv
<1>1. /\ harness = "idle" /\ cases = <<>> /\ failures = <<>> /\ caseAt = 0 /\ runsOf = <<>>
  BY DEF EvidenceInit
<1> QED
  BY <1>1 DEF EvidenceInv, EvidenceShape, CasesInv, SavedInv, ShrinkInv, AttestInv,
              FuzzReportIsTrue, AttestationIsTrue, Fuzzing

(* A command that is over: what is left to show is that its report is true. *)
LEMMA Over ==
  ASSUME EvidenceInv, harness' = "done", UNCHANGED <<cases, caseAt>>,
         failures' = failures \/ failures' = <<>>,
         runsOf' = runsOf \/ runsOf' = <<>>,
         FuzzReportIsTrue', AttestationIsTrue'
  PROVE  EvidenceInv'
<1>1. EvidenceShape'
  <2>0. /\ cases \in Seq(FuzzInputs) /\ failures \in Seq([case : Nat, input : FuzzInputs])
        /\ caseAt \in Nat /\ runsOf \in Seq(Seq(AttestOutputs \cup {"failed"}))
    BY DEF EvidenceInv, EvidenceShape
  <2> DEFINE F == [case : Nat, input : FuzzInputs]
             R == Seq(AttestOutputs \cup {"failed"})
  <2>1. cases' \in Seq(FuzzInputs) /\ failures' \in Seq(F) /\ caseAt' \in Nat /\ runsOf' \in Seq(R)
    <3>1. failures \in Seq(F) /\ runsOf \in Seq(R)
      BY <2>0
    <3> HIDE DEF F, R
    <3>2. <<>> \in Seq(F) /\ <<>> \in Seq(R)
      OBVIOUS
    <3> QED
      BY <2>0, <3>1, <3>2
  <2> QED
    BY <2>1 DEF EvidenceShape, Fuzzing
<1> QED
  BY <1>1 DEF EvidenceInv, CasesInv, SavedInv, ShrinkInv, AttestInv, Fuzzing

LEMMA CommandStep ==
  ASSUME EvidenceInv,
         \/ \E o \in FuzzOptions : FuzzCommand(o)
         \/ RunCases \/ Report
  PROVE  EvidenceInv'
<1>1. ASSUME NEW o \in FuzzOptions, FuzzCommand(o) PROVE EvidenceInv'
  BY <1>1 DEF FuzzCommand, EvidenceInv, EvidenceShape, CasesInv, SavedInv, ShrinkInv, AttestInv,
              FuzzReportIsTrue, AttestationIsTrue, Fuzzing
<1>2. ASSUME RunCases PROVE EvidenceInv'
  <2>1. /\ harness = "build" /\ cases # <<>> /\ harness' = "run" /\ failures = <<>> /\ caseAt = 0
        /\ UNCHANGED <<bad, options, cases, failures, caseAt, shrink, saved, requested, runsOf>>
    BY <1>2 DEF RunCases, EvidenceInv, EvidenceShape
  <2>2. EvidenceShape'
    BY <2>1 DEF EvidenceInv, EvidenceShape, Fuzzing
  <2>3. CasesInv'
    BY <2>1 DEF CasesInv, Ran
  <2> QED
    BY <2>1, <2>2, <2>3 DEF EvidenceInv, SavedInv, ShrinkInv, AttestInv, FuzzReportIsTrue,
                            AttestationIsTrue
<1>3. ASSUME Report PROVE EvidenceInv'
  <2>1. /\ harness = "run" /\ caseAt = Len(cases) /\ harness' = "report" /\ caseAt' = 0
        /\ UNCHANGED <<bad, options, cases, failures, shrink, saved, requested, runsOf>>
    BY <1>3 DEF Report
  <2>2. EvidenceShape'
    BY <2>1 DEF EvidenceInv, EvidenceShape, Fuzzing
  <2>3. CasesInv'
    <3>1. Ran = DOMAIN cases /\ Ran' = DOMAIN cases
      BY <2>1 DEF Ran, EvidenceInv, EvidenceShape
    <3> QED
      BY <2>1, <3>1 DEF CasesInv, EvidenceInv, Fuzzing
  <2> QED
    BY <2>1, <2>2, <2>3 DEF EvidenceInv, SavedInv, ShrinkInv, AttestInv, FuzzReportIsTrue,
                            AttestationIsTrue
<1> QED
  BY <1>1, <1>2, <1>3

LEMMA CaseStep ==
  ASSUME EvidenceInv,
         \/ \E in \in FuzzInputs : BuildCase(in)
         \/ \E v \in BOOLEAN : ExecuteCase(v)
  PROVE  EvidenceInv'
<1>1. ASSUME NEW in \in FuzzInputs, BuildCase(in) PROVE EvidenceInv'
  <2>1. /\ harness = "build" /\ cases' = Append(cases, in) /\ harness' = "build"
        /\ UNCHANGED <<bad, options, failures, caseAt, shrink, saved, requested, runsOf>>
    BY <1>1 DEF BuildCase
  <2>2. cases' \in Seq(FuzzInputs)
    BY <2>1 DEF EvidenceInv, EvidenceShape
  <2>3. EvidenceShape'
    BY <2>1, <2>2 DEF EvidenceInv, EvidenceShape, Fuzzing
  <2> QED
    BY <2>1, <2>3 DEF EvidenceInv, CasesInv, SavedInv, ShrinkInv, AttestInv, FuzzReportIsTrue,
                      AttestationIsTrue, Fuzzing
<1>2. ASSUME NEW v \in BOOLEAN, ExecuteCase(v) PROVE EvidenceInv'
  <2>1. PICK n, in : n = caseAt + 1 /\ in = cases[n]
    OBVIOUS
  <2>2. /\ harness = "run" /\ caseAt < Len(cases) /\ v \in Violated(in)
        /\ failures' = IF v THEN Append(failures, [case |-> caseAt, input |-> in]) ELSE failures
        /\ caseAt' = n /\ harness' = "run"
        /\ UNCHANGED <<bad, options, cases, shrink, saved, requested, runsOf>>
    BY <1>2, <2>1 DEF ExecuteCase
  <2>3. /\ cases \in Seq(FuzzInputs) /\ failures \in Seq([case : Nat, input : FuzzInputs])
        /\ caseAt \in Nat /\ cases # <<>>
    BY <2>2 DEF EvidenceInv, EvidenceShape, Fuzzing
  <2>4. n \in DOMAIN cases /\ n \in Nat /\ n <= Len(cases) /\ in \in FuzzInputs
    BY <2>1, <2>2, <2>3
  <2>5. /\ failures' \in Seq([case : Nat, input : FuzzInputs])
        /\ v => failures' # <<>>
        /\ \A i \in DOMAIN failures' :
             (i \in DOMAIN failures /\ failures'[i] = failures[i]) \/ (v /\ failures'[i].input = in)
    <3>1. CASE ~v
      BY <2>2, <2>3, <3>1
    <3>2. CASE v
      <4>1. PICK f, g, x : f = failures /\ g = failures' /\ x = [case |-> caseAt, input |-> in]
        OBVIOUS
      <4>2. x \in [case : Nat, input : FuzzInputs] /\ x.input = in
        BY <2>3, <2>4, <4>1
      <4>3. f \in Seq([case : Nat, input : FuzzInputs]) /\ g = Append(f, x)
        BY <2>2, <2>3, <3>2, <4>1
      <4>4. /\ g \in Seq([case : Nat, input : FuzzInputs]) /\ Len(g) = Len(f) + 1
            /\ Len(f) \in Nat /\ g[Len(f) + 1] = x
            /\ \A i \in 1 .. Len(f) : g[i] = f[i]
        BY <4>2, <4>3
      <4>5. DOMAIN g = 1 .. Len(f) + 1 /\ DOMAIN f = 1 .. Len(f) /\ g # <<>>
        BY <4>3, <4>4
      <4>6. \A i \in DOMAIN g : (i \in DOMAIN f /\ g[i] = f[i]) \/ g[i] = x
        BY <4>4, <4>5
      <4> QED
        BY <3>2, <4>1, <4>2, <4>4, <4>5, <4>6
    <3> QED
      BY <3>1, <3>2
  <2>6. EvidenceShape'
    BY <2>2, <2>3, <2>4, <2>5 DEF EvidenceInv, EvidenceShape, Fuzzing
  <2>7. options.faults \/ (v <=> in \in bad)
    BY <2>2 DEF Violated
  <2>8. CasesInv'
    <3>1. ASSUME NEW i \in Ran', ~options.faults, cases[i] \in bad PROVE failures' # <<>>
      <4>1. i \in 1 .. n
        BY <2>2, <3>1 DEF Ran
      <4>2. CASE i = n
        BY <2>1, <2>5, <2>7, <3>1, <4>2
      <4>3. CASE i # n
        <5>1. i \in Ran
          BY <2>1, <2>2, <2>3, <4>1, <4>3 DEF Ran
        <5>2. failures # <<>>
          BY <2>2, <3>1, <5>1 DEF EvidenceInv, CasesInv, Fuzzing
        <5>3. v \/ failures' = failures
          BY <2>2
        <5> QED
          BY <2>5, <5>2, <5>3
      <4> QED
        BY <4>2, <4>3
    <3>2. ASSUME NEW i \in DOMAIN failures' PROVE options.faults \/ failures'[i].input \in bad
      BY <2>2, <2>5, <2>7 DEF EvidenceInv, CasesInv, Fuzzing
    <3> QED
      BY <2>2, <3>1, <3>2 DEF CasesInv
  <2> QED
    BY <2>2, <2>6, <2>8 DEF EvidenceInv, SavedInv, ShrinkInv, AttestInv, FuzzReportIsTrue,
                            AttestationIsTrue
<1> QED
  BY <1>1, <1>2

-----------------------------------------------------------------------------
(* minimize_failure.                                                       *)

(* What a step of the shrinker leaves as it is.                            *)
LEMMA ShrinkStep ==
  ASSUME EvidenceInv, harness = "shrink", harness' = "shrink",
         UNCHANGED <<bad, options, cases, failures, caseAt, saved, requested, runsOf>>, ShrinkInv'
  PROVE  EvidenceInv'
<1>1. EvidenceShape'
  BY DEF EvidenceInv, EvidenceShape, Fuzzing
<1>2. CasesInv' /\ SavedInv'
  BY DEF EvidenceInv, CasesInv, SavedInv, Ran, Fuzzing
<1> QED
  BY <1>1, <1>2 DEF EvidenceInv, AttestInv, FuzzReportIsTrue, AttestationIsTrue

LEMMA TryKeyStep ==
  ASSUME EvidenceInv, TryKey
  PROVE  EvidenceInv'
<1>1. /\ harness = "shrink" /\ shrink.todo # {} /\ harness' = "shrink"
      /\ UNCHANGED <<bad, options, cases, failures, caseAt, saved, requested, runsOf>>
  BY DEF TryKey
<1>2. PICK s, cur, todo, from : s = shrink' /\ cur = shrink.cur /\ todo = shrink.todo
                                /\ from = failures[caseAt + 1].input
  OBVIOUS
<1>3. /\ DOMAIN shrink = {"cur", "pass", "todo", "changed", "round"}
      /\ shrink.pass \in {"remove", "simplify"} /\ shrink.changed \in BOOLEAN
      /\ DOMAIN cur \subseteq FuzzKeys /\ todo \subseteq DOMAIN cur
      /\ cur \in bad /\ NoLargerThan(cur, from)
      /\ ~shrink.changed => Tried
  BY <1>1, <1>2 DEF EvidenceInv, ShrinkInv
<1>4. PICK k : k = Min(todo)
  OBVIOUS
<1>5. k \in todo /\ k \in DOMAIN cur
  BY <1>1, <1>2, <1>3, <1>4, MinIsIn, EvidenceAssumption
<1>6. PICK kept : kept = {c \in Shrinks(k) : Keeps(c)}
  OBVIOUS
<1>7. PICK new : new = CHOOSE c \in kept : TRUE
  OBVIOUS
<1>8. /\ DOMAIN s = {"cur", "pass", "todo", "changed", "round"}
      /\ s.cur = (IF kept = {} THEN cur ELSE new)
      /\ s.pass = shrink.pass /\ s.todo = todo \ {k}
      /\ s.changed <=> (shrink.changed \/ kept # {})
      /\ s.changed \in BOOLEAN
  <2>1. PICK old, ch, nc : /\ old = shrink /\ ch = (shrink.changed \/ kept # {})
                          /\ nc = (IF kept = {} THEN cur ELSE new)
    OBVIOUS
  <2>2. s = [old EXCEPT !.cur = nc, !.changed = ch, !.todo = todo \ {k}]
    BY <1>2, <1>4, <1>6, <1>7, <2>1, Zenon DEF TryKey
  <2>3. ch \in BOOLEAN /\ (ch <=> (shrink.changed \/ kept # {}))
    BY <1>3, <2>1
  <2>4. DOMAIN old = {"cur", "pass", "todo", "changed", "round"} /\ old.pass = shrink.pass
    BY <1>3, <2>1
  <2>5. /\ DOMAIN s = {"cur", "pass", "todo", "changed", "round"}
        /\ s.cur = nc /\ s.pass = old.pass /\ s.todo = todo \ {k} /\ s.changed = ch
    BY <2>2, <2>4
  <2> QED
    BY <2>1, <2>3, <2>4, <2>5
<1>9. \A c \in Shrinks(k) :
        c = Dropped(cur, k) \/ \E v \in SimplerValues(cur[k]) : c = Replaced(cur, k, v)
  BY <1>2, <1>3 DEF Shrinks
<1>10. CASE kept # {}
  <2>1. new \in kept
    BY <1>7, <1>10
  <2>2. new \in bad /\ new \in Shrinks(k)
    BY <1>6, <2>1 DEF Keeps, Violates
  <2>3. NoLargerThan(new, from)
    BY <1>3, <1>5, <1>9, <2>2, ReducedIsSmaller
  <2>4. DOMAIN new \subseteq DOMAIN cur /\ todo \ {k} \subseteq DOMAIN new
    <3>1. CASE new = Dropped(cur, k)
      <4>1. DOMAIN new = DOMAIN cur \ {k}
        BY <3>1, DroppedMeans
      <4>2. todo \subseteq DOMAIN cur
        BY <1>3
      <4> QED
        BY <4>1, <4>2
    <3>2. CASE \E v \in SimplerValues(cur[k]) : new = Replaced(cur, k, v)
      <4>1. PICK v : new = Replaced(cur, k, v)
        BY <3>2
      <4>2. DOMAIN new = DOMAIN cur
        BY <1>5, <4>1, ReplacedMeans
      <4> QED
        BY <1>3, <4>2
    <3> QED
      BY <1>9, <2>2, <3>1, <3>2
  <2>5. ShrinkInv'
    BY <1>1, <1>2, <1>3, <1>8, <1>10, <2>2, <2>3, <2>4 DEF ShrinkInv
  <2> QED
    BY <1>1, <2>5, ShrinkStep
<1>11. CASE kept = {}
  <2>1. \A c \in Shrinks(k) : c \notin bad
    BY <1>6, <1>11 DEF Keeps, Violates
  <2>2. s.cur = cur
    BY <1>8, <1>11
  <2>3. shrink.pass = "remove" => Dropped(cur, k) \notin bad
    BY <1>2, <2>1 DEF Shrinks
  <2>4. shrink.pass = "simplify" => \A v \in SimplerValues(cur[k]) : Replaced(cur, k, v) \notin bad
    BY <1>2, <2>1 DEF Shrinks
  <2>5. ASSUME ~s.changed PROVE Tried'
    <3>1. Tried /\ bad' = bad
      BY <1>1, <1>3, <1>8, <2>5
    <3>2. s.pass = "remove" => \A x \in DOMAIN s.cur \ s.todo : Dropped(s.cur, x) \notin bad
      BY <1>2, <1>8, <2>2, <2>3, <3>1 DEF Tried
    <3>3. s.pass = "simplify" => \A x \in DOMAIN s.cur : Dropped(s.cur, x) \notin bad
      BY <1>2, <1>8, <2>2, <3>1 DEF Tried
    <3>4. s.pass = "simplify" =>
            \A x \in DOMAIN s.cur \ s.todo : \A v \in SimplerValues(s.cur[x]) :
              Replaced(s.cur, x, v) \notin bad
      BY <1>2, <1>8, <2>2, <2>4, <3>1 DEF Tried
    <3> QED
      BY <1>2, <3>1, <3>2, <3>3, <3>4 DEF Tried
  <2>6. ShrinkInv'
    BY <1>1, <1>2, <1>3, <1>8, <2>2, <2>5 DEF ShrinkInv
  <2> QED
    BY <1>1, <2>6, ShrinkStep
<1> QED
  BY <1>10, <1>11

LEMMA PassStep ==
  ASSUME EvidenceInv, EndPass \/ NextRound
  PROVE  EvidenceInv'
<1>1. /\ harness = "shrink" /\ shrink.todo = {} /\ harness' = "shrink"
      /\ UNCHANGED <<bad, options, cases, failures, caseAt, saved, requested, runsOf>>
  BY DEF EndPass, NextRound, RoundOver
<1>2. PICK s : s = shrink'
  OBVIOUS
<1>3. /\ DOMAIN shrink = {"cur", "pass", "todo", "changed", "round"}
      /\ shrink.changed \in BOOLEAN /\ (~shrink.changed => Tried)
  BY <1>1 DEF EvidenceInv, ShrinkInv
<1>4. CASE EndPass
  <2>1. /\ DOMAIN s = {"cur", "pass", "todo", "changed", "round"}
        /\ s.cur = shrink.cur /\ s.pass = "simplify" /\ s.todo = DOMAIN shrink.cur
        /\ s.changed = shrink.changed
    BY <1>2, <1>3, <1>4 DEF EndPass
  <2>2. ASSUME ~s.changed PROVE Tried'
    <3>1. \A k \in DOMAIN s.cur : Dropped(s.cur, k) \notin bad
      BY <1>1, <1>3, <1>4, <2>1, <2>2 DEF Tried, EndPass
    <3> QED
      BY <1>1, <1>2, <2>1, <3>1 DEF Tried
  <2>3. ShrinkInv'
    BY <1>1, <1>2, <1>3, <2>1, <2>2 DEF ShrinkInv, EvidenceInv
  <2> QED
    BY <1>1, <2>3, ShrinkStep
<1>5. CASE NextRound
  <2>1. /\ DOMAIN s = {"cur", "pass", "todo", "changed", "round"}
        /\ s.cur = shrink.cur /\ s.pass = "remove" /\ s.todo = DOMAIN shrink.cur
        /\ s.changed = FALSE
    BY <1>2, <1>3, <1>5 DEF NextRound
  <2>2. Tried'
    BY <1>2, <2>1 DEF Tried
  <2>3. ShrinkInv'
    BY <1>1, <1>2, <1>3, <2>1, <2>2 DEF ShrinkInv, EvidenceInv
  <2> QED
    BY <1>1, <2>3, ShrinkStep
<1> QED
  BY <1>4, <1>5

LEMMA StartShrinkStep ==
  ASSUME EvidenceInv, StartShrink
  PROVE  EvidenceInv'
<1>1. /\ harness = "report" /\ caseAt < Len(failures)
      /\ UNCHANGED <<bad, options, cases, failures, caseAt, saved, requested, runsOf>>
  BY DEF StartShrink
<1>2. /\ failures \in Seq([case : Nat, input : FuzzInputs]) /\ caseAt \in Nat
      /\ cases \in Seq(FuzzInputs) /\ cases # <<>>
  BY <1>1 DEF EvidenceInv, EvidenceShape, Fuzzing
<1>3. CASE ~Violates(Failure.input)
  <2>1. harness' = "done" /\ exitCode' = 1
    BY <1>3 DEF StartShrink, Exits
  <2>2. FuzzReportIsTrue' /\ AttestationIsTrue'
    BY <1>1, <1>2, <2>1 DEF FuzzReportIsTrue, AttestationIsTrue
  <2> QED
    BY <1>1, <2>1, <2>2, Over
<1>4. CASE Violates(Failure.input)
  <2>1. PICK in, s : in = Failure.input /\ s = shrink'
    OBVIOUS
  <2>2. /\ harness' = "shrink" /\ in \in bad /\ in = failures[caseAt + 1].input
        /\ s = [cur |-> in, pass |-> "remove", todo |-> DOMAIN in, changed |-> FALSE, round |-> 1]
    BY <1>4, <2>1 DEF StartShrink, Violates, Failure
  <2>3. in \in FuzzInputs
    <3>1. caseAt + 1 \in 1 .. Len(failures)
      BY <1>1, <1>2
    <3>2. PICK fs, n : fs = failures /\ n = caseAt + 1
      OBVIOUS
    <3> DEFINE F == [case : Nat, input : FuzzInputs]
    <3>3. fs \in Seq(F) /\ n \in 1 .. Len(fs) /\ in = fs[n].input
      BY <1>2, <2>2, <3>1, <3>2
    <3> HIDE DEF F
    <3>4. fs[n] \in F
      BY <3>3
    <3> QED
      BY <3>3, <3>4 DEF F
  <2>4. DOMAIN in \subseteq FuzzKeys
    BY <2>3 DEF FuzzInputs
  <2>5. NoLargerThan(in, in)
    BY DEF NoLargerThan
  <2>6. Tried'
    <3>1. s.pass = "remove" /\ s.todo = DOMAIN s.cur
      BY <2>2
    <3> QED
      BY <2>1, <3>1 DEF Tried
  <2>7. ShrinkInv'
    <3>1. /\ DOMAIN s = {"cur", "pass", "todo", "changed", "round"} /\ s.pass = "remove"
          /\ s.changed = FALSE /\ s.cur = in /\ s.todo = DOMAIN in
      BY <2>2
    <3> QED
      BY <1>1, <2>1, <2>2, <2>4, <2>5, <2>6, <3>1 DEF ShrinkInv
  <2>8. EvidenceShape'
    BY <1>1, <1>2, <2>2 DEF EvidenceInv, EvidenceShape, Fuzzing
  <2>9. CasesInv' /\ SavedInv'
    BY <1>1, <2>2 DEF EvidenceInv, CasesInv, SavedInv, Ran, Fuzzing
  <2> QED
    BY <1>1, <2>2, <2>7, <2>8, <2>9 DEF EvidenceInv, AttestInv, FuzzReportIsTrue, AttestationIsTrue
<1> QED
  BY <1>3, <1>4

LEMMA SaveStep ==
  ASSUME EvidenceInv, SaveShrunk \/ SaveFailure
  PROVE  EvidenceInv'
<1>1. PICK in : /\ in = IF harness = "shrink" THEN shrink.cur ELSE Failure.input
                /\ SavesTrace(in)
  BY DEF SaveShrunk, SaveFailure, RoundOver
<1>2. /\ harness \in {"shrink", "report"} /\ caseAt < Len(failures) /\ harness' = "report"
      /\ saved' = saved \cup {[case |-> failures[caseAt + 1].case, input |-> in]}
      /\ caseAt' = caseAt + 1
      /\ UNCHANGED <<bad, options, cases, failures, requested, runsOf>>
  BY <1>1 DEF SaveShrunk, SaveFailure, RoundOver, SavesTrace, Failure, EvidenceInv, EvidenceShape
<1>3. /\ failures \in Seq([case : Nat, input : FuzzInputs]) /\ caseAt \in Nat
      /\ cases \in Seq(FuzzInputs) /\ cases # <<>>
  BY <1>2 DEF EvidenceInv, EvidenceShape, Fuzzing
<1>4. options.faults \/ in \in bad
  <2>1. CASE harness = "shrink"
    BY <1>1, <2>1 DEF EvidenceInv, ShrinkInv
  <2>2. CASE harness # "shrink"
    <3>1. caseAt + 1 \in DOMAIN failures
      BY <1>2, <1>3
    <3> QED
      BY <1>1, <1>2, <2>2, <3>1 DEF EvidenceInv, CasesInv, Fuzzing, Failure
  <2> QED
    BY <2>1, <2>2
<1>5. EvidenceShape'
  BY <1>2, <1>3 DEF EvidenceInv, EvidenceShape, Fuzzing
<1>6. CasesInv'
  BY <1>2 DEF EvidenceInv, CasesInv, Ran, Fuzzing
<1>7. SavedInv'
  <2>1. ASSUME NEW i \in 1 .. caseAt'
        PROVE  \E t \in saved' : t.case = failures[i].case /\ (options.faults \/ t.input \in bad)
    <3>1. CASE i = caseAt + 1
      <4>1. PICK t : t = [case |-> failures[caseAt + 1].case, input |-> in]
        OBVIOUS
      <4>2. t \in saved' /\ t.case = failures[i].case /\ t.input = in
        BY <1>2, <3>1, <4>1
      <4> QED
        BY <1>4, <4>2
    <3>2. CASE i # caseAt + 1
      <4>1. i \in 1 .. caseAt
        BY <1>2, <1>3, <3>2
      <4> QED
        BY <1>2, <4>1 DEF EvidenceInv, SavedInv
    <3> QED
      BY <3>1, <3>2
  <2> QED
    BY <1>2, <2>1 DEF SavedInv
<1> QED
  BY <1>2, <1>5, <1>6, <1>7 DEF EvidenceInv, ShrinkInv, AttestInv, FuzzReportIsTrue,
                                AttestationIsTrue

LEMMA FuzzEndsStep ==
  ASSUME EvidenceInv, FuzzEnds \/ FuzzConfigFails \/ CaseRaises
  PROVE  EvidenceInv'
<1>1. CASE FuzzEnds
  <2>1. /\ harness = "report" /\ caseAt = Len(failures) /\ harness' = "done"
        /\ exitCode' = (IF failures = <<>> THEN 0 ELSE 1)
        /\ UNCHANGED <<bad, options, cases, failures, caseAt, shrink, saved, requested, runsOf>>
    BY <1>1 DEF FuzzEnds, Exits
  <2>2. cases # <<>> /\ Ran = DOMAIN cases
    BY <2>1 DEF EvidenceInv, EvidenceShape, Fuzzing, Ran
  <2>3. failures \in Seq([case : Nat, input : FuzzInputs])
    BY DEF EvidenceInv, EvidenceShape
  <2>4. DOMAIN failures = 1 .. caseAt
    BY <2>1, <2>3
  <2>5. \A i \in DOMAIN failures :
          \E t \in saved : t.case = failures[i].case /\ (options.faults \/ t.input \in bad)
    BY <2>1, <2>4 DEF EvidenceInv, SavedInv
  <2>6. exitCode' = 0 /\ ~options.faults => \A i \in DOMAIN cases : cases[i] \notin bad
    BY <2>1, <2>2 DEF EvidenceInv, CasesInv, Fuzzing
  <2>7. FuzzReportIsTrue'
    BY <2>1, <2>5, <2>6 DEF FuzzReportIsTrue
  <2>8. AttestationIsTrue'
    BY <2>1, <2>2 DEF AttestationIsTrue
  <2> QED
    BY <2>1, <2>7, <2>8, Over
<1>2. CASE FuzzConfigFails
  <2>1. /\ harness = "build" /\ cases = <<>> /\ harness' = "done" /\ exitCode' = 1
        /\ UNCHANGED <<bad, options, cases, failures, caseAt, shrink, saved, requested, runsOf>>
    BY <1>2 DEF FuzzConfigFails, Exits
  <2>2. FuzzReportIsTrue' /\ AttestationIsTrue'
    BY <2>1 DEF FuzzReportIsTrue, AttestationIsTrue
  <2> QED
    BY <2>1, <2>2, Over
<1>3. CASE CaseRaises
  <2>1. /\ harness' = "done" /\ exitCode' = 1 /\ failures' = <<>>
        /\ UNCHANGED <<bad, options, cases, caseAt, shrink, saved, requested, runsOf>>
    BY <1>3 DEF CaseRaises, Exits
  <2>2. FuzzReportIsTrue' /\ AttestationIsTrue'
    BY <2>1 DEF FuzzReportIsTrue, AttestationIsTrue
  <2> QED
    BY <2>1, <2>2, Over
<1> QED
  BY <1>1, <1>2, <1>3

-----------------------------------------------------------------------------
(* chainweaver attest.                                                     *)

LEMMA AttestCommandStep ==
  ASSUME EvidenceInv, NEW n \in 0 .. MaxAttestRuns, NEW m \in 1 .. MaxRepeats,
         NEW seeded \in BOOLEAN, AttestCommand(n, m, seeded)
  PROVE  EvidenceInv'
<1>1. /\ harness = "idle" /\ cases = <<>>
      /\ UNCHANGED <<bad, options, cases, failures, caseAt, shrink, saved>>
  BY DEF AttestCommand, EvidenceInv, EvidenceShape
<1>2. CASE m < 2 \/ (n < 1 /\ ~seeded)
  <2>1. harness' = "done" /\ exitCode' = 1 /\ runsOf' = runsOf
    BY <1>2 DEF AttestCommand, Exits
  <2>2. FuzzReportIsTrue' /\ AttestationIsTrue'
    BY <1>1, <2>1 DEF FuzzReportIsTrue, AttestationIsTrue
  <2> QED
    BY <1>1, <2>1, <2>2, Over
<1>3. CASE ~(m < 2 \/ (n < 1 /\ ~seeded))
  <2>1. /\ harness' = "attest" /\ requested' = [runs |-> n, repeats |-> m]
        /\ runsOf' = (IF n = 0 THEN <<>> ELSE << <<>> >>)
    BY <1>3 DEF AttestCommand
  <2>2. PICK rq, rs : rq = requested' /\ rs = runsOf'
    OBVIOUS
  <2>3. rq.runs = n /\ rq.repeats = m /\ n \in Nat /\ m \in Nat /\ m > 1
    BY <1>3, <2>1, <2>2, EvidenceAssumption
  <2>4. /\ rs \in Seq(Seq(AttestOutputs \cup {"failed"})) /\ Len(rs) <= 1
        /\ \A i \in 1 .. Len(rs) : Len(rs[i]) = 0
    <3> DEFINE R == AttestOutputs \cup {"failed"}
    <3> HIDE DEF R
    <3>1. PICK e : e = <<>>
      OBVIOUS
    <3>2. e \in Seq(R) /\ Len(e) = 0
      BY <3>1
    <3>3. rs = <<>> \/ rs = <<e>>
      BY <2>1, <2>2, <3>1
    <3>4. rs \in Seq(Seq(R)) /\ Len(rs) <= 1 /\ \A i \in 1 .. Len(rs) : Len(rs[i]) = 0
      <4>1. CASE rs = <<>>
        BY <4>1
      <4>2. CASE rs = <<e>>
        <5>1. rs \in Seq(Seq(R)) /\ Len(rs) = 1 /\ rs[1] = e
          BY <3>2, <4>2
        <5> QED
          BY <3>2, <5>1
      <4> QED
        BY <3>3, <4>1, <4>2
    <3> QED
      BY <3>4 DEF R
  <2>5. EvidenceShape'
    BY <1>1, <2>1, <2>2, <2>4 DEF EvidenceInv, EvidenceShape, Fuzzing
  <2>6. AttestInv'
    <3>1. 1 .. Len(rs) - 1 = {}
      BY <2>4
    <3>2. \A i \in 1 .. Len(rs) : Len(rs[i]) <= rq.repeats
      BY <2>3, <2>4
    <3> QED
      BY <2>2, <2>3, <3>1, <3>2 DEF AttestInv
  <2> QED
    BY <1>1, <2>1, <2>5, <2>6 DEF EvidenceInv, CasesInv, SavedInv, ShrinkInv, FuzzReportIsTrue,
                                  AttestationIsTrue, Fuzzing
<1> QED
  BY <1>2, <1>3

(* A change of the runs made so far.                                       *)
LEMMA RunsStep ==
  ASSUME EvidenceInv, harness = "attest", harness' = "attest",
         UNCHANGED <<bad, options, cases, failures, caseAt, shrink, saved, requested>>,
         runsOf' \in Seq(Seq(AttestOutputs \cup {"failed"})), AttestInv'
  PROVE  EvidenceInv'
<1>1. EvidenceShape'
  BY DEF EvidenceInv, EvidenceShape, Fuzzing
<1> QED
  BY <1>1 DEF EvidenceInv, CasesInv, SavedInv, ShrinkInv, FuzzReportIsTrue, AttestationIsTrue,
              Fuzzing

LEMMA RunOnceStep ==
  ASSUME EvidenceInv, NEW out \in AttestOutputs \cup {"failed"}, RunOnce(out)
  PROVE  EvidenceInv'
<1> DEFINE R == AttestOutputs \cup {"failed"}
<1>1. PICK rs, n, cur, new : /\ rs = runsOf /\ n = Len(runsOf) /\ cur = runsOf[n]
                            /\ new = Append(cur, out)
  OBVIOUS
<1>2. /\ harness = "attest" /\ harness' = "attest" /\ rs # <<>> /\ ~Attested(cur)
      /\ runsOf' = [rs EXCEPT ![n] = new]
      /\ UNCHANGED <<bad, options, cases, failures, caseAt, shrink, saved, requested>>
  BY <1>1 DEF RunOnce, Current
<1>3. rs \in Seq(Seq(R)) /\ out \in R
  BY <1>1 DEF EvidenceInv, EvidenceShape
<1>4. /\ requested.runs \in Nat /\ requested.repeats \in Nat /\ requested.repeats > 1
      /\ \A i \in 1 .. Len(rs) : Len(rs[i]) <= requested.repeats
      /\ \A i \in 1 .. Len(rs) - 1 : Attested(rs[i])
  BY <1>1, <1>2 DEF EvidenceInv, AttestInv
<1> HIDE DEF R
<1>5. n = Len(rs) /\ n \in 1 .. Len(rs) /\ cur \in Seq(R)
  BY <1>1, <1>2, <1>3
<1>6. new \in Seq(R) /\ Len(new) = Len(cur) + 1 /\ Len(cur) \in Nat
  BY <1>1, <1>3, <1>5
<1>7. PICK rq : rq = requested
  OBVIOUS
<1>8. Len(cur) <= rq.repeats /\ Len(cur) # rq.repeats
  BY <1>1, <1>2, <1>4, <1>5, <1>7 DEF Attested
<1>9. PICK nr : nr = [rs EXCEPT ![n] = new]
  OBVIOUS
<1>10. /\ nr \in Seq(Seq(R)) /\ Len(nr) = Len(rs)
       /\ \A i \in 1 .. Len(rs) : nr[i] = IF i = n THEN new ELSE rs[i]
  BY <1>3, <1>5, <1>6, <1>9
<1>11. \A i \in 1 .. Len(nr) : Len(nr[i]) <= rq.repeats
  <2>1. PICK rep : rep = rq.repeats
    OBVIOUS
  <2>2. /\ rep \in Nat /\ \A i \in 1 .. Len(rs) : Len(rs[i]) <= rep
        /\ Len(cur) <= rep /\ Len(cur) # rep
    BY <1>4, <1>7, <1>8, <2>1
  <2>3. Len(new) <= rep
    BY <1>6, <2>2
  <2>4. \A i \in 1 .. Len(rs) : Len(nr[i]) <= rep
    BY <1>10, <2>2, <2>3
  <2> QED
    BY <1>10, <2>1, <2>4
<1>12. \A i \in 1 .. Len(nr) - 1 : Attested(nr[i])
  BY <1>4, <1>5, <1>10, SMTT(60)
<1>13. AttestInv'
  BY <1>2, <1>4, <1>7, <1>9, <1>11, <1>12 DEF AttestInv, Attested
<1>14. runsOf' \in Seq(Seq(AttestOutputs \cup {"failed"}))
  BY <1>2, <1>9, <1>10 DEF R
<1> QED
  BY <1>2, <1>13, <1>14, RunsStep

LEMMA NextInputStep ==
  ASSUME EvidenceInv, NextInput
  PROVE  EvidenceInv'
<1> DEFINE R == AttestOutputs \cup {"failed"}
<1>1. PICK rs, e, nr : rs = runsOf /\ e = <<>> /\ nr = runsOf'
  OBVIOUS
<1>2. /\ harness = "attest" /\ harness' = "attest" /\ rs # <<>> /\ Attested(rs[Len(rs)])
      /\ nr = Append(rs, e)
      /\ UNCHANGED <<bad, options, cases, failures, caseAt, shrink, saved, requested>>
  BY <1>1 DEF NextInput, Current
<1>3. rs \in Seq(Seq(R))
  BY <1>1 DEF EvidenceInv, EvidenceShape
<1>4. /\ requested.runs \in Nat /\ requested.repeats \in Nat /\ requested.repeats > 1
      /\ \A i \in 1 .. Len(rs) : Len(rs[i]) <= requested.repeats
      /\ \A i \in 1 .. Len(rs) - 1 : Attested(rs[i])
  BY <1>1, <1>2 DEF EvidenceInv, AttestInv
<1> HIDE DEF R
<1>5. e \in Seq(R) /\ Len(e) = 0
  BY <1>1
<1>6. /\ nr \in Seq(Seq(R)) /\ Len(nr) = Len(rs) + 1 /\ Len(rs) \in Nat
      /\ \A i \in 1 .. Len(rs) : nr[i] = rs[i]
      /\ nr[Len(rs) + 1] = e
  BY <1>2, <1>3, <1>5
<1>7. \A i \in 1 .. Len(nr) : Len(nr[i]) <= requested.repeats
  <2>1. PICK rep : rep = requested.repeats
    OBVIOUS
  <2>2. rep \in Nat /\ \A i \in 1 .. Len(rs) : Len(rs[i]) <= rep
    BY <1>4, <2>1
  <2>3. ASSUME NEW i \in 1 .. Len(nr) PROVE Len(nr[i]) <= rep
    <3>1. i \in 1 .. Len(rs) \/ i = Len(rs) + 1
      BY <1>6
    <3>2. CASE i \in 1 .. Len(rs)
      BY <1>6, <2>2, <3>2
    <3>3. CASE i = Len(rs) + 1
      BY <1>5, <1>6, <2>2, <3>3
    <3> QED
      BY <3>1, <3>2, <3>3
  <2> QED
    BY <2>1, <2>3
<1>8. \A i \in 1 .. Len(nr) - 1 : Attested(nr[i])
  BY <1>2, <1>4, <1>6
<1>9. AttestInv'
  BY <1>1, <1>2, <1>4, <1>7, <1>8 DEF AttestInv, Attested
<1>10. runsOf' \in Seq(Seq(AttestOutputs \cup {"failed"}))
  BY <1>1, <1>6 DEF R
<1> QED
  BY <1>2, <1>9, <1>10, RunsStep

LEMMA FingerprintsFinite ==
  ASSUME NEW S, NEW outs \in Seq(S)
  PROVE  IsFiniteSet(Fingerprints(outs))
<1> DEFINE f == [x \in 1 .. Len(outs) |-> outs[x]]
           F == Fingerprints(outs)
<1>1. IsFiniteSet(1 .. Len(outs))
  BY FS_Interval
<1>2. DOMAIN outs = 1 .. Len(outs)
  OBVIOUS
<1>3. f \in [1 .. Len(outs) -> F] /\ \A v \in F : \E x \in 1 .. Len(outs) : f[x] = v
  BY <1>2 DEF Fingerprints
<1> HIDE DEF f, F
<1>4. f \in Surjection(1 .. Len(outs), F)
  BY <1>3 DEF Surjection
<1> QED
  BY <1>1, <1>4, FS_Surjection DEF F

(* Runs with one fingerprint at most agree.                                *)
LEMMA OneFingerprint ==
  ASSUME NEW S, NEW outs \in Seq(S), Cardinality(Fingerprints(outs)) <= 1,
         NEW i \in DOMAIN outs, NEW j \in DOMAIN outs
  PROVE  outs[i] = outs[j]
<1> DEFINE F == Fingerprints(outs)
<1>1. IsFiniteSet(F)
  BY FingerprintsFinite
<1>2. outs[i] \in F /\ outs[j] \in F
  BY DEF Fingerprints
<1> HIDE DEF F
<1>3. ASSUME outs[i] # outs[j] PROVE FALSE
  <2>1. PICK x, y : x = outs[i] /\ y = outs[j]
    OBVIOUS
  <2>2. {x, y} \subseteq F /\ x # y
    BY <1>2, <1>3, <2>1
  <2>3. Cardinality({x, y}) <= Cardinality(F)
    BY <1>1, <2>2, FS_Subset
  <2>4. Cardinality({x, y}) = 2
    <3>1. IsFiniteSet({x}) /\ Cardinality({x}) = 1
      BY FS_Singleton
    <3>2. {x, y} = {x} \cup {y} /\ y \notin {x}
      BY <2>2
    <3>3. PICK one : one = {x}
      OBVIOUS
    <3>4. IsFiniteSet(one) /\ Cardinality(one) = 1 /\ y \notin one
      BY <3>1, <3>2, <3>3
    <3>5. Cardinality(one \cup {y}) = IF y \in one THEN Cardinality(one) ELSE Cardinality(one) + 1
      BY <3>4, FS_AddElement
    <3>6. {x, y} = one \cup {y}
      BY <3>2, <3>3
    <3>7. Cardinality(one \cup {y}) = 2
      BY <3>4, <3>5
    <3> QED
      BY <3>6, <3>7, Zenon
  <2>5. Cardinality(F) \in Nat /\ Cardinality(F) <= 1
    BY <1>1, FS_CardinalityType DEF F
  <2> QED
    BY <2>3, <2>4, <2>5
<1> QED
  BY <1>3

LEMMA AttestEndsStep ==
  ASSUME EvidenceInv, AttestEnds
  PROVE  EvidenceInv'
<1>1. /\ harness = "attest" /\ harness' = "done" /\ Len(runsOf) = requested.runs
      /\ requested.runs > 0 => Attested(Current)
      /\ exitCode' = (IF ObservedDeterministic THEN 0 ELSE 1)
      /\ UNCHANGED <<bad, options, cases, failures, caseAt, shrink, saved, requested, runsOf>>
  BY DEF AttestEnds, Exits
<1>2. cases = <<>> /\ runsOf \in Seq(Seq(AttestOutputs \cup {"failed"}))
  BY <1>1 DEF EvidenceInv, EvidenceShape
<1>3. FuzzReportIsTrue'
  BY <1>1, <1>2 DEF FuzzReportIsTrue
<1>4. AttestationIsTrue'
  <2>1. ASSUME exitCode' = 0, NEW i \in DOMAIN runsOf
        PROVE  /\ Len(runsOf[i]) = requested.repeats /\ requested.repeats > 1
               /\ \A j \in DOMAIN runsOf[i] :
                    runsOf[i][j] = runsOf[i][1] /\ runsOf[i][j] # "failed"
    <3>1. PICK rs, outs : rs = runsOf /\ outs = runsOf[i]
      OBVIOUS
    <3>2. /\ ~Diverges(outs)
      BY <1>1, <2>1, <3>1 DEF ObservedDeterministic
    <3>3. /\ requested.runs \in Nat /\ requested.repeats \in Nat /\ requested.repeats > 1
          /\ i \in 1 .. requested.runs
      BY <1>1, <1>2, <2>1 DEF EvidenceInv, AttestInv
    <3>4. Attested(outs)
      <4>1. CASE i = requested.runs
        <5>1. requested.runs > 0
          BY <3>3, <4>1
        <5> QED
          BY <1>1, <3>1, <4>1, <5>1 DEF Current
      <4>2. CASE i # requested.runs
        <5>1. i \in 1 .. Len(runsOf) - 1
          BY <1>1, <3>3, <4>2
        <5> QED
          BY <1>1, <3>1, <5>1 DEF EvidenceInv, AttestInv
      <4> QED
        BY <4>1, <4>2
    <3>5. Len(outs) = requested.repeats /\ \A j \in DOMAIN outs : outs[j] # "failed"
      BY <3>2, <3>4 DEF Attested, Diverges, FailedIn
    <3>6. outs \in Seq(AttestOutputs \cup {"failed"})
      <4> DEFINE R == AttestOutputs \cup {"failed"}
      <4>1. rs \in Seq(Seq(R)) /\ i \in DOMAIN rs /\ outs = rs[i]
        BY <1>2, <2>1, <3>1
      <4> HIDE DEF R
      <4>2. outs \in Seq(R)
        BY <4>1
      <4> QED
        BY <4>2 DEF R
    <3>7. Cardinality(Fingerprints(outs)) <= 1
      <4>1. Cardinality(Fingerprints(outs)) \in Nat
        BY <3>6, FingerprintsFinite, FS_CardinalityType
      <4> QED
        BY <3>2, <4>1 DEF Diverges
    <3>8. 1 \in DOMAIN outs
      BY <3>3, <3>5, <3>6
    <3>9. \A j \in DOMAIN outs : outs[j] = outs[1]
      BY <3>6, <3>7, <3>8, OneFingerprint
    <3> QED
      BY <3>1, <3>3, <3>5, <3>9
  <2>2. Len(runsOf') = requested'.runs
    BY <1>1
  <2> QED
    BY <1>1, <2>1, <2>2 DEF AttestationIsTrue
<1> QED
  BY <1>1, <1>3, <1>4, Over

LEMMA AttestInputFailsStep ==
  ASSUME EvidenceInv, AttestInputFails
  PROVE  EvidenceInv'
<1>1. /\ harness' = "done" /\ exitCode' = 1 /\ runsOf' = <<>>
      /\ UNCHANGED <<bad, options, cases, failures, caseAt, shrink, saved, requested>>
      /\ harness = "attest"
  BY DEF AttestInputFails, Exits
<1>2. cases = <<>>
  BY <1>1 DEF EvidenceInv, EvidenceShape
<1>3. FuzzReportIsTrue' /\ AttestationIsTrue'
  BY <1>1, <1>2 DEF FuzzReportIsTrue, AttestationIsTrue
<1> QED
  BY <1>1, <1>3, Over

LEMMA EvidenceStays ==
  ASSUME EvidenceInv, UNCHANGED evidenceVars
  PROVE  EvidenceInv'
<1>1. UNCHANGED <<bad, harness, options, cases, failures, caseAt, shrink, saved, requested,
                  runsOf, exitCode>>
  BY DEF evidenceVars
<1>2. EvidenceShape' /\ CasesInv' /\ SavedInv' /\ ShrinkInv'
  BY <1>1 DEF EvidenceInv, EvidenceShape, CasesInv, SavedInv, ShrinkInv, Tried, Fuzzing, Ran
<1>3. AttestInv' /\ FuzzReportIsTrue' /\ AttestationIsTrue'
  BY <1>1 DEF EvidenceInv, AttestInv, Attested, FuzzReportIsTrue, AttestationIsTrue
<1> QED
  BY <1>2, <1>3 DEF EvidenceInv

LEMMA EvidenceSteps ==
  ASSUME EvidenceInv, EvidenceNext
  PROVE  EvidenceInv'
<1>1. \/ \E o \in FuzzOptions : FuzzCommand(o)
      \/ RunCases \/ Report
      => EvidenceInv'
  BY CommandStep
<1>2. \/ \E in \in FuzzInputs : BuildCase(in)
      \/ \E v \in BOOLEAN : ExecuteCase(v)
      => EvidenceInv'
  BY CaseStep
<1>3. FuzzEnds \/ FuzzConfigFails \/ CaseRaises => EvidenceInv'
  BY FuzzEndsStep
<1>4. StartShrink \/ TryKey \/ EndPass \/ NextRound => EvidenceInv'
  BY StartShrinkStep, TryKeyStep, PassStep
<1>5. SaveShrunk \/ SaveFailure => EvidenceInv'
  BY SaveStep
<1>6. (\E n \in 0 .. MaxAttestRuns, m \in 1 .. MaxRepeats, seeded \in BOOLEAN :
         AttestCommand(n, m, seeded)) => EvidenceInv'
  BY AttestCommandStep
<1>7. (\E out \in AttestOutputs \cup {"failed"} : RunOnce(out)) => EvidenceInv'
  BY RunOnceStep
<1>8. NextInput \/ AttestEnds \/ AttestInputFails => EvidenceInv'
  BY NextInputStep, AttestEndsStep, AttestInputFailsStep
<1> QED
  BY <1>1, <1>2, <1>3, <1>4, <1>5, <1>6, <1>7, <1>8 DEF EvidenceNext

-----------------------------------------------------------------------------
(* The turns of a key in a sequence of calls or of recorded interactions.  *)

Turns(s, k, n) == Cardinality({j \in 1 .. n : s[j].key = k})

LEMMA TurnsStep ==
  ASSUME NEW s, NEW k, NEW n \in Nat
  PROVE  /\ Turns(s, k, n) \in Nat
         /\ Turns(s, k, n + 1) = Turns(s, k, n) + (IF s[n + 1].key = k THEN 1 ELSE 0)
<1> DEFINE A == {j \in 1 .. n : s[j].key = k}
           B == {j \in 1 .. n + 1 : s[j].key = k}
<1>1. IsFiniteSet(A)
  <2>1. IsFiniteSet(1 .. n) /\ A \subseteq 1 .. n
    BY FS_Interval
  <2> QED
    BY <2>1, FS_Subset
<1>2. Cardinality(A) \in Nat
  BY <1>1, FS_CardinalityType
<1>3. CASE s[n + 1].key = k
  <2>1. B = A \cup {n + 1} /\ n + 1 \notin A
    BY <1>3
  <2> HIDE DEF A, B
  <2>2. Cardinality(A \cup {n + 1}) = Cardinality(A) + 1
    BY <1>1, <2>1, FS_AddElement
  <2>3. Cardinality(B) = Cardinality(A) + 1
    BY <2>1, <2>2
  <2>4. Turns(s, k, n) = Cardinality(A) /\ Turns(s, k, n + 1) = Cardinality(B)
    BY DEF Turns, A, B
  <2> QED
    BY <1>2, <1>3, <2>3, <2>4
<1>4. CASE s[n + 1].key # k
  <2>1. B = A
    BY <1>4
  <2> HIDE DEF A, B
  <2>2. Turns(s, k, n) = Cardinality(A) /\ Turns(s, k, n + 1) = Cardinality(A)
    BY <2>1 DEF Turns, A, B
  <2> QED
    BY <1>2, <1>4, <2>2
<1> QED
  BY <1>3, <1>4

LEMMA TurnsEmpty ==
  ASSUME NEW s, NEW k
  PROVE  Turns(s, k, 0) = 0
<1>1. {j \in 1 .. 0 : s[j].key = k} = {}
  OBVIOUS
<1> QED
  BY <1>1, FS_EmptySet DEF Turns

LEMMA TurnsMonotone ==
  ASSUME NEW s, NEW k, NEW m \in Nat, NEW n \in Nat, m <= n
  PROVE  Turns(s, k, m) <= Turns(s, k, n)
<1> DEFINE A == {j \in 1 .. m : s[j].key = k}
           B == {j \in 1 .. n : s[j].key = k}
<1>1. A \subseteq B
  OBVIOUS
<1>2. IsFiniteSet(B)
  <2>1. IsFiniteSet(1 .. n) /\ B \subseteq 1 .. n
    BY FS_Interval
  <2> QED
    BY <2>1, FS_Subset
<1> HIDE DEF A, B
<1>3. Cardinality(A) <= Cardinality(B)
  BY <1>1, <1>2, FS_Subset
<1> QED
  BY <1>3 DEF Turns, A, B

(* A later call of the key has a later turn.                               *)
LEMMA TurnsGrow ==
  ASSUME NEW s, NEW k, NEW i \in Nat, NEW j \in Nat, i < j, s[j].key = k
  PROVE  Turns(s, k, i) < Turns(s, k, j)
<1>1. PICK n : n = j - 1
  OBVIOUS
<1>2. n \in Nat /\ i <= n /\ j = n + 1
  BY <1>1
<1>3. Turns(s, k, i) <= Turns(s, k, n)
  BY <1>2, TurnsMonotone
<1>4. Turns(s, k, n) \in Nat /\ Turns(s, k, j) = Turns(s, k, n) + 1 /\ Turns(s, k, i) \in Nat
  BY <1>2, TurnsStep
<1> QED
  BY <1>3, <1>4

(* The turns count the keys alone.                                         *)
LEMMA TurnsSame ==
  ASSUME NEW s, NEW t, NEW k, NEW n \in Nat,
         \A j \in 1 .. n : s[j].key = k <=> t[j].key = k
  PROVE  Turns(t, k, n) = Turns(s, k, n)
<1>1. {j \in 1 .. n : s[j].key = k} = {j \in 1 .. n : t[j].key = k}
  OBVIOUS
<1> QED
  BY <1>1 DEF Turns

(* Equal turns of a key are the same call.                                 *)
LEMMA TurnsName ==
  ASSUME NEW s, NEW k, NEW i \in Nat, NEW j \in Nat, s[i].key = k, s[j].key = k,
         Turns(s, k, i) = Turns(s, k, j)
  PROVE  i = j
<1>1. Turns(s, k, i) \in Nat /\ Turns(s, k, j) \in Nat
  BY TurnsStep
<1>2. ~(i < j)
  <2>1. SUFFICES ASSUME i < j PROVE FALSE
    OBVIOUS
  <2>2. Turns(s, k, i) < Turns(s, k, j)
    BY <2>1, TurnsGrow
  <2> QED
    BY <1>1, <2>2
<1>3. ~(j < i)
  <2>1. SUFFICES ASSUME j < i PROVE FALSE
    OBVIOUS
  <2>2. Turns(s, k, j) < Turns(s, k, i)
    BY <2>1, TurnsGrow
  <2> QED
    BY <1>1, <2>2
<1> QED
  BY <1>2, <1>3

-----------------------------------------------------------------------------
(* Sequences: an element appended, appended at most once, taken out.       *)

(* t is s, with x at its end when more = 1.                                *)
Extends(t, s, x, more) ==
  /\ Len(t) = Len(s) + more
  /\ \A j \in 1 .. Len(s) : t[j] = s[j]
  /\ more = 1 => t[Len(s) + 1] = x

LEMMA AppendExtends ==
  ASSUME NEW S, NEW s \in Seq(S), NEW x \in S
  PROVE  Append(s, x) \in Seq(S) /\ Extends(Append(s, x), s, x, 1)
<1>1. PICK t : t = Append(s, x)
  OBVIOUS
<1>2. /\ t \in Seq(S) /\ Len(t) = Len(s) + 1 /\ t[Len(s) + 1] = x
      /\ \A j \in 1 .. Len(s) : t[j] = s[j]
  BY <1>1
<1> QED
  BY <1>1, <1>2 DEF Extends

LEMMA ConcatExtends ==
  ASSUME NEW S, NEW s \in Seq(S), NEW x \in S, NEW more \in {0, 1}
  PROVE  LET t == s \o [n \in 1 .. more |-> x]
         IN  t \in Seq(S) /\ Extends(t, s, x, more)
<1>1. PICK u, t : u = [n \in 1 .. more |-> x] /\ t = s \o u
  OBVIOUS
<1>2. u \in Seq(S) /\ Len(u) = more
  BY <1>1
<1>3. u[1] = x \/ more = 0
  BY <1>1
<1>4. /\ t \in Seq(S) /\ Len(t) = Len(s) + Len(u)
      /\ \A i \in 1 .. Len(s) + Len(u) : t[i] = IF i <= Len(s) THEN s[i] ELSE u[i - Len(s)]
  BY <1>1, <1>2, ConcatProperties
<1>5. Len(s) \in Nat
  OBVIOUS
<1>6. \A j \in 1 .. Len(s) : t[j] = s[j]
  BY <1>2, <1>4, <1>5
<1>7. more = 1 => t[Len(s) + 1] = x
  <2>1. SUFFICES ASSUME more = 1 PROVE t[Len(s) + 1] = x
    OBVIOUS
  <2>2. PICK n : n = Len(s) + 1
    OBVIOUS
  <2>3. n \in 1 .. Len(s) + Len(u) /\ ~(n <= Len(s)) /\ n - Len(s) = 1
    BY <1>2, <1>5, <2>1, <2>2
  <2>4. t[n] = u[n - Len(s)]
    BY <1>4, <2>3
  <2> QED
    BY <1>3, <2>1, <2>2, <2>3, <2>4
<1> QED
  BY <1>1, <1>2, <1>4, <1>6, <1>7 DEF Extends

LEMMA RemoveAtMeans ==
  ASSUME NEW S, NEW s \in Seq(S), NEW i \in DOMAIN s
  PROVE  LET t == RemoveAt(s, i)
         IN  /\ t \in Seq(S) /\ Len(t) = Len(s) - 1
             /\ \A j \in 1 .. Len(t) : t[j] = IF j < i THEN s[j] ELSE s[j + 1]
<1>1. PICK n, a, b, t : n = Len(s) /\ a = SubSeq(s, 1, i - 1) /\ b = SubSeq(s, i + 1, n) /\ t = a \o b
  OBVIOUS
<1>2. n \in Nat /\ i \in 1 .. n /\ \A j \in 1 .. n : s[j] \in S
  BY <1>1
<1>3. /\ a \in Seq(S) /\ Len(a) = i - 1
      /\ \A j \in 1 .. i - 1 : a[j] = s[j]
  <2>1. PICK h : h = i - 1
    OBVIOUS
  <2>2. h \in Nat /\ h \in Int /\ 1 \in Int /\ h <= n /\ \A j \in 1 .. h : s[j] \in S
    BY <1>2, <2>1
  <2>3. a = SubSeq(s, 1, h)
    BY <1>1, <2>1
  <2>4. /\ a \in Seq(S) /\ Len(a) = IF 1 <= h THEN h - 1 + 1 ELSE 0
        /\ \A j \in 1 .. h - 1 + 1 : a[j] = s[1 + j - 1]
    BY <2>2, <2>3, SubSeqProperties
  <2> QED
    BY <2>1, <2>2, <2>4
<1>4. /\ b \in Seq(S) /\ Len(b) = n - i
      /\ \A j \in 1 .. n - i : b[j] = s[i + j]
  <2>1. PICK h : h = i + 1
    OBVIOUS
  <2>2. h \in Int /\ n \in Int /\ \A j \in h .. n : s[j] \in S
    BY <1>2, <2>1
  <2>3. b = SubSeq(s, h, n)
    BY <1>1, <2>1
  <2>4. /\ SubSeq(s, h, n) \in Seq(S)
        /\ Len(SubSeq(s, h, n)) = IF h <= n THEN n - h + 1 ELSE 0
        /\ \A j \in 1 .. n - h + 1 : SubSeq(s, h, n)[j] = s[h + j - 1]
    BY <2>2, SubSeqProperties
  <2>5. n - h + 1 = n - i /\ (IF h <= n THEN n - h + 1 ELSE 0) = n - i
    BY <1>2, <2>1
  <2>6. \A j \in 1 .. n - i : h + j - 1 = i + j
    BY <1>2, <2>1
  <2>7. b \in Seq(S) /\ Len(b) = n - i
    BY <2>3, <2>4, <2>5
  <2>8. \A j \in 1 .. n - i : b[j] = s[h + j - 1]
    BY <2>3, <2>4, <2>5
  <2>9. ASSUME NEW j \in 1 .. n - i PROVE b[j] = s[i + j]
    <3>1. h + j - 1 = i + j
      BY <2>6
    <3>2. b[j] = s[h + j - 1]
      BY <2>8
    <3> QED
      BY <3>1, <3>2, Zenon
  <2> QED
    BY <2>7, <2>9
<1>5. /\ t \in Seq(S) /\ Len(t) = Len(a) + Len(b)
      /\ \A j \in 1 .. Len(a) + Len(b) : t[j] = IF j <= Len(a) THEN a[j] ELSE b[j - Len(a)]
  <2>1. a \in Seq(S) /\ b \in Seq(S)
    BY <1>3, <1>4
  <2>2. /\ a \o b \in Seq(S) /\ Len(a \o b) = Len(a) + Len(b)
        /\ \A j \in 1 .. Len(a) + Len(b) :
             (a \o b)[j] = IF j <= Len(a) THEN a[j] ELSE b[j - Len(a)]
    BY <2>1, ConcatProperties
  <2>3. t = a \o b
    BY <1>1
  <2> QED
    BY <2>2, <2>3, Zenon
<1>6. Len(t) = n - 1
  BY <1>2, <1>3, <1>4, <1>5
<1>7. ASSUME NEW j \in 1 .. Len(t) PROVE t[j] = IF j < i THEN s[j] ELSE s[j + 1]
  <2>1. CASE j < i
    <3>1. j <= Len(a) /\ j \in 1 .. i - 1 /\ j \in 1 .. Len(a) + Len(b)
      BY <1>2, <1>3, <1>4, <1>5, <2>1
    <3> QED
      BY <1>3, <1>5, <2>1, <3>1
  <2>2. CASE ~(j < i)
    <3>1. PICK h : h = j - Len(a)
      OBVIOUS
    <3>2. ~(j <= Len(a)) /\ j \in 1 .. Len(a) + Len(b) /\ h \in 1 .. n - i /\ i + h = j + 1
      <4>1. PICK la, lb : la = Len(a) /\ lb = Len(b)
        OBVIOUS
      <4>2. la = i - 1 /\ lb = n - i /\ j \in 1 .. n - 1 /\ h = j - la
        <5>1. la = i - 1 /\ lb = n - i
          BY <1>3, <1>4, <4>1
        <5>2. j \in 1 .. n - 1
          BY <1>6
        <5> QED
          BY <3>1, <4>1, <5>1, <5>2
      <4>3. ~(j <= la) /\ j \in 1 .. la + lb /\ h \in 1 .. n - i /\ i + h = j + 1
        <5>1. PICK x, y : x = i /\ y = j
          OBVIOUS
        <5>2. /\ x \in Int /\ y \in Int /\ n \in Int /\ 1 <= x /\ x <= n /\ 1 <= y /\ y <= n - 1
              /\ ~(y < x) /\ la = x - 1 /\ lb = n - x /\ h = y - la
          BY <1>2, <2>2, <4>2, <5>1
        <5>3. ~(y <= la) /\ y \in 1 .. la + lb /\ h \in 1 .. n - x /\ x + h = y + 1
          BY <5>2
        <5> QED
          BY <5>1, <5>3
      <4> QED
        BY <4>1, <4>3
    <3>3. t[j] = b[h] /\ b[h] = s[i + h]
      BY <1>4, <1>5, <3>1, <3>2
    <3> QED
      BY <2>2, <3>2, <3>3
  <2> QED
    BY <2>1, <2>2
<1> QED
  BY <1>1, <1>5, <1>6, <1>7 DEF RemoveAt

(* What is left when the i-th is taken out, as a set and without repeats.  *)
LEMMA TakenOut ==
  ASSUME NEW S, NEW s \in Seq(S), NEW i \in DOMAIN s, NEW t, t = RemoveAt(s, i)
  PROVE  /\ t \in Seq(S)
         /\ \A j \in DOMAIN t : \E h \in DOMAIN s : h # i /\ t[j] = s[h]
         /\ \A h \in DOMAIN s : h # i => \E j \in DOMAIN t : t[j] = s[h]
         /\ \A j1, j2 \in DOMAIN t : j1 # j2 =>
              \E h1, h2 \in DOMAIN s : h1 # h2 /\ h1 # i /\ h2 # i /\ t[j1] = s[h1] /\ t[j2] = s[h2]
<1>1. /\ t \in Seq(S) /\ Len(t) = Len(s) - 1
      /\ \A j \in 1 .. Len(t) : t[j] = IF j < i THEN s[j] ELSE s[j + 1]
  BY RemoveAtMeans
<1>2. PICK n : n = Len(s)
  OBVIOUS
<1>3. n \in Nat /\ i \in 1 .. n /\ DOMAIN s = 1 .. n /\ DOMAIN t = 1 .. n - 1
  BY <1>1, <1>2
<1> DEFINE h(j) == IF j < i THEN j ELSE j + 1
<1>4. \A j \in DOMAIN t : h(j) \in DOMAIN s /\ h(j) # i /\ t[j] = s[h(j)]
  <2>1. ASSUME NEW j \in DOMAIN t PROVE h(j) \in DOMAIN s /\ h(j) # i /\ t[j] = s[h(j)]
    <3>1. j \in 1 .. n - 1 /\ j \in 1 .. Len(t)
      BY <1>1, <1>2, <1>3
    <3>2. CASE j < i
      BY <1>1, <1>3, <3>1, <3>2
    <3>3. CASE ~(j < i)
      BY <1>1, <1>3, <3>1, <3>3
    <3> QED
      BY <3>2, <3>3
  <2> QED
    BY <2>1
<1>5. \A j1, j2 \in DOMAIN t : j1 # j2 => h(j1) # h(j2)
  BY <1>3
<1>6. \A g \in DOMAIN s : g # i => \E j \in DOMAIN t : h(j) = g
  <2>1. ASSUME NEW g \in DOMAIN s, g # i PROVE \E j \in DOMAIN t : h(j) = g
    <3>1. CASE g < i
      <4>1. g \in DOMAIN t /\ h(g) = g
        BY <1>3, <2>1, <3>1
      <4> QED
        BY <4>1
    <3>2. CASE ~(g < i)
      <4>1. g - 1 \in DOMAIN t /\ h(g - 1) = g
        BY <1>3, <2>1, <3>2
      <4> QED
        BY <4>1
    <3> QED
      BY <3>1, <3>2
  <2> QED
    BY <2>1
<1> HIDE DEF h
<1> QED
  BY <1>1, <1>4, <1>5, <1>6

-----------------------------------------------------------------------------
(* The inductive invariant.                                                *)

Shown(v, r) == IF r THEN Redact(v) ELSE v

(* The returned calls of a key and the log of them, turn by turn.          *)
Kept(calls, log, open, k, r) ==
  /\ \A m \in DOMAIN calls \ open : calls[m].key = k =>
       \E e \in DOMAIN log : /\ log[e].key = k /\ Turns(log, k, e) = Turns(calls, k, m)
                             /\ log[e].out = Shown(calls[m].out, r)
  /\ \A e \in DOMAIN log : log[e].key = k =>
       \E m \in DOMAIN calls : calls[m].key = k /\ Turns(calls, k, m) = Turns(log, k, e)

(* The calls a log has answered, turn by turn.                             *)
Played(calls, log, k) ==
  \A m \in DOMAIN calls : calls[m].key = k =>
    \/ /\ calls[m].out = Stale
       /\ \A e \in DOMAIN log : log[e].key = k => Turns(log, k, e) # Turns(calls, k, m)
    \/ \E e \in DOMAIN log : /\ log[e].key = k /\ Turns(log, k, e) = Turns(calls, k, m)
                             /\ calls[m].out = log[e].out

FxLoggedKeys == FxKeys \cup {<<k[1], Redact(k[2])>> : k \in FxKeys}
FxOut == Nat \X {"plain", "secret", "masked"}
FxCall == [key : FxKeys, out : FxOut]
FxEntry == [key : FxLoggedKeys, out : FxOut]
FxFlight == [key : FxKeys, nth : Nat]

FxShape ==
  /\ test \in [redact : BOOLEAN, lane : {"sync", "async"}]
  /\ fxSession \in {"none", "record", "replay"}
  /\ entries \in Seq(FxEntry) /\ made \in Seq(FxCall) /\ flight \in Seq(FxFlight)
  /\ cursor \in [FxKeys -> Nat] /\ blurred \subseteq FxKeys /\ served \in Nat
  /\ fxSource.made \in Seq(FxCall)
  /\ fixture.is = "fixture" => fixture.entries \in Seq(FxEntry)
  /\ fxSession = "none" => /\ entries = <<>> /\ made = <<>> /\ flight = <<>>
                           /\ blurred = {} /\ served = 0 /\ \A k \in FxKeys : cursor[k] = 0
  /\ fxSession = "replay" => fixture.is = "fixture" /\ entries = fixture.entries

(* A call in flight stands for one call of the test, or for none.          *)
FlightInv ==
  /\ \A i \in DOMAIN flight : flight[i].nth > 0 =>
       /\ flight[i].nth <= Len(made) /\ made[flight[i].nth].key = flight[i].key
       /\ fxSession = "replay" => Points(flight[i].key[1], test.lane) = 0
  /\ \A i, j \in DOMAIN flight : i # j /\ flight[i].nth > 0 => flight[i].nth # flight[j].nth

Open == {flight[i].nth : i \in DOMAIN flight}

(* A key that raised, overlapped or ran inside a flow at no time: its last *)
(* call may be in flight, the others are in the log in turn.               *)
RecordedInv ==
  fxSession = "record" =>
    \A k \in FxKeys \ blurred : Points(k[1], test.lane) > 0 =>
      /\ \A i \in DOMAIN flight : flight[i].key = k =>
           flight[i].nth > 0 /\ Turns(made, k, flight[i].nth) = Turns(made, k, Len(made))
      /\ \A i, j \in DOMAIN flight : flight[i].key = k /\ flight[j].key = k => i = j
      /\ Turns(made, k, Len(made)) =
           Turns(entries, k, Len(entries)) + (IF InFlight(k) THEN 1 ELSE 0)
      /\ Kept(made, entries, Open, k, FALSE)

(* Outputs have numbers of their own, and a recorded call an entry.        *)
NumberedInv ==
  fxSession = "record" =>
    /\ \A e \in DOMAIN entries : entries[e].key \in FxKeys /\ entries[e].out[1] \in 1 .. served
    /\ \A e, f \in DOMAIN entries : e # f => entries[e].out[1] # entries[f].out[1]
    /\ \A m \in DOMAIN made :
         Points(made[m].key[1], test.lane) > 0 /\ made[m].out # Stale =>
           \E e \in DOMAIN entries : entries[e].out[1] = made[m].out[1]

Masks(k) == test.redact /\ k[2][2] = "secret"

SourceInv ==
  fixture.is = "fixture" =>
    \A k \in FxKeys \ fxSource.blurred : Points(k[1], test.lane) > 0 /\ ~Masks(k) =>
      Kept(fxSource.made, fixture.entries, {}, k, test.redact)

(* The cursor of a key has passed as many of its entries as there were     *)
(* calls, or all of them.                                                  *)
PlayedInv ==
  fxSession = "replay" =>
    \A k \in FxKeys : Points(k[1], test.lane) > 0 =>
      /\ cursor[k] <= Len(entries)
      /\ Turns(entries, k, cursor[k]) <= Turns(made, k, Len(made))
      /\ Turns(entries, k, cursor[k]) < Turns(made, k, Len(made)) => Matches(k) = {}
      /\ Played(made, entries, k)

FxInv ==
  /\ FxShape /\ FlightInv /\ RecordedInv /\ NumberedInv /\ SourceInv /\ PlayedInv
  /\ FixtureIsWhole

-----------------------------------------------------------------------------
(* Redaction, and how the log of a key grows.                              *)

LEMMA PointsAre ==
  ASSUME NEW t, NEW lane \in {"sync", "async"}
  PROVE  Points(t, lane) \in {0, 1}
BY DEF Points, PatchedCallFn, PatchedCallFnAsync, IsAsync

LEMMA FxKeyMeans ==
  ASSUME NEW k \in FxKeys
  PROVE  k = <<k[1], <<k[2][1], k[2][2]>>>> /\ k[2][2] \in {"plain", "secret"}
<1>1. k \in (DOMAIN FxKind) \X ({x[2][1] : x \in FxKeys} \X {"plain", "secret"})
  BY FixturesAssumption
<1> DEFINE T == DOMAIN FxKind
           N == {x[2][1] : x \in FxKeys}
<1> HIDE DEF T, N
<1>2. k \in T \X (N \X {"plain", "secret"})
  BY <1>1 DEF T, N
<1>3. PICK a \in T, b \in N \X {"plain", "secret"} : k = <<a, b>>
  BY <1>2
<1>4. PICK c \in N, d \in {"plain", "secret"} : b = <<c, d>>
  OBVIOUS
<1> QED
  BY <1>3, <1>4

(* Masking keeps the keys that hold no secret, and makes no such key.      *)
LEMMA MaskedKeys ==
  ASSUME NEW k \in FxKeys, NEW x \in FxKeys, k[2][2] # "secret"
  PROVE  <<x[1], Redact(x[2])>> = k <=> x = k
<1>1. PICK a, c, d : x = <<a, <<c, d>>>> /\ d \in {"plain", "secret"}
  BY FxKeyMeans
<1>2. PICK e, f, g : k = <<e, <<f, g>>>> /\ g = "plain"
  BY FxKeyMeans
<1>3. <<x[1], Redact(x[2])>> = IF d = "secret" THEN <<a, <<c, "masked">>>> ELSE <<a, <<c, d>>>>
  BY <1>1 DEF Redact
<1>4. CASE d = "secret"
  <2>1. <<a, <<c, "masked">>>> # <<e, <<f, g>>>> /\ <<a, <<c, d>>>> # <<e, <<f, g>>>>
    BY <1>2, <1>4
  <2> QED
    BY <1>1, <1>2, <1>3, <1>4, <2>1
<1>5. CASE d # "secret"
  BY <1>1, <1>3, <1>5
<1> QED
  BY <1>4, <1>5

LEMMA KeptGrows ==
  ASSUME NEW C, NEW E, NEW calls \in Seq(C), NEW calls2 \in Seq(C), NEW log \in Seq(E),
         NEW log2 \in Seq(E), NEW open, NEW open2, NEW k, NEW r,
         Kept(calls, log, open, k, r), Len(calls) <= Len(calls2), Len(log) <= Len(log2),
         \A m \in 1 .. Len(calls) : calls2[m].key = calls[m].key,
         \A e \in 1 .. Len(log) : log2[e] = log[e],
         \A m \in DOMAIN calls2 \ open2 : calls2[m].key = k =>
           \/ m \in DOMAIN calls \ open /\ calls2[m].out = calls[m].out
           \/ \E e \in DOMAIN log2 : /\ log2[e].key = k /\ Turns(log2, k, e) = Turns(calls2, k, m)
                                    /\ log2[e].out = Shown(calls2[m].out, r),
         \A e \in DOMAIN log2 : log2[e].key = k => e \in DOMAIN log
           \/ \E m \in DOMAIN calls2 : calls2[m].key = k /\ Turns(calls2, k, m) = Turns(log2, k, e)
  PROVE  Kept(calls2, log2, open2, k, r)
<1>1. /\ DOMAIN calls = 1 .. Len(calls) /\ DOMAIN calls2 = 1 .. Len(calls2)
      /\ DOMAIN log = 1 .. Len(log) /\ DOMAIN log2 = 1 .. Len(log2)
      /\ Len(calls) \in Nat /\ Len(calls2) \in Nat /\ Len(log) \in Nat /\ Len(log2) \in Nat
  OBVIOUS
<1>2. \A m \in DOMAIN calls : m \in DOMAIN calls2 /\ Turns(calls2, k, m) = Turns(calls, k, m)
  <2>1. ASSUME NEW m \in DOMAIN calls
        PROVE  m \in DOMAIN calls2 /\ Turns(calls2, k, m) = Turns(calls, k, m)
    <3>1. m \in Nat /\ m \in DOMAIN calls2 /\ \A j \in 1 .. m : j \in 1 .. Len(calls)
      BY <1>1
    <3>2. \A j \in 1 .. m : calls[j].key = k <=> calls2[j].key = k
      BY <3>1
    <3> QED
      BY <3>1, <3>2, TurnsSame
  <2> QED
    BY <2>1
<1>3. \A e \in DOMAIN log : e \in DOMAIN log2 /\ log2[e] = log[e] /\ Turns(log2, k, e) = Turns(log, k, e)
  <2>1. ASSUME NEW e \in DOMAIN log
        PROVE  e \in DOMAIN log2 /\ log2[e] = log[e] /\ Turns(log2, k, e) = Turns(log, k, e)
    <3>1. e \in Nat /\ e \in DOMAIN log2 /\ log2[e] = log[e] /\ \A j \in 1 .. e : j \in 1 .. Len(log)
      BY <1>1
    <3>2. \A j \in 1 .. e : log[j].key = k <=> log2[j].key = k
      BY <3>1
    <3> QED
      BY <3>1, <3>2, TurnsSame
  <2> QED
    BY <2>1
<1>4. ASSUME NEW m \in DOMAIN calls2 \ open2, calls2[m].key = k
      PROVE  \E e \in DOMAIN log2 : /\ log2[e].key = k /\ Turns(log2, k, e) = Turns(calls2, k, m)
                                    /\ log2[e].out = Shown(calls2[m].out, r)
  <2>1. CASE m \in DOMAIN calls \ open /\ calls2[m].out = calls[m].out
    <3>1. calls[m].key = k
      BY <1>1, <1>4, <2>1
    <3>2. PICK e \in DOMAIN log : /\ log[e].key = k /\ Turns(log, k, e) = Turns(calls, k, m)
                                  /\ log[e].out = Shown(calls[m].out, r)
      BY <2>1, <3>1 DEF Kept
    <3>3. /\ e \in DOMAIN log2 /\ log2[e].key = k /\ log2[e].out = Shown(calls2[m].out, r)
          /\ Turns(log2, k, e) = Turns(calls2, k, m)
      BY <1>2, <1>3, <2>1, <3>2
    <3> QED
      BY <3>3
  <2> QED
    BY <1>4, <2>1
<1>5. ASSUME NEW e \in DOMAIN log2, log2[e].key = k
      PROVE  \E m \in DOMAIN calls2 : calls2[m].key = k /\ Turns(calls2, k, m) = Turns(log2, k, e)
  <2>1. CASE e \in DOMAIN log
    <3>1. PICK m \in DOMAIN calls : calls[m].key = k /\ Turns(calls, k, m) = Turns(log, k, e)
      BY <1>3, <1>5, <2>1 DEF Kept
    <3>2. m \in DOMAIN calls2 /\ calls2[m].key = k /\ Turns(calls2, k, m) = Turns(log2, k, e)
      BY <1>1, <1>2, <1>3, <2>1, <3>1
    <3> QED
      BY <3>2
  <2> QED
    BY <1>5, <2>1
<1> QED
  BY <1>4, <1>5 DEF Kept

(* What an element at the end adds to the turns.                           *)
LEMMA TurnsExtend ==
  ASSUME NEW S, NEW s \in Seq(S), NEW t \in Seq(S), NEW x, NEW more \in {0, 1}, NEW k,
         Extends(t, s, x, more)
  PROVE  /\ \A n \in 0 .. Len(s) : Turns(t, k, n) = Turns(s, k, n)
         /\ Turns(t, k, Len(t)) =
              Turns(s, k, Len(s)) + (IF more = 1 /\ x.key = k THEN 1 ELSE 0)
<1>1. /\ Len(s) \in Nat /\ Len(t) = Len(s) + more /\ \A j \in 1 .. Len(s) : t[j] = s[j]
      /\ more = 1 => t[Len(s) + 1] = x
  BY DEF Extends
<1>2. \A n \in 0 .. Len(s) : Turns(t, k, n) = Turns(s, k, n)
  <2>1. ASSUME NEW n \in 0 .. Len(s) PROVE Turns(t, k, n) = Turns(s, k, n)
    <3>1. n \in Nat /\ \A j \in 1 .. n : s[j].key = k <=> t[j].key = k
      BY <1>1
    <3> QED
      BY <3>1, TurnsSame
  <2> QED
    BY <2>1
<1>3. PICK l : l = Len(s)
  OBVIOUS
<1>4. l \in Nat /\ Turns(t, k, l) = Turns(s, k, l) /\ Len(t) = l + more
  <2>1. l \in Nat /\ l \in 0 .. Len(s) /\ Len(t) = l + more
    BY <1>1, <1>3
  <2> QED
    BY <1>2, <2>1
<1>5. /\ Turns(t, k, l) \in Nat
      /\ Turns(t, k, l + 1) = Turns(t, k, l) + (IF t[l + 1].key = k THEN 1 ELSE 0)
  <2>1. l \in Nat
    BY <1>4
  <2> QED
    BY <2>1, TurnsStep
<1>6. CASE more = 1
  <2>1. t[l + 1] = x /\ Len(t) = l + 1
    BY <1>1, <1>3, <1>4, <1>6
  <2>2. Turns(t, k, Len(t)) = Turns(s, k, l) + (IF x.key = k THEN 1 ELSE 0)
    BY <1>4, <1>5, <2>1
  <2> QED
    BY <1>2, <1>3, <1>6, <2>2
<1>7. CASE more = 0
  <2>1. Len(t) = l
    BY <1>4, <1>7
  <2>2. Turns(t, k, Len(t)) = Turns(s, k, l) /\ Turns(s, k, l) \in Nat
    BY <1>4, <1>5, <2>1
  <2> QED
    BY <1>2, <1>3, <1>7, <2>2
<1> QED
  BY <1>6, <1>7

-----------------------------------------------------------------------------
(* The invariant implies the promise.                                      *)

LEMMA ReplayAnswers ==
  ASSUME FxInv
  PROVE  RecordingsReplay
<1> SUFFICES ASSUME fxSession = "replay", NEW i \in DOMAIN made, NEW k, k = made[i].key,
                    k \notin fxSource.blurred, Points(k[1], test.lane) > 0, ~Masks(k)
             PROVE  LET then == {j \in DOMAIN fxSource.made :
                                   /\ fxSource.made[j].key = k
                                   /\ Turn(fxSource.made, j) = Turn(made, i)}
                    IN  /\ then = {} => made[i].out = Stale
                        /\ \A j \in then : made[i].out = IF test.redact
                                                         THEN Redact(fxSource.made[j].out)
                                                         ELSE fxSource.made[j].out
  BY DEF RecordingsReplay, Masks
<1>1. PICK src, log, calls : src = fxSource.made /\ log = entries /\ calls = made
  OBVIOUS
<1>2. /\ src \in Seq(FxCall) /\ log \in Seq(FxEntry) /\ calls \in Seq(FxCall)
      /\ fixture.is = "fixture" /\ log = fixture.entries
  BY <1>1 DEF FxInv, FxShape
<1>3. k \in FxKeys
  <2>1. calls[i] \in FxCall
    BY <1>1, <1>2
  <2> QED
    BY <1>1, <2>1 DEF FxCall
<1>4. Kept(src, log, {}, k, test.redact)
  BY <1>1, <1>2, <1>3 DEF FxInv, SourceInv
<1>5. Played(calls, log, k)
  BY <1>1, <1>3 DEF FxInv, PlayedInv
<1>6. i \in DOMAIN calls /\ calls[i].key = k /\ Turn(calls, i) = Turns(calls, k, i)
  BY <1>1 DEF Turn, Turns
<1>7. \A j \in DOMAIN src : src[j].key = k => Turn(src, j) = Turns(src, k, j)
  BY DEF Turn, Turns
<1>8. \A e \in DOMAIN log : e \in Nat
  BY <1>2
<1>9. ASSUME \A j \in DOMAIN src : src[j].key = k => Turn(src, j) # Turn(calls, i)
      PROVE  calls[i].out = Stale
  <2>1. ASSUME NEW e \in DOMAIN log, log[e].key = k, Turns(log, k, e) = Turns(calls, k, i)
        PROVE  FALSE
    <3>1. PICK m \in DOMAIN src : src[m].key = k /\ Turns(src, k, m) = Turns(log, k, e)
      BY <1>4, <2>1 DEF Kept
    <3> QED
      BY <1>6, <1>7, <1>9, <2>1, <3>1
  <2> QED
    BY <1>5, <1>6, <2>1 DEF Played
<1>10. ASSUME NEW j \in DOMAIN src, src[j].key = k, Turn(src, j) = Turn(calls, i)
       PROVE  calls[i].out = Shown(src[j].out, test.redact)
  <2>1. PICK e \in DOMAIN log : /\ log[e].key = k /\ Turns(log, k, e) = Turns(src, k, j)
                                /\ log[e].out = Shown(src[j].out, test.redact)
    BY <1>4, <1>10 DEF Kept
  <2>2. Turns(log, k, e) = Turns(calls, k, i)
    BY <1>6, <1>7, <1>10, <2>1
  <2>3. PICK f \in DOMAIN log : /\ log[f].key = k /\ Turns(log, k, f) = Turns(calls, k, i)
                                /\ calls[i].out = log[f].out
    BY <1>5, <1>6, <2>1, <2>2 DEF Played
  <2>4. e = f
    <3>1. e \in Nat /\ f \in Nat /\ Turns(log, k, e) = Turns(log, k, f)
      BY <1>8, <2>2, <2>3
    <3> QED
      BY <2>1, <2>3, <3>1, TurnsName
  <2> QED
    BY <2>1, <2>3, <2>4
<1> QED
  BY <1>1, <1>9, <1>10 DEF Shown

LEMMA FixturesAnswer ==
  ASSUME FxInv
  PROVE  FixturesServe
BY ReplayAnswers DEF FxInv, FixturesServe

-----------------------------------------------------------------------------
(* Sessions.                                                               *)

LEMMA FxStarts ==
  ASSUME FixturesInit
  PROVE  FxInv
<1>1. /\ test \in [redact : BOOLEAN, lane : {"sync", "async"}]
      /\ fixture.is = "absent" /\ fxSession = "none" /\ entries = <<>>
      /\ cursor = [k \in FxKeys |-> 0] /\ flight = <<>> /\ made = <<>> /\ blurred = {}
      /\ fxSource.made = <<>> /\ served = 0
  BY DEF FixturesInit, NoFixture, NoSource
<1>2. \A S : <<>> \in Seq(S)
  OBVIOUS
<1>3. cursor \in [FxKeys -> Nat] /\ \A k \in FxKeys : cursor[k] = 0
  BY <1>1
<1>4. FxShape
  BY <1>1, <1>2, <1>3 DEF FxShape
<1>5. FlightInv
  BY <1>1 DEF FlightInv
<1> QED
  BY <1>1, <1>4, <1>5 DEF FxInv, RecordedInv, NumberedInv, SourceInv, PlayedInv, FixtureIsWhole

LEMMA OpensStep ==
  ASSUME FxInv, RecordMode \/ LoadFixture
  PROVE  FxInv'
<1>1. /\ fxSession = "none" /\ fxSession' \in {"record", "replay"}
      /\ fxSession' = "record" => entries' = <<>>
      /\ fxSession' = "replay" => fixture.is = "fixture" /\ entries' = fixture.entries
      /\ UNCHANGED <<fixture, test, cursor, flight, made, blurred, fxSource, served>>
  BY DEF RecordMode, LoadFixture, Opens
<1>2. /\ made = <<>> /\ flight = <<>> /\ blurred = {} /\ served = 0
      /\ \A k \in FxKeys : cursor[k] = 0
  BY <1>1 DEF FxInv, FxShape
<1>3. entries' \in Seq(FxEntry)
  <2>1. <<>> \in Seq(FxEntry)
    OBVIOUS
  <2>2. fixture.is = "fixture" => fixture.entries \in Seq(FxEntry)
    BY DEF FxInv, FxShape
  <2> QED
    BY <1>1, <2>1, <2>2
<1>4. FxShape'
  BY <1>1, <1>3 DEF FxInv, FxShape
<1>5. FlightInv'
  BY <1>1, <1>2 DEF FlightInv
<1>6. RecordedInv'
  <2>1. ASSUME fxSession' = "record", NEW k
        PROVE  /\ \A i \in DOMAIN flight' : FALSE
               /\ Turns(made', k, Len(made')) =
                    Turns(entries', k, Len(entries')) + (IF InFlight(k)' THEN 1 ELSE 0)
               /\ Kept(made', entries', Open', k, FALSE)
    <3>1. made' = <<>> /\ entries' = <<>> /\ flight' = <<>>
      BY <1>1, <1>2, <2>1
    <3>2. Turns(<<>>, k, Len(<<>>)) = 0
      BY TurnsEmpty
    <3>3. ~InFlight(k)'
      BY <3>1 DEF InFlight
    <3>4. Turns(made', k, Len(made')) = 0 /\ Turns(entries', k, Len(entries')) = 0
      BY <3>1, <3>2
    <3>5. Kept(made', entries', Open', k, FALSE)
      <4>1. DOMAIN made' = {} /\ DOMAIN entries' = {}
        BY <3>1
      <4> QED
        BY <4>1 DEF Kept
    <3>6. \A i \in DOMAIN flight' : FALSE
      BY <3>1
    <3>7. (IF InFlight(k)' THEN 1 ELSE 0) = 0
      BY <3>3
    <3>8. Turns(made', k, Len(made')) =
            Turns(entries', k, Len(entries')) + (IF InFlight(k)' THEN 1 ELSE 0)
      <4>1. PICK a, b, c : /\ a = Turns(made', k, Len(made')) /\ b = Turns(entries', k, Len(entries'))
                          /\ c = (IF InFlight(k)' THEN 1 ELSE 0)
        OBVIOUS
      <4>2. a = 0 /\ b = 0 /\ c = 0
        BY <3>4, <3>7, <4>1
      <4>3. a = b + c
        BY <4>2
      <4> QED
        BY <4>1, <4>3, Zenon
    <3> QED
      BY <3>5, <3>6, <3>8, Zenon
  <2> QED
    BY <2>1 DEF RecordedInv
<1>7. NumberedInv'
  BY <1>1, <1>2 DEF NumberedInv
<1>8. PlayedInv'
  <2>1. ASSUME fxSession' = "replay", NEW k \in FxKeys
        PROVE  /\ cursor'[k] <= Len(entries')
               /\ Turns(entries', k, cursor'[k]) <= Turns(made', k, Len(made'))
               /\ ~(Turns(entries', k, cursor'[k]) < Turns(made', k, Len(made')))
               /\ Played(made', entries', k)
    <3>1. cursor'[k] = 0 /\ made' = <<>> /\ Len(entries') \in Nat
      BY <1>1, <1>2, <1>3
    <3>2. Turns(<<>>, k, Len(<<>>)) = 0 /\ Turns(entries', k, 0) = 0
      BY TurnsEmpty
    <3>3. Played(<<>>, entries', k)
      BY DEF Played
    <3> QED
      BY <3>1, <3>2, <3>3
  <2> QED
    BY <2>1 DEF PlayedInv
<1>9. SourceInv' /\ FixtureIsWhole'
  BY <1>1 DEF FxInv, SourceInv, Masks, FixtureIsWhole
<1> QED
  BY <1>4, <1>5, <1>6, <1>7, <1>8, <1>9 DEF FxInv

LEMMA SpoilStep ==
  ASSUME FxInv, SpoilFixture
  PROVE  FxInv'
<1>1. /\ fxSession = "none" /\ fixture'.is = "absent"
      /\ UNCHANGED <<test, fxSession, entries, cursor, flight, made, blurred, fxSource, served>>
  BY DEF SpoilFixture, NoFixture
<1>2. FxShape' /\ FlightInv'
  BY <1>1 DEF FxInv, FxShape, FlightInv
<1> QED
  BY <1>1, <1>2 DEF FxInv, RecordedInv, NumberedInv, SourceInv, PlayedInv, FixtureIsWhole

LEMMA FxStays ==
  ASSUME FxInv, UNCHANGED fixtureVars
  PROVE  FxInv'
<1>1. UNCHANGED <<fixture, test, fxSession, entries, cursor, flight, made, blurred, fxSource, served>>
  BY DEF fixtureVars
<1>2. FxShape' /\ FlightInv'
  BY <1>1 DEF FxInv, FxShape, FlightInv
<1>3. RecordedInv' /\ NumberedInv'
  <2>1. Open' = Open /\ \A k : InFlight(k)' <=> InFlight(k)
    BY <1>1 DEF Open, InFlight
  <2>2. RecordedInv'
    BY <1>1, <2>1 DEF FxInv, RecordedInv
  <2>3. NumberedInv'
    BY <1>1 DEF FxInv, NumberedInv
  <2> QED
    BY <2>2, <2>3
<1>4. SourceInv' /\ PlayedInv' /\ FixtureIsWhole'
  BY <1>1 DEF FxInv, SourceInv, PlayedInv, FixtureIsWhole, Matches, Masks
<1> QED
  BY <1>2, <1>3, <1>4 DEF FxInv

LEMMA RedactMeans ==
  ASSUME NEW v \in FxOut
  PROVE  Redact(v) \in FxOut /\ Redact(v)[1] = v[1] /\ Redact(v)[2] # "secret"
<1>1. PICK n \in Nat, w \in {"plain", "secret", "masked"} : v = <<n, w>>
  BY DEF FxOut
<1>2. Redact(v) = IF w = "secret" THEN <<n, "masked">> ELSE <<n, w>>
  BY <1>1 DEF Redact
<1> QED
  BY <1>1, <1>2 DEF FxOut

(* The log of a key as the file stores it.                                 *)
LEMMA SavedKept ==
  ASSUME NEW calls, NEW log, NEW stored, NEW open, NEW k, NEW r,
         Kept(calls, log, open, k, FALSE), open = {}, DOMAIN stored = DOMAIN log,
         \A e \in DOMAIN log : e \in Nat /\ \A j \in 1 .. e : j \in DOMAIN log,
         \A e \in DOMAIN log : /\ stored[e].key = k <=> log[e].key = k
                               /\ stored[e].out = Shown(log[e].out, r)
  PROVE  Kept(calls, stored, {}, k, r)
<1>1. \A e \in DOMAIN log : Turns(stored, k, e) = Turns(log, k, e)
  <2>1. ASSUME NEW e \in DOMAIN log PROVE Turns(stored, k, e) = Turns(log, k, e)
    <3>1. e \in Nat /\ \A j \in 1 .. e : log[j].key = k <=> stored[j].key = k
      OBVIOUS
    <3> QED
      BY <3>1, TurnsSame
  <2> QED
    BY <2>1
<1>2. ASSUME NEW m \in DOMAIN calls, calls[m].key = k
      PROVE  \E e \in DOMAIN stored : /\ stored[e].key = k /\ Turns(stored, k, e) = Turns(calls, k, m)
                                     /\ stored[e].out = Shown(calls[m].out, r)
  <2>1. PICK e \in DOMAIN log : /\ log[e].key = k /\ Turns(log, k, e) = Turns(calls, k, m)
                                /\ log[e].out = Shown(calls[m].out, FALSE)
    BY <1>2 DEF Kept
  <2>2. log[e].out = calls[m].out
    BY <2>1 DEF Shown
  <2>3. /\ e \in DOMAIN stored /\ stored[e].key = k /\ Turns(stored, k, e) = Turns(calls, k, m)
        /\ stored[e].out = Shown(calls[m].out, r)
    BY <1>1, <2>1, <2>2
  <2> QED
    BY <2>3
<1>3. ASSUME NEW e \in DOMAIN stored, stored[e].key = k
      PROVE  \E m \in DOMAIN calls : calls[m].key = k /\ Turns(calls, k, m) = Turns(stored, k, e)
  <2>1. e \in DOMAIN log /\ log[e].key = k
    BY <1>3
  <2>2. PICK m \in DOMAIN calls : calls[m].key = k /\ Turns(calls, k, m) = Turns(log, k, e)
    BY <2>1 DEF Kept
  <2> QED
    BY <1>1, <2>1, <2>2
<1> QED
  BY <1>2, <1>3 DEF Kept

(* A recording session that completes.                                     *)
LEMMA SaveFixtureStep ==
  ASSUME FxInv, fxSession = "record", flight = <<>>, SaveFixture, test' = test,
         fxSource' = [made |-> made, blurred |-> blurred]
  PROVE  /\ fixture'.is = "fixture" /\ fixture'.entries \in Seq(FxEntry)
         /\ fxSource'.made \in Seq(FxCall) /\ SourceInv' /\ FixtureIsWhole'
<1>1. PICK r, log, stored : /\ r = test.redact /\ log = entries
                          /\ stored = IF r THEN [i \in DOMAIN log |->
                                                 [key |-> <<log[i].key[1], Redact(log[i].key[2])>>,
                                                  out |-> Redact(log[i].out)]]
                                     ELSE log
  OBVIOUS
<1>2. fixture' = [is |-> "fixture", entries |-> stored]
  BY <1>1 DEF SaveFixture
<1>3. PICK fx, src : fx = fixture' /\ src = fxSource'
  OBVIOUS
<1>4. fx.is = "fixture" /\ fx.entries = stored /\ src.made = made /\ src.blurred = blurred
  BY <1>2, <1>3
<1>5. /\ log \in Seq(FxEntry) /\ made \in Seq(FxCall) /\ r \in BOOLEAN
      /\ \A e \in DOMAIN log : log[e].key \in FxKeys
  BY <1>1 DEF FxInv, FxShape, NumberedInv
<1>6. \A e \in DOMAIN log : log[e] \in FxEntry /\ log[e].out \in FxOut
  <2>1. \A e \in DOMAIN log : log[e] \in FxEntry
    BY <1>5
  <2> QED
    BY <2>1 DEF FxEntry
<1>7. DOMAIN stored = DOMAIN log
  BY <1>1
<1>8. \A e \in DOMAIN log :
        /\ stored[e] \in FxEntry /\ stored[e].out = Shown(log[e].out, r)
        /\ stored[e].key = IF r THEN <<log[e].key[1], Redact(log[e].key[2])>> ELSE log[e].key
        /\ stored[e].out[1] = log[e].out[1]
        /\ r => stored[e].key[2][2] # "secret" /\ stored[e].out[2] # "secret"
  <2> SUFFICES ASSUME NEW e \in DOMAIN log
               PROVE  /\ stored[e] \in FxEntry /\ stored[e].out = Shown(log[e].out, r)
                      /\ stored[e].key =
                           IF r THEN <<log[e].key[1], Redact(log[e].key[2])>> ELSE log[e].key
                      /\ stored[e].out[1] = log[e].out[1]
                      /\ r => stored[e].key[2][2] # "secret" /\ stored[e].out[2] # "secret"
    OBVIOUS
  <2>1. PICK key, out : key = log[e].key /\ out = log[e].out
    OBVIOUS
  <2>2. key \in FxKeys /\ out \in FxOut
    BY <1>5, <1>6, <2>1
  <2>3. CASE r
    <3>1. PICK nk : nk = <<key[1], Redact(key[2])>>
      OBVIOUS
    <3>2. stored[e] = [key |-> nk, out |-> Redact(out)]
      BY <1>1, <2>1, <2>3, <3>1
    <3>3. Redact(out) \in FxOut /\ Redact(out)[1] = out[1] /\ Redact(out)[2] # "secret"
      BY <2>2, RedactMeans
    <3>4. nk \in FxLoggedKeys
      BY <2>2, <3>1 DEF FxLoggedKeys
    <3>5. nk[2][2] # "secret"
      <4>1. nk[2] = Redact(key[2])
        BY <3>1
      <4>2. Redact(key[2])[2] # "secret"
        BY DEF Redact
      <4> QED
        BY <4>1, <4>2
    <3>6. stored[e].key = nk /\ stored[e].out = Redact(out) /\ stored[e] \in FxEntry
      BY <3>2, <3>3, <3>4 DEF FxEntry
    <3> QED
      BY <2>1, <2>3, <3>1, <3>3, <3>5, <3>6 DEF Shown
  <2>4. CASE ~r
    BY <1>1, <1>6, <2>4 DEF Shown
  <2> QED
    BY <1>5, <2>3, <2>4
<1>9. stored \in Seq(FxEntry)
  <2>1. log \in [1 .. Len(log) -> FxEntry] /\ Len(log) \in Nat /\ DOMAIN log = 1 .. Len(log)
    BY <1>5, LenProperties
  <2>2. CASE r
    <3>1. stored \in [1 .. Len(log) -> FxEntry]
      <4>1. \A e \in 1 .. Len(log) : stored[e] \in FxEntry
        BY <1>8, <2>1
      <4>2. stored = [e \in 1 .. Len(log) |-> stored[e]]
        BY <1>1, <2>1, <2>2
      <4> QED
        BY <4>1, <4>2
    <3> QED
      BY <2>1, <3>1
  <2> QED
    BY <1>1, <1>5, <2>2
<1>10. SourceInv'
  <2>1. ASSUME NEW k \in FxKeys \ blurred, Points(k[1], test.lane) > 0, ~(r /\ k[2][2] = "secret")
        PROVE  Kept(made, stored, {}, k, r)
    <3>1. Kept(made, log, Open, k, FALSE)
      BY <1>1, <2>1 DEF FxInv, RecordedInv
    <3>2. Open = {}
      BY DEF Open
    <3>3. \A e \in DOMAIN log : stored[e].key = k <=> log[e].key = k
      <4>1. ASSUME NEW e \in DOMAIN log PROVE stored[e].key = k <=> log[e].key = k
        <5>1. PICK x : x = log[e].key
          OBVIOUS
        <5>2. x \in FxKeys /\ stored[e].key = IF r THEN <<x[1], Redact(x[2])>> ELSE x
          BY <1>5, <1>8, <5>1
        <5>3. r => (<<x[1], Redact(x[2])>> = k <=> x = k)
          BY <2>1, <5>2, MaskedKeys
        <5> QED
          BY <1>5, <5>1, <5>2, <5>3
      <4> QED
        BY <4>1
    <3>4. \A e \in DOMAIN log : e \in Nat /\ \A j \in 1 .. e : j \in DOMAIN log
      BY <1>5
    <3>5. \A e \in DOMAIN log : stored[e].out = Shown(log[e].out, r)
      BY <1>8
    <3> QED
      BY <1>7, <3>1, <3>2, <3>3, <3>4, <3>5, SavedKept
  <2> QED
    BY <1>1, <1>3, <1>4, <2>1 DEF SourceInv, Masks
<1>11. FixtureIsWhole'
  <2>1. \A i \in DOMAIN stored : r => stored[i].key[2][2] # "secret" /\ stored[i].out[2] # "secret"
    BY <1>7, <1>8
  <2>2. ASSUME NEW m \in DOMAIN made, Points(made[m].key[1], test.lane) > 0, made[m].out # Stale
        PROVE  Cardinality({j \in DOMAIN stored : stored[j].out[1] = made[m].out[1]}) = 1
    <3>1. PICK e \in DOMAIN log : log[e].out[1] = made[m].out[1]
      BY <1>1, <2>2 DEF FxInv, NumberedInv
    <3>2. \A j \in DOMAIN log : j # e => log[j].out[1] # log[e].out[1]
      BY <1>1 DEF FxInv, NumberedInv
    <3>3. {j \in DOMAIN stored : stored[j].out[1] = made[m].out[1]} = {e}
      <4>1. PICK id : id = made[m].out[1]
        OBVIOUS
      <4>2. \A j \in DOMAIN stored : j \in DOMAIN log /\ stored[j].out[1] = log[j].out[1]
        BY <1>7, <1>8, Zenon
      <4>3. \A j \in DOMAIN stored : stored[j].out[1] = id => j = e
        BY <3>1, <3>2, <4>1, <4>2, Zenon
      <4>4. e \in DOMAIN stored /\ stored[e].out[1] = id
        BY <1>7, <3>1, <4>1, <4>2, Zenon
      <4> QED
        BY <4>1, <4>3, <4>4, Zenon
    <3> QED
      BY <3>3, FS_Singleton
  <2>3. ASSUME NEW i \in DOMAIN stored, r
        PROVE  "secret" \notin {stored[i].key[2][2], stored[i].out[2]}
    BY <2>1, <2>3
  <2> QED
    <3>1. /\ fixture'.entries = stored /\ fxSource'.made = made
          /\ (test'.redact <=> r) /\ test'.lane = test.lane
      BY <1>1, <1>3, <1>4
    <3>2. test'.redact => \A i \in DOMAIN fixture'.entries :
            "secret" \notin {fixture'.entries[i].key[2][2], fixture'.entries[i].out[2]}
      BY <2>3, <3>1
    <3>3. ASSUME NEW i \in DOMAIN fxSource'.made,
                 Points(fxSource'.made[i].key[1], test'.lane) > 0, fxSource'.made[i].out # Stale
          PROVE  Cardinality({j \in DOMAIN fixture'.entries :
                                fixture'.entries[j].out[1] = fxSource'.made[i].out[1]}) = 1
      BY <2>2, <3>1, <3>3
    <3> QED
      BY <3>2, <3>3 DEF FixtureIsWhole
<1> QED
  BY <1>3, <1>4, <1>5, <1>9, <1>10, <1>11

LEMMA LeavesStep ==
  ASSUME FxInv, NEW completed \in BOOLEAN, Leaves(completed)
  PROVE  FxInv'
<1>1. /\ fxSession \in {"record", "replay"} /\ flight = <<>> /\ fxSession' = "none"
      /\ entries' = <<>> /\ cursor' = [k \in FxKeys |-> 0]
      /\ made' = <<>> /\ blurred' = {} /\ served' = 0 /\ test' = test /\ flight' = <<>>
      /\ IF fxSession = "record" /\ completed THEN SaveFixture ELSE UNCHANGED fixture
      /\ fxSource' = IF fxSession = "record" /\ completed
                     THEN [made |-> made, blurred |-> blurred] ELSE fxSource
  BY DEF Leaves, FxInv, FxShape
<1>2. /\ fixture'.is = "fixture" => fixture'.entries \in Seq(FxEntry)
      /\ fxSource'.made \in Seq(FxCall) /\ SourceInv' /\ FixtureIsWhole'
  <2>1. CASE fxSession = "record" /\ completed
    BY <1>1, <2>1, SaveFixtureStep
  <2>2. CASE ~(fxSession = "record" /\ completed)
    <3>1. UNCHANGED <<fixture, fxSource, test>>
      BY <1>1, <2>2
    <3>2. /\ fixture.is = "fixture" => fixture.entries \in Seq(FxEntry)
          /\ fxSource.made \in Seq(FxCall)
      BY DEF FxInv, FxShape
    <3>3. SourceInv'
      BY <3>1 DEF FxInv, SourceInv, Masks
    <3>4. FixtureIsWhole'
      BY <3>1 DEF FxInv, FixtureIsWhole
    <3> QED
      BY <3>1, <3>2, <3>3, <3>4
  <2> QED
    BY <2>1, <2>2
<1>3. \A S : <<>> \in Seq(S)
  OBVIOUS
<1>4. cursor' \in [FxKeys -> Nat] /\ \A k \in FxKeys : cursor'[k] = 0
  BY <1>1
<1>5. test \in [redact : BOOLEAN, lane : {"sync", "async"}]
  BY DEF FxInv, FxShape
<1>6. FxShape'
  BY <1>1, <1>2, <1>3, <1>4, <1>5 DEF FxShape
<1>7. FlightInv'
  BY <1>1 DEF FlightInv
<1> QED
  BY <1>1, <1>2, <1>6, <1>7 DEF FxInv, RecordedInv, NumberedInv, PlayedInv

-----------------------------------------------------------------------------
(* Calls.                                                                  *)

LEMMA ExtendsMeans ==
  ASSUME NEW S, NEW s \in Seq(S), NEW t \in Seq(S), NEW x, NEW more \in {0, 1},
         Extends(t, s, x, more)
  PROVE  /\ Len(s) \in Nat /\ Len(t) \in Nat /\ Len(s) <= Len(t)
         /\ DOMAIN s = 1 .. Len(s) /\ DOMAIN t = 1 .. Len(t)
         /\ \A j \in DOMAIN s : j \in DOMAIN t /\ t[j] = s[j]
         /\ \A j \in DOMAIN t : j \in DOMAIN s \/ (more = 1 /\ j = Len(t) /\ t[j] = x)
         /\ more = 1 => Len(t) = Len(s) + 1 /\ Len(t) \in DOMAIN t /\ t[Len(t)] = x
         /\ more = 0 => DOMAIN t = DOMAIN s
<1>1. PICK l, n : l = Len(s) /\ n = Len(t)
  OBVIOUS
<1>2. l \in Nat /\ n \in Nat /\ DOMAIN s = 1 .. l /\ DOMAIN t = 1 .. n
  BY <1>1
<1>3. n = l + more /\ (\A j \in 1 .. l : t[j] = s[j]) /\ (more = 1 => t[l + 1] = x)
  BY <1>1 DEF Extends
<1>4. \A j \in DOMAIN s : j \in DOMAIN t /\ t[j] = s[j]
  BY <1>2, <1>3
<1>5. \A j \in DOMAIN t : j \in DOMAIN s \/ (more = 1 /\ j = n /\ t[j] = x)
  BY <1>2, <1>3
<1>6. more = 1 => n = l + 1 /\ n \in DOMAIN t /\ t[n] = x
  BY <1>2, <1>3
<1>7. l <= n /\ (more = 0 => DOMAIN t = DOMAIN s)
  BY <1>2, <1>3
<1> QED
  BY <1>1, <1>2, <1>4, <1>5, <1>6, <1>7

(* A session goes on.                                                      *)
LEMMA Within ==
  ASSUME FxInv, fxSession # "none", UNCHANGED <<fixture, test, fxSession, fxSource>>,
         entries' \in Seq(FxEntry), made' \in Seq(FxCall), flight' \in Seq(FxFlight),
         cursor' \in [FxKeys -> Nat], blurred' \subseteq FxKeys, served' \in Nat,
         fxSession = "replay" => entries' = entries,
         FlightInv', RecordedInv', NumberedInv', PlayedInv'
  PROVE  FxInv'
<1>1. FxShape'
  BY DEF FxInv, FxShape
<1>2. SourceInv' /\ FixtureIsWhole'
  BY DEF FxInv, SourceInv, FixtureIsWhole, Masks
<1> QED
  BY <1>1, <1>2 DEF FxInv

(* Calls of other keys leave what a key has been answered as it is.        *)
LEMMA PlayedGrows ==
  ASSUME NEW C, NEW calls \in Seq(C), NEW calls2 \in Seq(C), NEW log, NEW k,
         Played(calls, log, k), Len(calls) <= Len(calls2),
         \A m \in DOMAIN calls : calls2[m].key = calls[m].key,
         \A m \in DOMAIN calls2 : calls2[m].key = k =>
           \/ m \in DOMAIN calls /\ calls2[m].out = calls[m].out
           \/ /\ calls2[m].out = Stale
              /\ \A e \in DOMAIN log : log[e].key = k => Turns(log, k, e) # Turns(calls2, k, m)
           \/ \E e \in DOMAIN log : /\ log[e].key = k /\ Turns(log, k, e) = Turns(calls2, k, m)
                                    /\ calls2[m].out = log[e].out
  PROVE  Played(calls2, log, k)
<1>1. /\ DOMAIN calls = 1 .. Len(calls) /\ DOMAIN calls2 = 1 .. Len(calls2)
      /\ Len(calls) \in Nat /\ Len(calls2) \in Nat
  OBVIOUS
<1>2. ASSUME NEW m \in DOMAIN calls, calls2[m].key = k, calls2[m].out = calls[m].out
      PROVE  \/ /\ calls2[m].out = Stale
                /\ \A e \in DOMAIN log : log[e].key = k => Turns(log, k, e) # Turns(calls2, k, m)
             \/ \E e \in DOMAIN log : /\ log[e].key = k /\ Turns(log, k, e) = Turns(calls2, k, m)
                                      /\ calls2[m].out = log[e].out
  <2>1. Turns(calls2, k, m) = Turns(calls, k, m)
    <3>1. m \in Nat /\ \A j \in 1 .. m : j \in DOMAIN calls
      BY <1>1
    <3>2. \A j \in 1 .. m : calls[j].key = k <=> calls2[j].key = k
      BY <3>1
    <3> QED
      BY <3>1, <3>2, TurnsSame
  <2>2. calls[m].key = k
    BY <1>2
  <2> QED
    BY <1>2, <2>1, <2>2 DEF Played
<1> QED
  BY <1>2 DEF Played

(* A call that takes off, of the test (more = 1) or inside a wrapped flow. *)
TakesOff(k, more, nth, x) ==
  /\ fxSession \in {"record", "replay"} /\ nth = IF more = 1 THEN Len(made) + 1 ELSE 0
  /\ x = [key |-> k, out |-> Stale]
  /\ flight' = Append(flight, [key |-> k, nth |-> nth])
  /\ made' \in Seq(FxCall) /\ Extends(made', made, x, more)
  /\ blurred \subseteq blurred' /\ blurred' \subseteq FxKeys
  /\ more = 0 \/ InFlight(k) => k \in blurred'
  /\ more = 1 /\ fxSession = "replay" => Points(k[1], test.lane) = 0
  /\ UNCHANGED <<fixture, test, fxSession, entries, cursor, fxSource, served>>

LEMMA Started ==
  ASSUME FxInv, NEW k \in FxKeys, NEW more \in {0, 1}, NEW nth, NEW x, TakesOff(k, more, nth, x)
  PROVE  FxInv'
<1>0. /\ fxSession \in {"record", "replay"}
      /\ blurred \subseteq blurred' /\ blurred' \subseteq FxKeys
      /\ more = 0 \/ InFlight(k) => k \in blurred'
      /\ more = 1 /\ fxSession = "replay" => Points(k[1], test.lane) = 0
      /\ UNCHANGED <<fixture, test, fxSession, entries, cursor, fxSource, served>>
  BY DEF TakesOff
<1>1. PICK F, F2, M, M2, E, y : /\ F = flight /\ F2 = flight' /\ M = made /\ M2 = made' /\ E = entries
                               /\ y = [key |-> k, nth |-> nth]
  OBVIOUS
<1>2. /\ F \in Seq(FxFlight) /\ M \in Seq(FxCall) /\ M2 \in Seq(FxCall) /\ E \in Seq(FxEntry)
      /\ cursor \in [FxKeys -> Nat] /\ served \in Nat
  BY <1>1 DEF FxInv, FxShape, TakesOff
<1>3. /\ Len(M) \in Nat /\ Len(M2) \in Nat /\ Len(M) <= Len(M2)
      /\ DOMAIN M = 1 .. Len(M) /\ DOMAIN M2 = 1 .. Len(M2)
      /\ \A j \in DOMAIN M : j \in DOMAIN M2 /\ M2[j] = M[j]
      /\ \A j \in DOMAIN M2 : j \in DOMAIN M \/ (more = 1 /\ j = Len(M2) /\ M2[j] = x)
      /\ more = 1 => Len(M2) = Len(M) + 1 /\ Len(M2) \in DOMAIN M2 /\ M2[Len(M2)] = x
  <2>1. Extends(M2, M, x, more)
    BY <1>1 DEF TakesOff
  <2> QED
    BY <1>2, <2>1, ExtendsMeans
<1>4. nth \in Nat /\ (nth > 0 <=> more = 1) /\ (more = 1 => nth = Len(M2)) /\ (more = 0 => nth = 0)
  <2>1. PICK l, n : l = Len(M) /\ n = Len(M2)
    OBVIOUS
  <2>2. nth = IF more = 1 THEN l + 1 ELSE 0
    BY <1>1, <2>1 DEF TakesOff
  <2>3. l \in Nat /\ (more = 1 => n = l + 1)
    BY <1>3, <2>1
  <2> QED
    BY <2>1, <2>2, <2>3
<1>n. PICK l, l2 : l = Len(M) /\ l2 = Len(M2)
  OBVIOUS
<1>m. /\ l \in Nat /\ l2 \in Nat /\ l <= l2 /\ DOMAIN M = 1 .. l /\ DOMAIN M2 = 1 .. l2
      /\ more = 1 => l2 = l + 1 /\ nth = l + 1
      /\ more = 0 => nth = 0
      /\ \A n \in Nat : n > 0 /\ n <= l => n \in DOMAIN M /\ n <= l2 /\ n # nth
  <2>1. /\ l \in Nat /\ l2 \in Nat /\ l <= l2 /\ DOMAIN M = 1 .. l /\ DOMAIN M2 = 1 .. l2
        /\ more = 1 => l2 = l + 1
    BY <1>3, <1>n
  <2>2. nth = IF more = 1 THEN l + 1 ELSE 0
    BY <1>1, <1>n DEF TakesOff
  <2> QED
    BY <2>1, <2>2
<1>5. y \in FxFlight /\ y.key = k /\ y.nth = nth /\ x.key = k /\ x.out = Stale
  BY <1>1, <1>4 DEF FxFlight, TakesOff
<1>6. F2 \in Seq(FxFlight) /\ Extends(F2, F, y, 1)
  <2>1. F2 = Append(F, y)
    BY <1>1 DEF TakesOff
  <2> QED
    BY <1>2, <1>5, <2>1, AppendExtends
<1>7. /\ \A j \in DOMAIN F : j \in DOMAIN F2 /\ F2[j] = F[j]
      /\ \A j \in DOMAIN F2 : j \in DOMAIN F \/ (j = Len(F2) /\ F2[j] = y)
      /\ Len(F2) \in DOMAIN F2 /\ F2[Len(F2)] = y
      /\ Len(F2) \notin DOMAIN F
  <2>1. /\ DOMAIN F = 1 .. Len(F) /\ Len(F) \in Nat /\ Len(F2) = Len(F) + 1
        /\ \A j \in DOMAIN F : j \in DOMAIN F2 /\ F2[j] = F[j]
        /\ \A j \in DOMAIN F2 : j \in DOMAIN F \/ (j = Len(F2) /\ F2[j] = y)
        /\ Len(F2) \in DOMAIN F2 /\ F2[Len(F2)] = y
    BY <1>2, <1>6, ExtendsMeans
  <2>2. Len(F2) \notin DOMAIN F
    BY <2>1
  <2> QED
    BY <2>1, <2>2
<1>8. /\ \A j \in DOMAIN F : F[j].nth > 0 =>
           /\ F[j].nth <= Len(M) /\ M[F[j].nth].key = F[j].key
           /\ fxSession = "replay" => Points(F[j].key[1], test.lane) = 0
      /\ \A i, j \in DOMAIN F : i # j /\ F[i].nth > 0 => F[i].nth # F[j].nth
      /\ \A j \in DOMAIN F : F[j].nth \in Nat
  <2>1. \A j \in DOMAIN F : F[j] \in FxFlight
    BY <1>2
  <2>2. \A j \in DOMAIN F : F[j].nth \in Nat
    BY <2>1 DEF FxFlight
  <2> QED
    BY <1>1, <2>2 DEF FxInv, FlightInv
<1>9. FlightInv'
  <2>1. ASSUME NEW j \in DOMAIN F2, F2[j].nth > 0
        PROVE  /\ F2[j].nth <= Len(M2) /\ M2[F2[j].nth].key = F2[j].key
               /\ fxSession = "replay" => Points(F2[j].key[1], test.lane) = 0
    <3>1. CASE j \in DOMAIN F
      <4>1. PICK n : n = F[j].nth
        OBVIOUS
      <4>2. n \in Nat /\ n > 0 /\ n <= Len(M) /\ F2[j] = F[j] /\ M[n].key = F[j].key
        <5>1. F2[j] = F[j]
          BY <1>7, <3>1
        <5>2. n \in Nat /\ n > 0
          BY <1>8, <2>1, <3>1, <4>1, <5>1
        <5>3. n <= Len(M) /\ M[n].key = F[j].key
          BY <1>8, <3>1, <4>1, <5>2
        <5> QED
          BY <5>1, <5>2, <5>3
      <4>3. n \in DOMAIN M /\ n <= Len(M2)
        BY <1>m, <1>n, <4>2
      <4> QED
        BY <1>3, <1>8, <3>1, <4>1, <4>2, <4>3
    <3>2. CASE j \notin DOMAIN F
      <4>1. F2[j] = y
        BY <1>7, <3>2
      <4>2. more = 1 /\ nth = l2 /\ l2 = Len(M2)
        BY <1>4, <1>5, <1>n, <2>1, <4>1
      <4>3. M2[nth].key = k
        BY <1>3, <1>5, <4>2
      <4>4. nth <= Len(M2)
        BY <1>m, <4>2
      <4>5. fxSession = "replay" => Points(k[1], test.lane) = 0
        BY <1>0, <4>2
      <4> QED
        BY <1>5, <4>1, <4>3, <4>4, <4>5
    <3> QED
      BY <3>1, <3>2
  <2>2. ASSUME NEW i \in DOMAIN F2, NEW j \in DOMAIN F2, i # j, F2[i].nth > 0
        PROVE  F2[i].nth # F2[j].nth
    <3>1. CASE i \in DOMAIN F /\ j \in DOMAIN F
      BY <1>7, <1>8, <2>2, <3>1
    <3>2. CASE i \in DOMAIN F /\ j \notin DOMAIN F
      <4>1. F2[i] = F[i] /\ F2[j].nth = nth /\ F[i].nth \in Nat /\ F[i].nth > 0
        BY <1>5, <1>7, <1>8, <2>2, <3>2
      <4>2. PICK n : n = F[i].nth
        OBVIOUS
      <4>3. n \in Nat /\ n > 0 /\ n <= Len(M)
        BY <1>8, <3>2, <4>1, <4>2
      <4>4. n # nth
        BY <1>m, <1>n, <4>3
      <4> QED
        BY <4>1, <4>2, <4>4
    <3>3. CASE i \notin DOMAIN F
      <4>1. F2[i].nth = nth /\ j \in DOMAIN F
        BY <1>5, <1>7, <2>2, <3>3
      <4>2. more = 1 /\ nth = Len(M) + 1 /\ F2[j] = F[j] /\ F[j].nth \in Nat
        BY <1>3, <1>4, <1>7, <1>8, <2>2, <4>1
      <4>3. F[j].nth = 0 \/ F[j].nth <= Len(M)
        BY <1>8, <4>1, <4>2
      <4> QED
        BY <1>3, <4>1, <4>2, <4>3
    <3> QED
      BY <3>1, <3>2, <3>3
  <2> QED
    BY <1>0, <1>1, <2>1, <2>2 DEF FlightInv
<1>10. RecordedInv'
  <2> SUFFICES ASSUME fxSession' = "record", NEW h \in FxKeys \ blurred',
                      Points(h[1], test'.lane) > 0
               PROVE  /\ \A i \in DOMAIN flight' : flight'[i].key = h =>
                           /\ flight'[i].nth > 0
                           /\ Turns(made', h, flight'[i].nth) = Turns(made', h, Len(made'))
                      /\ \A i, j \in DOMAIN flight' :
                           flight'[i].key = h /\ flight'[j].key = h => i = j
                      /\ Turns(made', h, Len(made')) =
                           Turns(entries', h, Len(entries')) + (IF InFlight(h)' THEN 1 ELSE 0)
                      /\ Kept(made', entries', Open', h, FALSE)
    BY DEF RecordedInv
  <2>0. /\ fxSession = "record" /\ h \in FxKeys \ blurred /\ Points(h[1], test.lane) > 0
        /\ entries' = E
    BY <1>0, <1>1
  <2>1. /\ \A i \in DOMAIN F : F[i].key = h =>
             F[i].nth > 0 /\ Turns(M, h, F[i].nth) = Turns(M, h, Len(M))
        /\ \A i, j \in DOMAIN F : F[i].key = h /\ F[j].key = h => i = j
        /\ Turns(M, h, Len(M)) = Turns(E, h, Len(E)) + (IF InFlight(h) THEN 1 ELSE 0)
        /\ Kept(M, E, Open, h, FALSE)
    BY <1>1, <2>0 DEF FxInv, RecordedInv
  <2>2. /\ \A n \in 0 .. Len(M) : Turns(M2, h, n) = Turns(M, h, n)
        /\ Turns(M2, h, Len(M2)) = Turns(M, h, Len(M)) + (IF more = 1 /\ k = h THEN 1 ELSE 0)
    <3>1. Extends(M2, M, x, more)
      BY <1>1 DEF TakesOff
    <3>2. /\ \A n \in 0 .. Len(M) : Turns(M2, h, n) = Turns(M, h, n)
          /\ Turns(M2, h, Len(M2)) =
               Turns(M, h, Len(M)) + (IF more = 1 /\ x.key = h THEN 1 ELSE 0)
      <4>1. PICK S : S = FxCall
        OBVIOUS
      <4>2. M \in Seq(S) /\ M2 \in Seq(S)
        BY <1>2, <4>1, Zenon
      <4>3. more \in {0, 1}
        OBVIOUS
      <4> QED
        BY <3>1, <4>2, <4>3, TurnsExtend, SMTT(60)
    <3> QED
      BY <1>5, <3>2, Zenon
  <2>3. Turns(M, h, Len(M)) \in Nat /\ Turns(E, h, Len(E)) \in Nat
    <3>1. Len(M) \in Nat /\ Len(E) \in Nat
      BY <1>2
    <3> QED
      BY <3>1, TurnsStep
  <2>4. /\ InFlight(h) <=> \E i \in DOMAIN F : F[i].key = h
        /\ InFlight(h)' <=> \E i \in DOMAIN F2 : F2[i].key = h
    BY <1>1 DEF InFlight
  <2>5. Open \subseteq Open' /\ nth \in Open'
    <3>1. Open = {F[j].nth : j \in DOMAIN F} /\ Open' = {F2[j].nth : j \in DOMAIN F2}
      BY <1>1 DEF Open
    <3> QED
      BY <1>5, <1>7, <3>1
  <2>6. Kept(M2, E, Open', h, FALSE)
    <3>1. \A m \in DOMAIN M2 \ Open' : m \in DOMAIN M \ Open /\ M2[m].out = M[m].out
      <4>1. \A m \in DOMAIN M2 \ Open' : m # nth /\ m \notin Open
        BY <2>5
      <4>2. \A m \in DOMAIN M2 : m # nth => m \in DOMAIN M
        <5>1. \A m \in DOMAIN M2 : m \in DOMAIN M \/ (more = 1 /\ m = Len(M2))
          BY <1>3
        <5> QED
          BY <1>4, <5>1
      <4>3. \A m \in DOMAIN M : M2[m] = M[m]
        BY <1>3
      <4> QED
        BY <4>1, <4>2, <4>3
    <3>2. \A m \in 1 .. Len(M) : M2[m].key = M[m].key
      BY <1>3
    <3>3. Len(E) <= Len(E)
      <4>1. Len(E) \in Nat
        BY <1>2
      <4> QED
        BY <4>1
    <3> QED
      BY <1>2, <1>3, <2>1, <3>1, <3>2, <3>3, KeptGrows
  <2>7. CASE h = k
    <3>1. more = 1 /\ ~InFlight(k)
      BY <1>0, <2>7
    <3>2. \A i \in DOMAIN F : F[i].key # h
      BY <2>4, <2>7, <3>1
    <3>3. \A i \in DOMAIN F2 : F2[i].key = h => i = Len(F2) /\ F2[i] = y
      BY <1>7, <3>2
    <3>4. nth > 0 /\ Turns(M2, h, nth) = Turns(M2, h, Len(M2))
      BY <1>4, <3>1
    <3>5. InFlight(h)' /\ ~InFlight(h)
      BY <1>5, <1>7, <2>4, <2>7, <3>1
    <3>6. Turns(M2, h, Len(M2)) = Turns(E, h, Len(E)) + 1
      BY <2>1, <2>2, <2>3, <2>7, <3>1, <3>5
    <3>7. \A i \in DOMAIN F2 : F2[i].key = h =>
            F2[i].nth > 0 /\ Turns(M2, h, F2[i].nth) = Turns(M2, h, Len(M2))
      BY <1>5, <3>3, <3>4
    <3>8. \A i, j \in DOMAIN F2 : F2[i].key = h /\ F2[j].key = h => i = j
      BY <3>3
    <3>9. Turns(M2, h, Len(M2)) = Turns(E, h, Len(E)) + (IF InFlight(h)' THEN 1 ELSE 0)
      BY <3>5, <3>6
    <3> QED
      BY <1>1, <2>0, <2>6, <3>7, <3>8, <3>9
  <2>8. CASE h # k
    <3>1. \A i \in DOMAIN F2 : F2[i].key = h => i \in DOMAIN F /\ F2[i] = F[i]
      BY <1>5, <1>7, <2>8
    <3>2. InFlight(h)' <=> InFlight(h)
      BY <1>7, <2>4, <3>1
    <3>3. Turns(M2, h, Len(M2)) = Turns(M, h, Len(M))
      BY <2>2, <2>3, <2>8
    <3>4. ASSUME NEW i \in DOMAIN F2, F2[i].key = h
          PROVE  F2[i].nth > 0 /\ Turns(M2, h, F2[i].nth) = Turns(M2, h, Len(M2))
      <4>1. i \in DOMAIN F /\ F2[i] = F[i] /\ F[i].key = h
        BY <3>1, <3>4
      <4>2. PICK n : n = F[i].nth
        OBVIOUS
      <4>3. n \in Nat /\ n > 0 /\ n <= Len(M) /\ Turns(M, h, n) = Turns(M, h, Len(M))
        <5>1. n > 0 /\ Turns(M, h, n) = Turns(M, h, Len(M))
          BY <2>1, <4>1, <4>2
        <5>2. n \in Nat /\ n <= Len(M)
          BY <1>8, <4>1, <4>2, <5>1
        <5> QED
          BY <5>1, <5>2
      <4>4. n \in 0 .. Len(M)
        <5>1. n \in Nat /\ n <= l /\ l \in Nat
          BY <1>m, <1>n, <4>3
        <5> QED
          BY <1>n, <5>1
      <4> QED
        BY <2>2, <3>3, <4>1, <4>2, <4>3, <4>4
    <3>5. Turns(M2, h, Len(M2)) = Turns(E, h, Len(E)) + (IF InFlight(h)' THEN 1 ELSE 0)
      BY <2>1, <3>2, <3>3
    <3>6. \A i, j \in DOMAIN F2 : F2[i].key = h /\ F2[j].key = h => i = j
      BY <2>1, <3>1
    <3> QED
      BY <1>1, <2>0, <2>6, <3>4, <3>5, <3>6
  <2> QED
    BY <2>7, <2>8
<1>11. NumberedInv'
  <2>1. ASSUME fxSession = "record", NEW m \in DOMAIN M2, Points(M2[m].key[1], test.lane) > 0,
               M2[m].out # Stale
        PROVE  \E e \in DOMAIN E : E[e].out[1] = M2[m].out[1]
    <3>1. m \in DOMAIN M /\ M2[m] = M[m]
      BY <1>3, <1>5, <2>1
    <3> QED
      BY <1>1, <2>1, <3>1 DEF FxInv, NumberedInv
  <2> QED
    BY <1>0, <1>1, <2>1 DEF FxInv, NumberedInv
<1>12. PlayedInv'
  <2> SUFFICES ASSUME fxSession' = "replay", NEW h \in FxKeys, Points(h[1], test'.lane) > 0
               PROVE  /\ cursor'[h] <= Len(entries')
                      /\ Turns(entries', h, cursor'[h]) <= Turns(made', h, Len(made'))
                      /\ Turns(entries', h, cursor'[h]) < Turns(made', h, Len(made'))
                           => Matches(h)' = {}
                      /\ Played(made', entries', h)
    BY DEF PlayedInv
  <2>0. /\ fxSession = "replay" /\ Points(h[1], test.lane) > 0
        /\ entries' = E /\ cursor' = cursor /\ Matches(h)' = Matches(h)
    BY <1>0, <1>1 DEF Matches
  <2>1. /\ cursor[h] <= Len(E)
        /\ Turns(E, h, cursor[h]) <= Turns(M, h, Len(M))
        /\ Turns(E, h, cursor[h]) < Turns(M, h, Len(M)) => Matches(h) = {}
        /\ Played(M, E, h)
    BY <1>1, <2>0 DEF FxInv, PlayedInv
  <2>2. ~(more = 1 /\ k = h)
    BY <1>0, <2>0
  <2>3. Turns(M2, h, Len(M2)) = Turns(M, h, Len(M)) + (IF more = 1 /\ k = h THEN 1 ELSE 0)
    <3>1. Extends(M2, M, x, more)
      BY <1>1 DEF TakesOff
    <3>2. Turns(M2, h, Len(M2)) =
            Turns(M, h, Len(M)) + (IF more = 1 /\ x.key = h THEN 1 ELSE 0)
      BY <1>2, <3>1, TurnsExtend
    <3> QED
      BY <1>5, <3>2, Zenon
  <2>4. Turns(M, h, Len(M)) \in Nat
    BY <1>3, TurnsStep
  <2>5. Turns(M2, h, Len(M2)) = Turns(M, h, Len(M))
    BY <2>2, <2>3, <2>4
  <2>6. \A m \in DOMAIN M2 : M2[m].key = h => m \in DOMAIN M /\ M2[m].out = M[m].out
    BY <1>3, <1>5, <2>2
  <2>7. \A m \in DOMAIN M : M2[m].key = M[m].key
    BY <1>3
  <2>8. Played(M2, E, h)
    BY <1>2, <1>3, <2>1, <2>6, <2>7, PlayedGrows
  <2> QED
    BY <1>1, <2>0, <2>1, <2>5, <2>8
<1> QED
  BY <1>0, <1>1, <1>2, <1>6, <1>9, <1>10, <1>11, <1>12, Within

LEMMA StartCallStep ==
  ASSUME FxInv, NEW k \in FxKeys, StartCall(k)
  PROVE  FxInv'
<1>1. PICK x, M : x = [key |-> k, out |-> Stale] /\ M = made
  OBVIOUS
<1>2. M \in Seq(FxCall) /\ blurred \subseteq FxKeys /\ fxSession \in {"none", "record", "replay"}
  BY <1>1 DEF FxInv, FxShape
<1>3. x \in FxCall
  BY <1>1 DEF FxCall, FxOut, Stale
<1>4. Append(M, x) \in Seq(FxCall) /\ Extends(Append(M, x), M, x, 1)
  BY <1>2, <1>3, AppendExtends
<1>5. /\ made' = Append(M, x)
      /\ flight' = Append(flight, [key |-> k, nth |-> Len(M) + 1])
      /\ blurred' = blurred \cup (IF InFlight(k) THEN {k} ELSE {})
      /\ fxSession # "none"
      /\ fxSession = "replay" => Points(k[1], test.lane) = 0
      /\ UNCHANGED <<fixture, test, fxSession, entries, cursor, fxSource, served>>
  BY <1>1 DEF StartCall, Room
<1>6. blurred \subseteq blurred' /\ blurred' \subseteq FxKeys /\ (InFlight(k) => k \in blurred')
  BY <1>2, <1>5
<1>7. TakesOff(k, 1, Len(M) + 1, x)
  BY <1>1, <1>2, <1>4, <1>5, <1>6 DEF TakesOff
<1> QED
  BY <1>7, Started

LEMMA StartInsideStep ==
  ASSUME FxInv, NEW k \in FxKeys, StartInside(k)
  PROVE  FxInv'
<1>1. PICK x : x = [key |-> k, out |-> Stale]
  OBVIOUS
<1>2. made \in Seq(FxCall) /\ blurred \subseteq FxKeys /\ fxSession \in {"none", "record", "replay"}
  BY DEF FxInv, FxShape
<1>3. /\ made' = made /\ flight' = Append(flight, [key |-> k, nth |-> 0])
      /\ blurred' = blurred \cup {k} /\ fxSession # "none"
      /\ UNCHANGED <<fixture, test, fxSession, entries, cursor, fxSource, served>>
  BY DEF StartInside, Room
<1>4. Extends(made', made, x, 0)
  <2>1. Len(made) \in Nat
    BY <1>2
  <2>2. Len(made) = Len(made) + 0
    BY <2>1
  <2> QED
    BY <1>3, <2>2 DEF Extends
<1>5. blurred \subseteq blurred' /\ blurred' \subseteq FxKeys /\ k \in blurred'
  BY <1>2, <1>3
<1>6. TakesOff(k, 0, 0, x)
  BY <1>1, <1>2, <1>3, <1>4, <1>5 DEF TakesOff
<1> QED
  BY <1>6, Started

(* A call that lands: y is what it adds to the log, if more = 1.           *)
Lands(i, c, more, y) ==
  /\ i \in DOMAIN flight /\ c = flight[i] /\ flight' = RemoveAt(flight, i)
  /\ made' \in Seq(FxCall) /\ Len(made') = Len(made)
  /\ \A m \in DOMAIN made : made'[m].key = made[m].key /\ (m # c.nth => made'[m] = made[m])
  /\ y \in FxEntry /\ y.key = c.key
  /\ entries' \in Seq(FxEntry) /\ Extends(entries', entries, y, more)
  /\ blurred \subseteq blurred' /\ blurred' \subseteq FxKeys
  /\ served' \in Nat /\ served <= served'
  /\ fxSession = "record" /\ c.key \notin blurred' /\ c.nth > 0 /\ Points(c.key[1], test.lane) > 0
     => more = 1 /\ made'[c.nth].out = y.out
  /\ fxSession = "record" /\ c.nth > 0 /\ Points(c.key[1], test.lane) > 0
     => made' = made \/ (more = 1 /\ made'[c.nth].out = y.out)
  /\ fxSession = "record" /\ more = 1 => y.out[1] = served + 1 /\ served + 1 <= served'
  /\ fxSession = "replay" => more = 0 /\ entries' = entries
  /\ UNCHANGED <<fixture, test, fxSession, cursor, fxSource>>

LEMMA Landed ==
  ASSUME FxInv, NEW i, NEW c, NEW more \in {0, 1}, NEW y, Lands(i, c, more, y)
  PROVE  FxInv'
<1>0. /\ i \in DOMAIN flight /\ blurred \subseteq blurred' /\ blurred' \subseteq FxKeys
      /\ UNCHANGED <<fixture, test, fxSession, cursor, fxSource>>
      /\ fxSession = "replay" => more = 0 /\ entries' = entries
      /\ served' \in Nat /\ served <= served'
  BY DEF Lands
<1>1. PICK F, F2, M, M2, E, E2, n, k :
        /\ F = flight /\ F2 = flight' /\ M = made /\ M2 = made' /\ E = entries /\ E2 = entries'
        /\ n = c.nth /\ k = c.key
  OBVIOUS
<1>2. /\ F \in Seq(FxFlight) /\ M \in Seq(FxCall) /\ M2 \in Seq(FxCall) /\ E \in Seq(FxEntry)
      /\ E2 \in Seq(FxEntry) /\ cursor \in [FxKeys -> Nat] /\ served \in Nat
      /\ fxSession \in {"none", "record", "replay"} /\ (fxSession = "none" => F = <<>>)
  BY <1>1 DEF FxInv, FxShape, Lands
<1>3. fxSession \in {"record", "replay"}
  BY <1>0, <1>1, <1>2
<1>4. c \in FxFlight /\ c = F[i] /\ i \in DOMAIN F /\ n \in Nat /\ k \in FxKeys
  <2>1. c = F[i] /\ i \in DOMAIN F
    BY <1>1 DEF Lands
  <2>2. c \in FxFlight
    BY <1>2, <2>1
  <2> QED
    BY <1>1, <2>1, <2>2 DEF FxFlight
<1>5. /\ F2 \in Seq(FxFlight)
      /\ \A j \in DOMAIN F2 : \E h \in DOMAIN F : h # i /\ F2[j] = F[h]
      /\ \A h \in DOMAIN F : h # i => \E j \in DOMAIN F2 : F2[j] = F[h]
      /\ \A j1, j2 \in DOMAIN F2 : j1 # j2 =>
           \E h1, h2 \in DOMAIN F : h1 # h2 /\ h1 # i /\ h2 # i /\ F2[j1] = F[h1] /\ F2[j2] = F[h2]
  <2>1. F2 = RemoveAt(F, i)
    BY <1>1 DEF Lands
  <2> QED
    BY <1>2, <1>4, <2>1, TakenOut
<1>6. /\ Len(M) \in Nat /\ Len(M2) = Len(M) /\ DOMAIN M = 1 .. Len(M) /\ DOMAIN M2 = DOMAIN M
      /\ \A m \in DOMAIN M : M2[m].key = M[m].key /\ (m # n => M2[m] = M[m])
  <2>1. /\ Len(M2) = Len(M)
        /\ \A m \in DOMAIN M : M2[m].key = M[m].key /\ (m # n => M2[m] = M[m])
    BY <1>1 DEF Lands
  <2> QED
    BY <1>2, <2>1
<1>7. \A h, m : m \in Nat /\ m <= Len(M) => Turns(M2, h, m) = Turns(M, h, m)
  <2>1. ASSUME NEW h, NEW m \in Nat, m <= Len(M) PROVE Turns(M2, h, m) = Turns(M, h, m)
    <3>1. \A j \in 1 .. m : j \in DOMAIN M
      BY <1>6, <2>1
    <3>2. \A j \in 1 .. m : M[j].key = h <=> M2[j].key = h
      BY <1>6, <3>1
    <3> QED
      BY <3>2, TurnsSame
  <2> QED
    BY <2>1
<1>8. Extends(E2, E, y, more) /\ y.key = k
  BY <1>1 DEF Lands
<1>9. /\ Len(E) \in Nat /\ Len(E2) \in Nat /\ Len(E) <= Len(E2)
      /\ \A j \in DOMAIN E : j \in DOMAIN E2 /\ E2[j] = E[j]
      /\ \A j \in DOMAIN E2 : j \in DOMAIN E \/ (more = 1 /\ j = Len(E2) /\ E2[j] = y)
      /\ more = 1 => Len(E2) = Len(E) + 1 /\ Len(E2) \in DOMAIN E2 /\ E2[Len(E2)] = y
      /\ DOMAIN E = 1 .. Len(E)
  BY <1>2, <1>8, ExtendsMeans
<1>10. /\ \A j \in DOMAIN F : F[j].nth > 0 =>
            /\ F[j].nth <= Len(M) /\ M[F[j].nth].key = F[j].key
            /\ fxSession = "replay" => Points(F[j].key[1], test.lane) = 0
       /\ \A g, j \in DOMAIN F : g # j /\ F[g].nth > 0 => F[g].nth # F[j].nth
       /\ \A j \in DOMAIN F : F[j].nth \in Nat
  <2>1. \A j \in DOMAIN F : F[j] \in FxFlight
    BY <1>2
  <2>2. \A j \in DOMAIN F : F[j].nth \in Nat
    BY <2>1 DEF FxFlight
  <2> QED
    BY <1>1, <2>2 DEF FxInv, FlightInv
<1>11. n > 0 => n \in DOMAIN M /\ n <= Len(M) /\ M[n].key = k
  <2>1. SUFFICES ASSUME n > 0 PROVE n \in DOMAIN M /\ n <= Len(M) /\ M[n].key = k
    OBVIOUS
  <2>2. n = F[i].nth /\ k = F[i].key
    BY <1>1, <1>4
  <2>3. n <= Len(M) /\ M[n].key = k
    BY <1>4, <1>10, <2>1, <2>2
  <2> QED
    BY <1>4, <1>6, <2>1, <2>3
<1>12. FlightInv'
  <2>1. ASSUME NEW j \in DOMAIN F2, F2[j].nth > 0
        PROVE  /\ F2[j].nth <= Len(M2) /\ M2[F2[j].nth].key = F2[j].key
               /\ fxSession = "replay" => Points(F2[j].key[1], test.lane) = 0
    <3>1. PICK h \in DOMAIN F : F2[j] = F[h]
      BY <1>5
    <3>2. PICK m : m = F[h].nth
      OBVIOUS
    <3>3. m \in Nat /\ m > 0
      BY <1>10, <2>1, <3>1, <3>2
    <3>4. /\ m <= Len(M) /\ M[m].key = F[h].key
          /\ fxSession = "replay" => Points(F[h].key[1], test.lane) = 0
      BY <1>10, <3>2, <3>3
    <3>5. m \in DOMAIN M
      BY <1>6, <3>3, <3>4
    <3>6. M2[m].key = F[h].key
      BY <1>6, <3>4, <3>5
    <3> QED
      BY <1>6, <3>1, <3>2, <3>4, <3>6
  <2>2. ASSUME NEW g \in DOMAIN F2, NEW j \in DOMAIN F2, g # j, F2[g].nth > 0
        PROVE  F2[g].nth # F2[j].nth
    <3>1. PICK h1, h2 \in DOMAIN F : h1 # h2 /\ F2[g] = F[h1] /\ F2[j] = F[h2]
      BY <1>5, <2>2
    <3>2. F[h1].nth # F[h2].nth
      BY <1>10, <2>2, <3>1
    <3> QED
      BY <3>1, <3>2
  <2> QED
    BY <1>0, <1>1, <2>1, <2>2 DEF FlightInv
<1>13. Open \subseteq Open' \cup {n}
  <2>1. Open = {F[j].nth : j \in DOMAIN F} /\ Open' = {F2[j].nth : j \in DOMAIN F2}
    BY <1>1 DEF Open
  <2>2. ASSUME NEW j \in DOMAIN F PROVE F[j].nth \in Open' \cup {n}
    <3>1. CASE j = i
      BY <1>1, <1>4, <3>1
    <3>2. CASE j # i
      BY <1>5, <2>1, <3>2
    <3> QED
      BY <3>1, <3>2
  <2> QED
    BY <2>1, <2>2
<1>14. RecordedInv'
  <2> SUFFICES ASSUME fxSession' = "record", NEW h \in FxKeys \ blurred',
                      Points(h[1], test'.lane) > 0
               PROVE  /\ \A j \in DOMAIN flight' : flight'[j].key = h =>
                           /\ flight'[j].nth > 0
                           /\ Turns(made', h, flight'[j].nth) = Turns(made', h, Len(made'))
                      /\ \A g, j \in DOMAIN flight' :
                           flight'[g].key = h /\ flight'[j].key = h => g = j
                      /\ Turns(made', h, Len(made')) =
                           Turns(entries', h, Len(entries')) + (IF InFlight(h)' THEN 1 ELSE 0)
                      /\ Kept(made', entries', Open', h, FALSE)
    BY DEF RecordedInv
  <2>0. fxSession = "record" /\ h \in FxKeys \ blurred /\ Points(h[1], test.lane) > 0
    BY <1>0
  <2>1. /\ \A j \in DOMAIN F : F[j].key = h =>
             F[j].nth > 0 /\ Turns(M, h, F[j].nth) = Turns(M, h, Len(M))
        /\ \A g, j \in DOMAIN F : F[g].key = h /\ F[j].key = h => g = j
        /\ Turns(M, h, Len(M)) = Turns(E, h, Len(E)) + (IF InFlight(h) THEN 1 ELSE 0)
        /\ Kept(M, E, Open, h, FALSE)
    BY <1>1, <2>0 DEF FxInv, RecordedInv
  <2>2. /\ \A e \in 0 .. Len(E) : Turns(E2, h, e) = Turns(E, h, e)
        /\ Turns(E2, h, Len(E2)) = Turns(E, h, Len(E)) + (IF more = 1 /\ k = h THEN 1 ELSE 0)
    <3>1. /\ \A e \in 0 .. Len(E) : Turns(E2, h, e) = Turns(E, h, e)
          /\ Turns(E2, h, Len(E2)) =
               Turns(E, h, Len(E)) + (IF more = 1 /\ y.key = h THEN 1 ELSE 0)
      BY <1>2, <1>8, TurnsExtend
    <3> QED
      BY <1>8, <3>1, Zenon
  <2>3. Turns(M, h, Len(M)) \in Nat /\ Turns(E, h, Len(E)) \in Nat
    BY <1>6, <1>9, TurnsStep
  <2>4. /\ InFlight(h) <=> \E j \in DOMAIN F : F[j].key = h
        /\ InFlight(h)' <=> \E j \in DOMAIN F2 : F2[j].key = h
    BY <1>1 DEF InFlight
  <2>5. ASSUME NEW j \in DOMAIN F2, F2[j].key = h
        PROVE  F2[j].nth > 0 /\ Turns(M2, h, F2[j].nth) = Turns(M2, h, Len(M2))
    <3>1. PICK g \in DOMAIN F : F2[j] = F[g]
      BY <1>5
    <3>2. PICK m : m = F[g].nth
      OBVIOUS
    <3>3. m > 0 /\ Turns(M, h, m) = Turns(M, h, Len(M))
      BY <2>1, <2>5, <3>1, <3>2
    <3>4. m \in Nat /\ m <= Len(M)
      BY <1>10, <3>2, <3>3
    <3>5. Turns(M2, h, m) = Turns(M, h, m) /\ Turns(M2, h, Len(M)) = Turns(M, h, Len(M))
      <4>1. Len(M) \in Nat /\ Len(M) <= Len(M)
        BY <1>6
      <4> QED
        BY <1>7, <3>4, <4>1
    <3> QED
      BY <1>6, <3>1, <3>2, <3>3, <3>5
  <2>6. \A g, j \in DOMAIN F2 : F2[g].key = h /\ F2[j].key = h => g = j
    <3>1. SUFFICES ASSUME NEW g \in DOMAIN F2, NEW j \in DOMAIN F2,
                          F2[g].key = h, F2[j].key = h, g # j
                   PROVE  FALSE
      OBVIOUS
    <3>2. PICK h1, h2 \in DOMAIN F : h1 # h2 /\ F2[g] = F[h1] /\ F2[j] = F[h2]
      BY <1>5, <3>1
    <3> QED
      BY <2>1, <3>1, <3>2
  <2>7. Turns(M2, h, Len(M2)) = Turns(M, h, Len(M))
    <3>1. Len(M) \in Nat /\ Len(M) <= Len(M)
      BY <1>6
    <3> QED
      BY <1>6, <1>7, <3>1
  <2>8. \A m \in DOMAIN M2 \ Open' : m # n =>
          m \in DOMAIN M \ Open /\ M2[m].out = M[m].out
    BY <1>6, <1>13
  <2>9. Len(M) <= Len(M2) /\ Len(E) <= Len(E2)
    BY <1>6, <1>9
  <2>10. /\ \A m \in 1 .. Len(M) : M2[m].key = M[m].key
         /\ \A e \in 1 .. Len(E) : E2[e] = E[e]
    BY <1>6, <1>9
  <2>11. CASE h = k
    <3>1. F[i].key = h
      BY <1>1, <1>4, <2>11
    <3>2. \A j \in DOMAIN F : j # i => F[j].key # h
      BY <1>4, <2>1, <3>1
    <3>3. \A j \in DOMAIN F2 : F2[j].key # h
      BY <1>5, <3>2
    <3>4. InFlight(h) /\ ~InFlight(h)'
      BY <1>4, <2>4, <3>1, <3>3
    <3>5. n > 0 /\ Turns(M, h, n) = Turns(M, h, Len(M))
      BY <1>1, <1>4, <2>1, <3>1
    <3>6. more = 1 /\ M2[n].out = y.out
      BY <1>1, <2>0, <2>11, <3>5 DEF Lands
    <3>7. Turns(E2, h, Len(E2)) = Turns(E, h, Len(E)) + 1
      BY <2>2, <2>11, <3>6
    <3>8. Turns(M, h, Len(M)) = Turns(E, h, Len(E)) + 1
      BY <2>1, <2>3, <3>4
    <3>9. Turns(M2, h, Len(M2)) = Turns(E2, h, Len(E2)) + (IF InFlight(h)' THEN 1 ELSE 0)
      <4>1. (IF InFlight(h)' THEN 1 ELSE 0) = 0
        BY <3>4
      <4>2. Turns(M2, h, Len(M2)) = Turns(E2, h, Len(E2)) /\ Turns(E2, h, Len(E2)) \in Nat
        BY <2>3, <2>7, <3>7, <3>8
      <4> QED
        BY <4>1, <4>2
    <3>10. /\ Turns(M2, h, n) = Turns(E2, h, Len(E2)) /\ M2[n].key = h /\ n \in DOMAIN M2
           /\ Len(E2) \in DOMAIN E2 /\ E2[Len(E2)] = y
      <4>1. Turns(M2, h, n) = Turns(M, h, n)
        BY <1>4, <1>7, <1>11, <3>5
      <4>2. M2[n].key = h /\ n \in DOMAIN M2
        BY <1>6, <1>11, <2>11, <3>5
      <4>3. Len(E2) \in DOMAIN E2 /\ E2[Len(E2)] = y
        BY <1>9, <3>6
      <4> QED
        BY <3>5, <3>7, <3>8, <4>1, <4>2, <4>3
    <3>11. E2[Len(E2)].key = h /\ E2[Len(E2)].out = Shown(M2[n].out, FALSE)
      BY <1>8, <2>11, <3>6, <3>10 DEF Shown
    <3>12. ASSUME NEW m \in DOMAIN M2 \ Open'
           PROVE  \/ m \in DOMAIN M \ Open /\ M2[m].out = M[m].out
                  \/ \E e \in DOMAIN E2 : /\ E2[e].key = h /\ Turns(E2, h, e) = Turns(M2, h, m)
                                          /\ E2[e].out = Shown(M2[m].out, FALSE)
      <4>1. CASE m = n
        BY <3>10, <3>11, <4>1
      <4>2. CASE m # n
        BY <2>8, <4>2
      <4> QED
        BY <4>1, <4>2
    <3>13. ASSUME NEW e \in DOMAIN E2
           PROVE  e \in DOMAIN E
             \/ \E m \in DOMAIN M2 : M2[m].key = h /\ Turns(M2, h, m) = Turns(E2, h, e)
      <4>1. CASE e \in DOMAIN E
        BY <4>1
      <4>2. CASE e \notin DOMAIN E
        <5>1. e = Len(E2)
          BY <1>9, <4>2
        <5> QED
          BY <3>10, <5>1
      <4> QED
        BY <4>1, <4>2
    <3>14. \A m \in DOMAIN M2 \ Open' : M2[m].key = h =>
             \/ m \in DOMAIN M \ Open /\ M2[m].out = M[m].out
             \/ \E e \in DOMAIN E2 : /\ E2[e].key = h /\ Turns(E2, h, e) = Turns(M2, h, m)
                                     /\ E2[e].out = Shown(M2[m].out, FALSE)
      BY <3>12
    <3>15. \A e \in DOMAIN E2 : E2[e].key = h => e \in DOMAIN E
             \/ \E m \in DOMAIN M2 : M2[m].key = h /\ Turns(M2, h, m) = Turns(E2, h, e)
      BY <3>13
    <3>16. Kept(M2, E2, Open', h, FALSE)
      <4>1. PICK o, o2 : o = Open /\ o2 = Open'
        OBVIOUS
      <4>2. Kept(M, E, o, h, FALSE)
        BY <2>1, <4>1
      <4>3. \A m \in DOMAIN M2 \ o2 : M2[m].key = h =>
              \/ m \in DOMAIN M \ o /\ M2[m].out = M[m].out
              \/ \E e \in DOMAIN E2 : /\ E2[e].key = h /\ Turns(E2, h, e) = Turns(M2, h, m)
                                      /\ E2[e].out = Shown(M2[m].out, FALSE)
        BY <3>14, <4>1
      <4>4. M \in Seq(FxCall) /\ M2 \in Seq(FxCall) /\ E \in Seq(FxEntry) /\ E2 \in Seq(FxEntry)
        BY <1>2
      <4>5. Kept(M2, E2, o2, h, FALSE)
        BY <2>9, <2>10, <3>15, <4>2, <4>3, <4>4, KeptGrows, ZenonT(60)
      <4> QED
        BY <4>1, <4>5
    <3> QED
      BY <1>1, <2>5, <2>6, <3>9, <3>16
  <2>12. CASE h # k
    <3>1. InFlight(h)' <=> InFlight(h)
      <4>1. \A j \in DOMAIN F : F[j].key = h => j # i
        BY <1>1, <1>4, <2>12
      <4> QED
        BY <1>5, <2>4, <4>1
    <3>2. Turns(E2, h, Len(E2)) = Turns(E, h, Len(E))
      BY <2>2, <2>3, <2>12
    <3>3. Turns(M2, h, Len(M2)) = Turns(E2, h, Len(E2)) + (IF InFlight(h)' THEN 1 ELSE 0)
      BY <2>1, <2>7, <3>1, <3>2
    <3>4. \A m \in DOMAIN M2 \ Open' : M2[m].key = h =>
            m \in DOMAIN M \ Open /\ M2[m].out = M[m].out
      <4>1. \A m \in DOMAIN M2 : M2[m].key = h => m # n
        <5>1. SUFFICES ASSUME n \in DOMAIN M PROVE M2[n].key # h
          BY <1>6
        <5>2. n > 0
          BY <1>4, <1>6, <5>1
        <5> QED
          BY <1>6, <1>11, <2>12, <5>2
      <4> QED
        BY <2>8, <4>1
    <3>5. \A e \in DOMAIN E2 : E2[e].key = h => e \in DOMAIN E
      BY <1>8, <1>9, <2>12
    <3>6. Kept(M2, E2, Open', h, FALSE)
      BY <1>2, <2>1, <2>9, <2>10, <3>4, <3>5, KeptGrows
    <3> QED
      BY <1>1, <2>5, <2>6, <3>3, <3>6
  <2> QED
    BY <2>11, <2>12
<1>15. NumberedInv'
  <2> SUFFICES ASSUME fxSession = "record"
               PROVE  /\ \A e \in DOMAIN E2 : E2[e].key \in FxKeys /\ E2[e].out[1] \in 1 .. served'
                      /\ \A e, f \in DOMAIN E2 : e # f => E2[e].out[1] # E2[f].out[1]
                      /\ \A m \in DOMAIN M2 :
                           Points(M2[m].key[1], test.lane) > 0 /\ M2[m].out # Stale =>
                             \E e \in DOMAIN E2 : E2[e].out[1] = M2[m].out[1]
    BY <1>0, <1>1 DEF NumberedInv
  <2>1. /\ \A e \in DOMAIN E : E[e].key \in FxKeys /\ E[e].out[1] \in 1 .. served
        /\ \A e, f \in DOMAIN E : e # f => E[e].out[1] # E[f].out[1]
        /\ \A m \in DOMAIN M :
             Points(M[m].key[1], test.lane) > 0 /\ M[m].out # Stale =>
               \E e \in DOMAIN E : E[e].out[1] = M[m].out[1]
    BY <1>1 DEF FxInv, NumberedInv
  <2>2. more = 1 => y.out[1] = served + 1 /\ served + 1 <= served'
    BY DEF Lands
  <2>3. /\ \A v \in 1 .. served : v \in 1 .. served' /\ v # served + 1
        /\ more = 1 => served + 1 \in 1 .. served'
    BY <1>0, <1>2, <2>2
  <2>4. \A e \in DOMAIN E2 : E2[e].key \in FxKeys /\ E2[e].out[1] \in 1 .. served'
    <3>1. ASSUME NEW e \in DOMAIN E2
          PROVE  E2[e].key \in FxKeys /\ E2[e].out[1] \in 1 .. served'
      <4>1. CASE e \in DOMAIN E
        BY <1>9, <2>1, <2>3, <4>1
      <4>2. CASE e \notin DOMAIN E
        <5>1. more = 1 /\ E2[e] = y
          BY <1>9, <4>2
        <5> QED
          BY <1>4, <1>8, <2>2, <2>3, <5>1
      <4> QED
        BY <4>1, <4>2
    <3> QED
      BY <3>1
  <2>5. ASSUME NEW e \in DOMAIN E2, NEW f \in DOMAIN E2, e # f
        PROVE  E2[e].out[1] # E2[f].out[1]
    <3>1. \A g \in DOMAIN E2 : g \in DOMAIN E => E2[g] = E[g] /\ E2[g].out[1] # served + 1
      BY <1>9, <2>1, <2>3
    <3>2. \A g \in DOMAIN E2 : g \notin DOMAIN E => g = Len(E2) /\ E2[g].out[1] = served + 1
      BY <1>9, <2>2
    <3>3. CASE e \in DOMAIN E /\ f \in DOMAIN E
      BY <2>1, <2>5, <3>1, <3>3
    <3>4. CASE ~(e \in DOMAIN E /\ f \in DOMAIN E)
      BY <2>5, <3>1, <3>2, <3>4
    <3> QED
      BY <3>3, <3>4
  <2>6. ASSUME NEW m \in DOMAIN M2, Points(M2[m].key[1], test.lane) > 0, M2[m].out # Stale
        PROVE  \E e \in DOMAIN E2 : E2[e].out[1] = M2[m].out[1]
    <3>1. CASE M2[m] = M[m]
      <4>1. PICK e \in DOMAIN E : E[e].out[1] = M[m].out[1]
        BY <1>6, <2>1, <2>6, <3>1
      <4>2. e \in DOMAIN E2 /\ E2[e].out[1] = M2[m].out[1]
        BY <1>9, <3>1, <4>1
      <4> QED
        BY <4>2
    <3>2. CASE M2[m] # M[m]
      <4>1. m = n /\ M2 # M
        BY <1>6, <3>2
      <4>2. n > 0 /\ M2[m].key = k
        BY <1>4, <1>6, <1>11, <4>1
      <4>3. more = 1 /\ M2[n].out = y.out
        BY <1>1, <2>6, <4>1, <4>2 DEF Lands
      <4>4. Len(E2) \in DOMAIN E2 /\ E2[Len(E2)].out[1] = M2[m].out[1]
        BY <1>9, <4>1, <4>3
      <4> QED
        BY <4>4
    <3> QED
      BY <3>1, <3>2
  <2> QED
    BY <2>4, <2>5, <2>6
<1>16. PlayedInv'
  <2> SUFFICES ASSUME fxSession' = "replay", NEW h \in FxKeys, Points(h[1], test'.lane) > 0
               PROVE  /\ cursor'[h] <= Len(entries')
                      /\ Turns(entries', h, cursor'[h]) <= Turns(made', h, Len(made'))
                      /\ Turns(entries', h, cursor'[h]) < Turns(made', h, Len(made'))
                           => Matches(h)' = {}
                      /\ Played(made', entries', h)
    BY DEF PlayedInv
  <2>0. /\ fxSession = "replay" /\ Points(h[1], test.lane) > 0
        /\ entries' = E /\ cursor' = cursor /\ Matches(h)' = Matches(h)
    BY <1>0, <1>1 DEF Matches
  <2>1. /\ cursor[h] <= Len(E)
        /\ Turns(E, h, cursor[h]) <= Turns(M, h, Len(M))
        /\ Turns(E, h, cursor[h]) < Turns(M, h, Len(M)) => Matches(h) = {}
        /\ Played(M, E, h)
    BY <1>1, <2>0 DEF FxInv, PlayedInv
  <2>2. Turns(M2, h, Len(M2)) = Turns(M, h, Len(M))
    <3>1. Len(M) \in Nat /\ Len(M) <= Len(M)
      BY <1>6
    <3> QED
      BY <1>6, <1>7, <3>1
  <2>3. \A m \in DOMAIN M2 : M2[m].key = h => m # n
    <3>1. SUFFICES ASSUME n \in DOMAIN M PROVE M2[n].key # h
      BY <1>6
    <3>2. n > 0
      BY <1>4, <1>6, <3>1
    <3>3. Points(k[1], test.lane) = 0
      <4>1. k = F[i].key /\ n = F[i].nth
        BY <1>1, <1>4
      <4> QED
        BY <1>4, <1>10, <2>0, <3>2, <4>1
    <3>4. M2[n].key = k
      BY <1>6, <1>11, <3>2
    <3> QED
      BY <2>0, <3>3, <3>4
  <2>4. \A m \in DOMAIN M2 : M2[m].key = h => m \in DOMAIN M /\ M2[m].out = M[m].out
    BY <1>6, <2>3
  <2>5. Len(M) <= Len(M2) /\ \A m \in DOMAIN M : M2[m].key = M[m].key
    BY <1>6
  <2>6. Played(M2, E, h)
    BY <1>2, <2>1, <2>4, <2>5, PlayedGrows
  <2> QED
    BY <1>1, <2>0, <2>1, <2>2, <2>6
<1> QED
  BY <1>0, <1>1, <1>2, <1>3, <1>5, <1>12, <1>14, <1>15, <1>16, Within

LEMMA ToolRaisedStep ==
  ASSUME FxInv, NEW i \in DOMAIN flight, ToolRaised(i)
  PROVE  FxInv'
<1>1. PICK c, y : c = flight[i] /\ y = [key |-> c.key, out |-> Stale]
  OBVIOUS
<1>2. /\ made \in Seq(FxCall) /\ entries \in Seq(FxEntry) /\ flight \in Seq(FxFlight)
      /\ blurred \subseteq FxKeys /\ served \in Nat
  BY DEF FxInv, FxShape
<1>3. c \in FxFlight
  BY <1>1, <1>2
<1>4. c.key \in FxKeys
  BY <1>3 DEF FxFlight
<1>5. y \in FxEntry /\ y.key = c.key
  BY <1>1, <1>4 DEF FxEntry, FxOut, FxLoggedKeys, Stale
<1>6. /\ flight' = RemoveAt(flight, i) /\ blurred' = blurred \cup {c.key}
      /\ UNCHANGED <<fixture, test, fxSession, entries, cursor, made, fxSource, served>>
  BY <1>1 DEF ToolRaised
<1>7. Extends(entries', entries, y, 0)
  <2>1. Len(entries) \in Nat
    BY <1>2
  <2>2. Len(entries) = Len(entries) + 0
    BY <2>1
  <2> QED
    BY <1>6, <2>2 DEF Extends
<1>8. blurred \subseteq blurred' /\ blurred' \subseteq FxKeys /\ c.key \in blurred'
  BY <1>2, <1>4, <1>6
<1>9. served' \in Nat /\ served <= served'
  BY <1>2, <1>6
<1>10. made' \in Seq(FxCall) /\ Len(made') = Len(made) /\ entries' \in Seq(FxEntry)
  BY <1>2, <1>6
<1>11. Lands(i, c, 0, y)
  BY <1>1, <1>5, <1>6, <1>7, <1>8, <1>9, <1>10 DEF Lands
<1> QED
  BY <1>11, Landed

LEMMA ToolReturnedStep ==
  ASSUME FxInv, NEW i \in DOMAIN flight, ToolReturned(i)
  PROVE  FxInv'
<1>1. PICK c, out, lane : /\ c = flight[i] /\ out = <<served + 1, "secret">>
                          /\ lane = IF c.nth = 0 THEN "sync" ELSE test.lane
  OBVIOUS
<1>2. PICK y, more, M, E, P :
        /\ y = [key |-> c.key, out |-> out] /\ P = Points(c.key[1], lane)
        /\ more = (IF fxSession = "record" THEN P ELSE 0)
        /\ M = made /\ E = entries
  OBVIOUS
<1>3. /\ M \in Seq(FxCall) /\ E \in Seq(FxEntry) /\ flight \in Seq(FxFlight)
      /\ blurred \subseteq FxKeys /\ served \in Nat
      /\ fxSession \in {"none", "record", "replay"}
      /\ test.lane \in {"sync", "async"}
  BY <1>2 DEF FxInv, FxShape
<1>4. c \in FxFlight
  BY <1>1, <1>3
<1>5. c.key \in FxKeys /\ c.nth \in Nat
  BY <1>4 DEF FxFlight
<1>6. out \in FxOut /\ out[1] = served + 1
  BY <1>1, <1>3 DEF FxOut
<1>7. y \in FxEntry /\ y.key = c.key /\ y.out = out
  BY <1>2, <1>5, <1>6 DEF FxEntry, FxLoggedKeys
<1>8. P \in {0, 1}
  <2>1. lane \in {"sync", "async"}
    BY <1>1, <1>3
  <2> QED
    BY <1>2, <2>1, PointsAre
<1>9. more \in {0, 1}
  BY <1>2, <1>8
<1>10. /\ flight' = RemoveAt(flight, i) /\ served' = served + 1
       /\ made' = (IF c.nth = 0 THEN M ELSE [M EXCEPT ![c.nth].out = out])
       /\ UNCHANGED <<fixture, test, fxSession, cursor, blurred, fxSource>>
       /\ entries' = IF fxSession = "record"
                     THEN E \o [n \in 1 .. P |-> y]
                     ELSE E
  BY <1>1, <1>2 DEF ToolReturned
<1>11. entries' \in Seq(FxEntry) /\ Extends(entries', E, y, more)
  <2>1. CASE fxSession = "record"
    <3>1. P = more
      BY <1>2, <2>1
    <3>2. entries' = E \o [n \in 1 .. more |-> y]
      BY <1>10, <2>1, <3>1
    <3> QED
      BY <1>3, <1>7, <1>9, <3>2, ConcatExtends
  <2>2. CASE fxSession # "record"
    <3>1. entries' = E /\ more = 0
      BY <1>2, <1>10, <2>2
    <3>2. Len(E) \in Nat
      BY <1>3
    <3>3. Len(E) = Len(E) + 0
      BY <3>2
    <3> QED
      BY <1>3, <3>1, <3>3 DEF Extends
  <2> QED
    BY <2>1, <2>2
<1>12. /\ made' \in Seq(FxCall) /\ Len(made') = Len(M)
       /\ \A m \in DOMAIN M : made'[m].key = M[m].key /\ (m # c.nth => made'[m] = M[m])
       /\ c.nth > 0 => made'[c.nth].out = out
  <2>1. CASE c.nth = 0
    BY <1>3, <1>10, <2>1
  <2>2. CASE c.nth # 0
    <3>1. PICK n : n = c.nth
      OBVIOUS
    <3>2. n \in Nat /\ n > 0
      BY <1>5, <2>2, <3>1
    <3>3. n <= Len(M)
      BY <1>1, <1>2, <3>1, <3>2 DEF FxInv, FlightInv
    <3>4. n \in DOMAIN M
      BY <1>3, <3>2, <3>3
    <3>5. PICK z : z = [M[n] EXCEPT !.out = out]
      OBVIOUS
    <3>6. z \in FxCall /\ z.key = M[n].key /\ z.out = out
      <4>1. M[n] \in FxCall
        BY <1>3, <3>4
      <4> QED
        BY <1>6, <3>5, <4>1 DEF FxCall
    <3>7. made' = [M EXCEPT ![n] = z]
      BY <1>10, <2>2, <3>1, <3>5
    <3>8. /\ made' \in Seq(FxCall) /\ Len(made') = Len(M) /\ made'[n] = z
          /\ \A m \in DOMAIN M : m # n => made'[m] = M[m]
      BY <1>3, <3>4, <3>6, <3>7
    <3> QED
      BY <3>1, <3>6, <3>8
  <2> QED
    BY <2>1, <2>2
<1>13. /\ blurred \subseteq blurred' /\ blurred' \subseteq FxKeys
       /\ served' \in Nat /\ served <= served' /\ served + 1 <= served'
  BY <1>3, <1>10
<1>14. c.nth > 0 /\ fxSession = "record" /\ Points(c.key[1], test.lane) > 0 => more = 1
  <2>1. c.nth > 0 => lane = test.lane
    BY <1>1
  <2> QED
    BY <1>2, <1>8, <2>1
<1>15. fxSession = "replay" => more = 0 /\ entries' = E
  BY <1>2, <1>10
<1>16. Lands(i, c, more, y)
  <2>1. /\ i \in DOMAIN flight /\ c = flight[i] /\ flight' = RemoveAt(flight, i)
        /\ UNCHANGED <<fixture, test, fxSession, cursor, fxSource>>
    BY <1>1, <1>10
  <2>2. /\ made' \in Seq(FxCall) /\ Len(made') = Len(made)
        /\ \A m \in DOMAIN made :
             made'[m].key = made[m].key /\ (m # c.nth => made'[m] = made[m])
    BY <1>2, <1>12
  <2>3. fxSession = "record" /\ c.nth > 0 /\ Points(c.key[1], test.lane) > 0
        => more = 1 /\ made'[c.nth].out = y.out
    BY <1>7, <1>12, <1>14
  <2>4. more = 1 => y.out[1] = served + 1 /\ served + 1 <= served'
    BY <1>6, <1>7, <1>13
  <2>5. entries' \in Seq(FxEntry) /\ Extends(entries', entries, y, more)
        /\ (fxSession = "replay" => more = 0 /\ entries' = entries)
    BY <1>2, <1>11, <1>15
  <2> QED
    BY <1>7, <1>13, <2>1, <2>2, <2>3, <2>4, <2>5 DEF Lands
<1> QED
  BY <1>9, <1>16, Landed

LEMMA TurnsNone ==
  ASSUME NEW s, NEW k, NEW c \in Nat, NEW n \in Nat, c <= n,
         \A j \in 1 .. n : j > c => s[j].key # k
  PROVE  Turns(s, k, n) = Turns(s, k, c)
<1>1. {j \in 1 .. n : s[j].key = k} = {j \in 1 .. c : s[j].key = k}
  OBVIOUS
<1> QED
  BY <1>1 DEF Turns

(* The next recording of a key, or none: its turn is the one called for.   *)
Answers(k, c, c2, x) ==
  /\ x.key = k
  /\ \/ /\ Matches(k) = {} /\ c2 = c /\ x.out = Stale
     \/ /\ c2 \in Matches(k) /\ x.out = entries[c2].out
        /\ \A j \in Matches(k) : c2 <= j

LEMMA Answered ==
  ASSUME FxInv, NEW k \in FxKeys, NEW c2, NEW x \in FxCall, Answers(k, cursor[k], c2, x),
         fxSession = "replay", Points(k[1], test.lane) > 0
  PROVE  LET M2 == Append(made, x)
         IN  /\ c2 \in Nat /\ c2 <= Len(entries)
             /\ Turns(entries, k, c2) <= Turns(M2, k, Len(M2))
             /\ Turns(entries, k, c2) < Turns(M2, k, Len(M2)) => c2 = cursor[k] /\ Matches(k) = {}
             /\ Played(M2, entries, k)
<1>1. PICK M, M2, E, c, N : /\ M = made /\ M2 = Append(made, x) /\ E = entries /\ c = cursor[k]
                            /\ N = Turns(M, k, Len(M))
  OBVIOUS
<1>2. M \in Seq(FxCall) /\ E \in Seq(FxEntry) /\ c \in Nat
  BY <1>1 DEF FxInv, FxShape
<1>3. /\ c <= Len(E) /\ Turns(E, k, c) <= N
      /\ Turns(E, k, c) < N => Matches(k) = {}
      /\ Played(M, E, k)
  BY <1>1 DEF FxInv, PlayedInv
<1>4. /\ x.key = k
      /\ \/ Matches(k) = {} /\ c2 = c /\ x.out = Stale
         \/ c2 \in Matches(k) /\ x.out = E[c2].out /\ \A j \in Matches(k) : c2 <= j
  BY <1>1 DEF Answers
<1>5. Matches(k) = {i \in DOMAIN E : i > c /\ E[i].key = k}
  BY <1>1 DEF Matches
<1>6. /\ Len(M) \in Nat /\ Len(E) \in Nat /\ DOMAIN E = 1 .. Len(E)
      /\ Len(M2) = Len(M) + 1 /\ DOMAIN M = 1 .. Len(M) /\ DOMAIN M2 = 1 .. Len(M) + 1
      /\ \A m \in DOMAIN M : M2[m] = M[m]
      /\ M2[Len(M) + 1] = x /\ M2 \in Seq(FxCall)
  BY <1>1, <1>2
<1>7. N \in Nat /\ Turns(E, k, c) \in Nat
  BY <1>1, <1>2, <1>6, TurnsStep
<1>8. Turns(M2, k, Len(M2)) = N + 1
  <2>1. M2 \in Seq(FxCall) /\ Extends(M2, M, x, 1)
    BY <1>1, <1>2, AppendExtends
  <2>2. Turns(M2, k, Len(M2)) = Turns(M, k, Len(M)) + (IF 1 = 1 /\ x.key = k THEN 1 ELSE 0)
    BY <1>2, <2>1, TurnsExtend
  <2>3. (IF 1 = 1 /\ x.key = k THEN 1 ELSE 0) = 1
    BY <1>4
  <2> QED
    BY <1>1, <2>2, <2>3
<1>9. \A m \in DOMAIN M2 : m \in DOMAIN M \/ m = Len(M2)
  BY <1>6
<1>10. CASE Matches(k) = {} /\ c2 = c /\ x.out = Stale
  <2>1. \A e \in DOMAIN E : E[e].key = k => Turns(E, k, e) # Turns(M2, k, Len(M2))
    <3>1. ASSUME NEW e \in DOMAIN E, E[e].key = k PROVE Turns(E, k, e) # Turns(M2, k, Len(M2))
      <4>1. e \in Nat /\ e <= c
        BY <1>2, <1>5, <1>6, <1>10, <3>1
      <4>2. Turns(E, k, e) <= Turns(E, k, c) /\ Turns(E, k, e) \in Nat
        BY <1>2, <4>1, TurnsMonotone, TurnsStep
      <4> QED
        BY <1>3, <1>7, <1>8, <4>2
    <3> QED
      BY <3>1
  <2>2. \A m \in DOMAIN M2 : M2[m].key = k =>
          \/ m \in DOMAIN M /\ M2[m].out = M[m].out
          \/ /\ M2[m].out = Stale
             /\ \A e \in DOMAIN E : E[e].key = k => Turns(E, k, e) # Turns(M2, k, m)
          \/ \E e \in DOMAIN E : /\ E[e].key = k /\ Turns(E, k, e) = Turns(M2, k, m)
                                 /\ M2[m].out = E[e].out
    <3>1. M2[Len(M2)].out = Stale
      BY <1>6, <1>10
    <3> QED
      BY <1>6, <1>9, <2>1, <3>1
  <2>3. Len(M) <= Len(M2) /\ \A m \in DOMAIN M : M2[m].key = M[m].key
    BY <1>6
  <2>4. Played(M2, E, k)
    BY <1>2, <1>3, <1>6, <2>2, <2>3, PlayedGrows
  <2>5. Turns(E, k, c2) <= Turns(M2, k, Len(M2))
    BY <1>3, <1>7, <1>8, <1>10
  <2> QED
    BY <1>1, <1>2, <1>3, <1>10, <2>4, <2>5
<1>11. CASE c2 \in Matches(k) /\ x.out = E[c2].out /\ \A j \in Matches(k) : c2 <= j
  <2>1. c2 \in DOMAIN E /\ c2 > c /\ E[c2].key = k
    BY <1>5, <1>11
  <2>2. PICK p : p = c2 - 1
    OBVIOUS
  <2>3. c2 \in Nat /\ p \in Nat /\ c2 = p + 1 /\ c <= p /\ p < Len(E) /\ c2 <= Len(E)
    BY <1>2, <1>6, <2>1, <2>2
  <2>4. \A j \in 1 .. p : j > c => E[j].key # k
    <3>1. ASSUME NEW j \in 1 .. p, j > c, E[j].key = k PROVE FALSE
      <4>1. j \in DOMAIN E /\ ~(c2 <= j)
        BY <1>6, <2>3
      <4> QED
        BY <1>5, <1>11, <3>1, <4>1
    <3> QED
      BY <3>1
  <2>5. Turns(E, k, p) = Turns(E, k, c)
    BY <1>2, <2>3, <2>4, TurnsNone
  <2>6. Turns(E, k, c2) = Turns(E, k, p) + 1
    <3>1. Turns(E, k, p + 1) = Turns(E, k, p) + (IF E[p + 1].key = k THEN 1 ELSE 0)
      BY <2>3, TurnsStep, SMTT(60)
    <3>2. E[p + 1].key = k /\ c2 = p + 1
      BY <2>1, <2>3
    <3> QED
      BY <3>1, <3>2
  <2>7. Turns(E, k, c) = N
    BY <1>3, <1>7, <1>11
  <2>8. Turns(E, k, c2) = Turns(M2, k, Len(M2)) /\ Turns(E, k, c2) \in Nat
    BY <1>7, <1>8, <2>5, <2>6, <2>7
  <2>9. \A m \in DOMAIN M2 : M2[m].key = k =>
          \/ m \in DOMAIN M /\ M2[m].out = M[m].out
          \/ /\ M2[m].out = Stale
             /\ \A e \in DOMAIN E : E[e].key = k => Turns(E, k, e) # Turns(M2, k, m)
          \/ \E e \in DOMAIN E : /\ E[e].key = k /\ Turns(E, k, e) = Turns(M2, k, m)
                                 /\ M2[m].out = E[e].out
    <3>1. M2[Len(M2)].out = E[c2].out
      BY <1>6, <1>11
    <3>2. c2 \in DOMAIN E /\ E[c2].key = k /\ Turns(E, k, c2) = Turns(M2, k, Len(M2))
      BY <2>1, <2>8
    <3> QED
      BY <1>6, <1>9, <3>1, <3>2
  <2>10. Len(M) <= Len(M2) /\ \A m \in DOMAIN M : M2[m].key = M[m].key
    BY <1>6
  <2>11. Played(M2, E, k)
    BY <1>2, <1>3, <1>6, <2>9, <2>10, PlayedGrows
  <2>12. /\ Turns(E, k, c2) <= Turns(M2, k, Len(M2))
         /\ ~(Turns(E, k, c2) < Turns(M2, k, Len(M2)))
    BY <2>8
  <2> QED
    BY <1>1, <2>3, <2>11, <2>12
<1> QED
  BY <1>4, <1>10, <1>11

LEMMA ConsumeStep ==
  ASSUME FxInv, NEW k \in FxKeys, ConsumeRecording(k)
  PROVE  FxInv'
<1>0. /\ fxSession = "replay" /\ Points(k[1], test.lane) > 0
      /\ UNCHANGED <<fixture, test, fxSession, entries, flight, blurred, fxSource, served>>
  BY DEF ConsumeRecording
<1>1. PICK M, E, F : M = made /\ E = entries /\ F = flight
  OBVIOUS
<1>2. /\ M \in Seq(FxCall) /\ E \in Seq(FxEntry) /\ F \in Seq(FxFlight)
      /\ cursor \in [FxKeys -> Nat] /\ blurred \subseteq FxKeys /\ served \in Nat
  BY <1>1 DEF FxInv, FxShape
<1>3. Matches(k) = {i \in DOMAIN E : i > cursor[k] /\ E[i].key = k}
  BY <1>1 DEF Matches
<1>4. PICK c2, x : /\ x \in FxCall /\ Answers(k, cursor[k], c2, x)
                   /\ made' = Append(M, x)
                   /\ cursor' \in [FxKeys -> Nat] /\ cursor'[k] = c2
                   /\ \A h \in FxKeys : h # k => cursor'[h] = cursor[h]
  <2>1. CASE Matches(k) = {}
    <3>1. PICK x : x = [key |-> k, out |-> Stale]
      OBVIOUS
    <3>2. x \in FxCall /\ x.key = k /\ x.out = Stale
      BY <3>1 DEF FxCall, FxOut, Stale
    <3>3. made' = Append(M, x) /\ cursor' = cursor
      BY <1>1, <2>1, <3>1 DEF ConsumeRecording
    <3>4. Answers(k, cursor[k], cursor[k], x)
      BY <2>1, <3>2 DEF Answers
    <3> QED
      BY <1>2, <3>2, <3>3, <3>4
  <2>2. CASE Matches(k) # {}
    <3>1. PICK n : n = CHOOSE i \in Matches(k) : \A j \in Matches(k) : i <= j
      OBVIOUS
    <3>2. Matches(k) \in SUBSET Nat
      BY <1>2, <1>3
    <3>3. n \in Matches(k) /\ \A j \in Matches(k) : n <= j
      <4>1. \E i \in Matches(k) : \A j \in Matches(k) : i <= j
        BY <2>2, <3>2, LeastIs
      <4> QED
        BY <3>1, <4>1
    <3>4. n \in Nat /\ n \in DOMAIN E
      BY <1>3, <3>2, <3>3
    <3>5. PICK x : x = [key |-> k, out |-> E[n].out]
      OBVIOUS
    <3>6. x \in FxCall /\ x.key = k /\ x.out = entries[n].out
      <4>1. E[n] \in FxEntry
        BY <1>2, <3>4
      <4>2. E[n].out \in FxOut
        BY <4>1 DEF FxEntry
      <4> QED
        BY <1>1, <3>5, <4>2 DEF FxCall
    <3>7. made' = Append(M, x) /\ cursor' = [cursor EXCEPT ![k] = n]
      BY <1>1, <2>2, <3>1, <3>5 DEF ConsumeRecording
    <3>8. Answers(k, cursor[k], n, x)
      BY <3>3, <3>6 DEF Answers
    <3>9. /\ cursor' \in [FxKeys -> Nat] /\ cursor'[k] = n
          /\ \A h \in FxKeys : h # k => cursor'[h] = cursor[h]
      BY <1>2, <3>4, <3>7
    <3> QED
      BY <3>6, <3>7, <3>8, <3>9
  <2> QED
    BY <2>1, <2>2
<1>5. PICK M2 : M2 = Append(M, x)
  OBVIOUS
<1>6. /\ c2 \in Nat /\ c2 <= Len(E)
      /\ Turns(E, k, c2) <= Turns(M2, k, Len(M2))
      /\ Turns(E, k, c2) < Turns(M2, k, Len(M2)) => c2 = cursor[k] /\ Matches(k) = {}
      /\ Played(M2, E, k)
  BY <1>0, <1>1, <1>4, <1>5, Answered
<1>7. /\ Len(M) \in Nat /\ Len(M2) = Len(M) + 1
      /\ DOMAIN M = 1 .. Len(M) /\ DOMAIN M2 = 1 .. Len(M) + 1
      /\ \A m \in DOMAIN M : M2[m] = M[m]
      /\ M2[Len(M) + 1] = x /\ M2 \in Seq(FxCall) /\ M2 = made'
  BY <1>2, <1>4, <1>5
<1>8. x.key = k
  BY <1>4 DEF Answers
<1>9. FlightInv'
  <2>1. /\ \A j \in DOMAIN F : F[j].nth > 0 =>
             /\ F[j].nth <= Len(M) /\ M[F[j].nth].key = F[j].key
             /\ Points(F[j].key[1], test.lane) = 0
        /\ \A g, j \in DOMAIN F : g # j /\ F[g].nth > 0 => F[g].nth # F[j].nth
    BY <1>0, <1>1 DEF FxInv, FlightInv
  <2>2. ASSUME NEW j \in DOMAIN F, F[j].nth > 0
        PROVE  /\ F[j].nth <= Len(M2) /\ M2[F[j].nth].key = F[j].key
               /\ Points(F[j].key[1], test.lane) = 0
    <3>1. PICK n : n = F[j].nth
      OBVIOUS
    <3>2. n \in Nat
      <4>1. F[j] \in FxFlight
        BY <1>2
      <4> QED
        BY <3>1, <4>1 DEF FxFlight
    <3>3. /\ n > 0 /\ n <= Len(M) /\ M[n].key = F[j].key
          /\ Points(F[j].key[1], test.lane) = 0
      BY <2>1, <2>2, <3>1
    <3>4. n \in DOMAIN M /\ n <= Len(M2)
      BY <1>7, <3>2, <3>3
    <3> QED
      BY <1>7, <3>1, <3>3, <3>4
  <2>3. F = flight' /\ test' = test /\ M2 = made'
    BY <1>0, <1>1, <1>7
  <2> QED
    BY <2>1, <2>2, <2>3 DEF FlightInv
<1>10. RecordedInv' /\ NumberedInv'
  <2>1. fxSession' # "record"
    BY <1>0
  <2> QED
    BY <2>1 DEF RecordedInv, NumberedInv
<1>11. PlayedInv'
  <2> SUFFICES ASSUME NEW h \in FxKeys, Points(h[1], test'.lane) > 0
               PROVE  /\ cursor'[h] <= Len(entries')
                      /\ Turns(entries', h, cursor'[h]) <= Turns(made', h, Len(made'))
                      /\ Turns(entries', h, cursor'[h]) < Turns(made', h, Len(made'))
                           => Matches(h)' = {}
                      /\ Played(made', entries', h)
    BY DEF PlayedInv
  <2>0. Points(h[1], test.lane) > 0 /\ entries' = E
    BY <1>0, <1>1
  <2>1. CASE h = k
    <3>1. c2 = cursor[k] => Matches(k)' = Matches(k)
      BY <1>0, <1>4 DEF Matches
    <3> QED
      BY <1>4, <1>6, <1>7, <2>0, <2>1, <3>1
  <2>2. CASE h # k
    <3>1. cursor'[h] = cursor[h] /\ Matches(h)' = Matches(h)
      BY <1>0, <1>4, <2>2 DEF Matches
    <3>2. /\ cursor[h] <= Len(E)
          /\ Turns(E, h, cursor[h]) <= Turns(M, h, Len(M))
          /\ Turns(E, h, cursor[h]) < Turns(M, h, Len(M)) => Matches(h) = {}
          /\ Played(M, E, h)
      BY <1>0, <1>1, <2>0 DEF FxInv, PlayedInv
    <3>3. Turns(M2, h, Len(M2)) = Turns(M, h, Len(M)) + (IF 1 = 1 /\ x.key = h THEN 1 ELSE 0)
      <4>1. Extends(M2, M, x, 1)
        BY <1>2, <1>4, <1>5, AppendExtends
      <4> QED
        BY <1>2, <1>7, <4>1, TurnsExtend
    <3>4. Turns(M2, h, Len(M2)) = Turns(M, h, Len(M))
      <4>1. Turns(M, h, Len(M)) \in Nat
        BY <1>7, TurnsStep
      <4>2. (IF 1 = 1 /\ x.key = h THEN 1 ELSE 0) = 0
        BY <1>8, <2>2
      <4> QED
        BY <3>3, <4>1, <4>2
    <3>5. \A m \in DOMAIN M2 : M2[m].key = h => m \in DOMAIN M /\ M2[m].out = M[m].out
      BY <1>7, <1>8, <2>2
    <3>6. Len(M) <= Len(M2) /\ \A m \in DOMAIN M : M2[m].key = M[m].key
      BY <1>7
    <3>7. Played(M2, E, h)
      BY <1>2, <1>7, <3>2, <3>5, <3>6, PlayedGrows
    <3> QED
      BY <1>7, <2>0, <3>1, <3>2, <3>4, <3>7
  <2> QED
    BY <2>1, <2>2
<1>12. entries' \in Seq(FxEntry) /\ flight' \in Seq(FxFlight) /\ blurred' \subseteq FxKeys
  BY <1>0, <1>1, <1>2
<1>13. served' \in Nat /\ made' \in Seq(FxCall) /\ cursor' \in [FxKeys -> Nat]
  BY <1>0, <1>2, <1>4, <1>7
<1> QED
  BY <1>0, <1>9, <1>10, <1>11, <1>12, <1>13, Within

(* Every step of a session keeps the invariant.                            *)
LEMMA FixturesSteps ==
  ASSUME FxInv, FixturesNext
  PROVE  FxInv'
<1>1. CASE RecordMode \/ LoadFixture
  BY <1>1, OpensStep
<1>2. CASE SpoilFixture
  BY <1>2, SpoilStep
<1>3. ASSUME NEW completed \in BOOLEAN, Leaves(completed) PROVE FxInv'
  BY <1>3, LeavesStep
<1>4. ASSUME NEW k \in FxKeys, StartCall(k) \/ StartInside(k) \/ ConsumeRecording(k) PROVE FxInv'
  BY <1>4, StartCallStep, StartInsideStep, ConsumeStep
<1>5. ASSUME NEW i \in DOMAIN flight, ToolReturned(i) \/ ToolRaised(i) PROVE FxInv'
  BY <1>5, ToolReturnedStep, ToolRaisedStep
<1> QED
  BY <1>1, <1>2, <1>3, <1>4, <1>5 DEF FixturesNext

-----------------------------------------------------------------------------
(* What the harnesses say of a flow is what its runs showed.  While fuzz   *)
(* shrinks a failure, the input it has still fails and is no larger than   *)
(* the case, and when the rounds settle no single reduction of it fails    *)
(* (minimize_failure in fuzz.py); its exit code is 0 only if no case       *)
(* failed, and a finished report has a trace of each failure that shows    *)
(* it.  attest exits with 0 only after all repeats of every input agreed   *)
(* (attest.py).  record_then_replay serves to the n-th call of a key what  *)
(* the n-th recorded call of that key returned, from a fixture that holds  *)
(* no secret and every call of the recorded test (testing/replay.py).      *)
THEOREM EvidenceTrue == EvidenceSpec => []EvidenceIsTrue
<1> DEFINE Inv == EvidenceInv /\ FxInv
<1>1. EvidenceInit /\ FixturesInit => Inv
  BY EvidenceStarts, FxStarts
<1>2. Inv /\ [HarnessesNext]_<<evidenceVars, fixtureVars>> => Inv'
  <2>1. ASSUME Inv, EvidenceNext, UNCHANGED fixtureVars PROVE Inv'
    BY <2>1, EvidenceSteps, FxStays
  <2>2. ASSUME Inv, FixturesNext, UNCHANGED evidenceVars PROVE Inv'
    BY <2>2, FixturesSteps, EvidenceStays
  <2>3. ASSUME Inv, UNCHANGED <<evidenceVars, fixtureVars>> PROVE Inv'
    <3>1. UNCHANGED evidenceVars /\ UNCHANGED fixtureVars
      BY <2>3
    <3> QED
      BY <2>3, <3>1, EvidenceStays, FxStays
  <2> QED
    BY <2>1, <2>2, <2>3 DEF HarnessesNext
<1>3. Inv => EvidenceIsTrue
  BY ShrunkMinimal, FixturesAnswer DEF EvidenceInv, EvidenceIsTrue
<1> QED
  BY <1>1, <1>2, <1>3, PTL DEF EvidenceSpec

=============================================================================
