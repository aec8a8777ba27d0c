------------------------------- MODULE Evidence -------------------------------
(***************************************************************************)
(* The two harnesses that gather evidence about a flow: chainweaver fuzz   *)
(* (chainweaver/fuzz.py, cli/fuzz.py) and chainweaver attest (attest.py,   *)
(* cli/attest.py).                                                         *)
(*                                                                         *)
(* Fuzzing builds its cases, runs them all, then shrinks and saves each    *)
(* failure in turn.  Without injected faults a run is a function of its    *)
(* input: bad is the set of inputs whose run violates the property.  An    *)
(* input maps its keys, numbered in sorted order, to a value that is       *)
(* already the simplest of its type or not.  Attestation repeats runs of   *)
(* one input and compares the canonical JSON of their outputs.             *)
(***************************************************************************)
EXTENDS Fixtures, FiniteSetsExt

CONSTANTS
  FuzzKeys,       \* input keys, in the order sorted() gives them
  BaseInputs,     \* inputs a first case may have
  FuzzOptions,    \* the --minimize and --output-fault-prob a call may have
  MaxShrinkRounds,\* minimize_failure(max_rounds=...)
  MaxCases,       \* bound: --runs of fuzz
  AttestOutputs,  \* canonical outputs of an attested run
  MaxAttestRuns,  \* bound: --runs of attest
  MaxRepeats      \* bound: --repeats of attest

FuzzValues == {"simple", "rich"}
FuzzInputs == UNION {[S -> FuzzValues] : S \in SUBSET FuzzKeys}

ASSUME EvidenceAssumption ==
  /\ FuzzKeys \subseteq Nat /\ BaseInputs \subseteq FuzzInputs
  /\ MaxShrinkRounds \in Nat /\ MaxCases \in Nat
  /\ MaxAttestRuns \in Nat /\ MaxRepeats \in Nat

VARIABLES
  bad,        \* inputs whose run violates the property
  harness,    \* where the command is
  options,    \* [minimize, faults] of the fuzz call
  cases,      \* the initial inputs of the cases, in order
  failures,   \* [case, input] of every violation, in case order
  caseAt,     \* how many cases have run; later how many failures are handled
  shrink,     \* the state of minimize_failure
  saved,      \* [case, input] of the traces written by --save-failures
  requested,  \* [runs, repeats] of the attest call
  runsOf,     \* per attested input, the outputs of its runs so far
  exitCode    \* 0, 1, or -1 while the command runs

evidenceVars == <<bad, harness, options, cases, failures, caseAt, shrink,
                  saved, requested, runsOf, exitCode>>

NoShrink == [cur |-> <<>>, pass |-> "none", todo |-> {}, changed |-> FALSE, round |-> 0]

Exits(code) == harness' = "done" /\ exitCode' = code

-----------------------------------------------------------------------------
(* Inputs and their mutations.                                             *)

Dropped(in, k) == [j \in DOMAIN in \ {k} |-> in[j]]

Replaced(in, k, v) == [j \in DOMAIN in \cup {k} |-> IF j = k THEN v ELSE in[j]]

\* One seeded mutation: a key dropped, corrupted in place or deeply, or an
\* extra one; an empty mapping stays as it is.
Mutations(in) ==
  IF DOMAIN in = {} THEN {in}
  ELSE {Dropped(in, k) : k \in DOMAIN in}
       \cup {Replaced(in, k, v) : k \in FuzzKeys, v \in FuzzValues}

SimplerValues(v) == IF v = "rich" THEN {"simple"} ELSE {}

-----------------------------------------------------------------------------
(* chainweaver fuzz: configuration, cases, runs.                           *)

FuzzCommand(o) ==
  /\ harness = "idle"
  /\ harness' = "build" /\ options' = o /\ bad' \in SUBSET FuzzInputs
  /\ UNCHANGED <<cases, failures, caseAt, shrink, saved, requested, runsOf, exitCode>>

\* No input_schema, or a field the generator cannot synthesise.
FuzzConfigFails ==
  /\ harness = "build" /\ cases = <<>>
  /\ Exits(1)
  /\ UNCHANGED <<bad, options, cases, failures, caseAt, shrink, saved, requested, runsOf>>

\* Case 0 is the pristine input, later ones are mutated.
BuildCase(in) ==
  /\ harness = "build" /\ Len(cases) < MaxCases
  /\ in \in IF cases = <<>> THEN BaseInputs ELSE Mutations(cases[1])
  /\ cases' = Append(cases, in)
  /\ UNCHANGED <<bad, harness, options, failures, caseAt, shrink, saved, requested, runsOf, exitCode>>

RunCases ==
  /\ harness = "build" /\ cases # <<>>
  /\ harness' = "run"
  /\ UNCHANGED <<bad, options, cases, failures, caseAt, shrink, saved, requested, runsOf, exitCode>>

\* With fault-wrapped tools the property may fail, or pass, whatever the input.
Violated(in) == IF options.faults THEN BOOLEAN ELSE {in \in bad}

ExecuteCase(violated) ==
  /\ harness = "run" /\ caseAt < Len(cases)
  /\ violated \in Violated(cases[caseAt + 1])
  /\ failures' = IF violated
                 THEN Append(failures, [case |-> caseAt, input |-> cases[caseAt + 1]])
                 ELSE failures
  /\ caseAt' = caseAt + 1
  /\ UNCHANGED <<bad, harness, options, cases, shrink, saved, requested, runsOf, exitCode>>

\* execute_flow raises: the command exits and the failures so far are lost.
CaseRaises ==
  /\ harness = "run" /\ caseAt < Len(cases)
  /\ Exits(1) /\ failures' = <<>>
  /\ UNCHANGED <<bad, options, cases, caseAt, shrink, saved, requested, runsOf>>

Report ==
  /\ harness = "run" /\ caseAt = Len(cases)
  /\ harness' = "report" /\ caseAt' = 0
  /\ UNCHANGED <<bad, options, cases, failures, shrink, saved, requested, runsOf, exitCode>>

-----------------------------------------------------------------------------
(* minimize_failure: remove keys, simplify values, until a round is idle.  *)

Failure == failures[caseAt + 1]

Violates(in) == in \in bad

StartShrink ==
  /\ harness = "report" /\ caseAt < Len(failures) /\ options.minimize
  /\ IF Violates(Failure.input)
     THEN /\ harness' = "shrink" /\ UNCHANGED exitCode
          /\ shrink' = [cur |-> Failure.input, pass |-> "remove",
                        todo |-> DOMAIN Failure.input, changed |-> FALSE, round |-> 1]
     ELSE Exits(1) /\ UNCHANGED shrink  \* FuzzConfigError leaves the command
  /\ UNCHANGED <<bad, options, cases, failures, caseAt, saved, requested, runsOf>>

\* The reductions of one key in the pass at hand, best first.
Shrinks(k) ==
  CASE shrink.pass = "remove" -> {Dropped(shrink.cur, k)}
    [] shrink.pass = "simplify" -> {Replaced(shrink.cur, k, v) : v \in SimplerValues(shrink.cur[k])}

(* Variant: every shrunk input is kept.                                    *)
KeepsAny(in) == TRUE

Keeps(in) == Violates(in)

TryKey ==
  /\ harness = "shrink" /\ shrink.todo # {}
  /\ LET k == Min(shrink.todo)
         kept == {c \in Shrinks(k) : Keeps(c)}
     IN shrink' = [shrink EXCEPT
                     !.cur = IF kept = {} THEN @ ELSE CHOOSE c \in kept : TRUE,
                     !.changed = @ \/ kept # {},
                     !.todo = @ \ {k}]
  /\ UNCHANGED <<bad, harness, options, cases, failures, caseAt, saved, requested, runsOf, exitCode>>

EndPass ==
  /\ harness = "shrink" /\ shrink.todo = {} /\ shrink.pass = "remove"
  /\ shrink' = [shrink EXCEPT !.pass = "simplify", !.todo = DOMAIN shrink.cur]
  /\ UNCHANGED <<bad, harness, options, cases, failures, caseAt, saved, requested, runsOf, exitCode>>

RoundOver == harness = "shrink" /\ shrink.todo = {} /\ shrink.pass = "simplify"

LastRound == ~shrink.changed \/ shrink.round = MaxShrinkRounds

NextRound ==
  /\ RoundOver /\ ~LastRound
  /\ shrink' = [shrink EXCEPT !.pass = "remove", !.todo = DOMAIN shrink.cur,
                              !.changed = FALSE, !.round = @ + 1]
  /\ UNCHANGED <<bad, harness, options, cases, failures, caseAt, saved, requested, runsOf, exitCode>>

-----------------------------------------------------------------------------
(* One trace per failure, of the minimized input when there is one.        *)

SavesTrace(in) ==
  /\ saved' = saved \cup {[case |-> Failure.case, input |-> in]}
  /\ caseAt' = caseAt + 1 /\ shrink' = NoShrink /\ harness' = "report"
  /\ UNCHANGED <<bad, options, cases, failures, requested, runsOf, exitCode>>

SaveShrunk == RoundOver /\ LastRound /\ SavesTrace(shrink.cur)

SaveFailure ==
  /\ harness = "report" /\ caseAt < Len(failures) /\ ~options.minimize
  /\ SavesTrace(Failure.input)

FuzzEnds ==
  /\ harness = "report" /\ caseAt = Len(failures)
  /\ Exits(IF failures = <<>> THEN 0 ELSE 1)
  /\ UNCHANGED <<bad, options, cases, failures, caseAt, shrink, saved, requested, runsOf>>

-----------------------------------------------------------------------------
(* chainweaver attest.                                                     *)

\* Inputs of --seed-input are taken as they are, an empty list too.
AttestCommand(n, m, seeded) ==
  /\ harness = "idle"
  /\ IF m < 2 \/ (n < 1 /\ ~seeded) THEN Exits(1) /\ UNCHANGED <<requested, runsOf>>
     ELSE /\ harness' = "attest" /\ UNCHANGED exitCode
          /\ requested' = [runs |-> n, repeats |-> m]
          /\ runsOf' = IF n = 0 THEN <<>> ELSE << <<>> >>
  /\ UNCHANGED <<bad, options, cases, failures, caseAt, shrink, saved>>

\* The generator fails on a field, or its payload does not validate.
AttestInputFails ==
  /\ harness = "attest" /\ runsOf = << <<>> >>
  /\ Exits(1) /\ runsOf' = <<>>
  /\ UNCHANGED <<bad, options, cases, failures, caseAt, shrink, saved, requested>>

Current == runsOf[Len(runsOf)]

FailedIn(outs) == \E i \in DOMAIN outs : outs[i] = "failed"

\* A failed run ends the repeats of its input.
Attested(outs) == Len(outs) = requested.repeats \/ FailedIn(outs)

RunOnce(out) ==
  /\ harness = "attest" /\ runsOf # <<>> /\ ~Attested(Current)
  /\ runsOf' = [runsOf EXCEPT ![Len(runsOf)] = Append(@, out)]
  /\ UNCHANGED <<bad, harness, options, cases, failures, caseAt, shrink, saved, requested, exitCode>>

NextInput ==
  /\ harness = "attest" /\ runsOf # <<>> /\ Attested(Current) /\ Len(runsOf) < requested.runs
  /\ runsOf' = Append(runsOf, <<>>)
  /\ UNCHANGED <<bad, harness, options, cases, failures, caseAt, shrink, saved, requested, exitCode>>

Fingerprints(outs) == {outs[i] : i \in DOMAIN outs}

\* An input without one agreed fingerprint is reported as a divergence.
Diverges(outs) == FailedIn(outs) \/ Cardinality(Fingerprints(outs)) > 1

ObservedDeterministic == \A i \in DOMAIN runsOf : ~Diverges(runsOf[i])

AttestEnds ==
  /\ harness = "attest" /\ Len(runsOf) = requested.runs
  /\ requested.runs > 0 => Attested(Current)
  /\ Exits(IF ObservedDeterministic THEN 0 ELSE 1)
  /\ UNCHANGED <<bad, options, cases, failures, caseAt, shrink, saved, requested, runsOf>>

-----------------------------------------------------------------------------

EvidenceInit ==
  /\ bad = {} /\ harness = "idle"
  /\ options = [minimize |-> FALSE, faults |-> FALSE]
  /\ cases = <<>> /\ failures = <<>> /\ caseAt = 0 /\ shrink = NoShrink
  /\ saved = {} /\ requested = [runs |-> 0, repeats |-> 0] /\ runsOf = <<>>
  /\ exitCode = -1

EvidenceNext ==
  \/ \E o \in FuzzOptions : FuzzCommand(o)
  \/ FuzzConfigFails \/ \E in \in FuzzInputs : BuildCase(in)
  \/ RunCases \/ \E v \in BOOLEAN : ExecuteCase(v)
  \/ CaseRaises \/ Report \/ StartShrink \/ TryKey \/ EndPass \/ NextRound
  \/ SaveShrunk \/ SaveFailure \/ FuzzEnds
  \/ \E n \in 0 .. MaxAttestRuns, m \in 1 .. MaxRepeats, seeded \in BOOLEAN :
       AttestCommand(n, m, seeded)
  \/ AttestInputFails \/ \E out \in AttestOutputs \cup {"failed"} : RunOnce(out)
  \/ NextInput \/ AttestEnds

\* A command beside a test session: they share nothing.
HarnessesNext ==
  \/ EvidenceNext /\ UNCHANGED fixtureVars
  \/ FixturesNext /\ UNCHANGED evidenceVars

EvidenceSpec ==
  EvidenceInit /\ FixturesInit /\ [][HarnessesNext]_<<evidenceVars, fixtureVars>>

-----------------------------------------------------------------------------
(* Properties.                                                             *)

\* in is at most as large as from: keys removed, values made simpler.
NoLargerThan(in, from) ==
  /\ DOMAIN in \subseteq DOMAIN from
  /\ \A k \in DOMAIN in : in[k] = from[k] \/ in[k] \in SimplerValues(from[k])

Reductions(in) ==
  {Dropped(in, k) : k \in DOMAIN in}
    \cup UNION {{Replaced(in, k, v) : v \in SimplerValues(in[k])} : k \in DOMAIN in}

\* What minimize_failure shrinks to is a reduction of the failing input that
\* still violates the property, and no single reduction of it does, unless
\* the rounds ran out.
ShrunkIsMinimal ==
  harness = "shrink" =>
    /\ Violates(shrink.cur) /\ NoLargerThan(shrink.cur, Failure.input)
    /\ RoundOver /\ ~shrink.changed => Reductions(shrink.cur) \cap bad = {}

\* A fuzz command that exits with 0 ran every case and none was violated; one
\* that reports its failures to the end has a trace of each, and without
\* faults a violating one.
FuzzReportIsTrue ==
  harness = "done" /\ cases # <<>> =>
    /\ exitCode = 0 /\ ~options.faults => \A i \in DOMAIN cases : cases[i] \notin bad
    /\ caseAt = Len(failures) =>
         \A i \in DOMAIN failures :
           \E t \in saved : /\ t.case = failures[i].case
                            /\ options.faults \/ t.input \in bad

\* attest exits with 0 only after every input was run as often as asked and
\* all runs agreed.
AttestationIsTrue ==
  harness = "done" /\ exitCode = 0 /\ cases = <<>> =>
    /\ Len(runsOf) = requested.runs
    /\ \A i \in DOMAIN runsOf :
         /\ Len(runsOf[i]) = requested.repeats /\ requested.repeats > 1
         /\ \A j \in DOMAIN runsOf[i] : runsOf[i][j] = runsOf[i][1] /\ runsOf[i][j] # "failed"

\* What the harnesses report about a flow is what their runs showed.
EvidenceIsTrue == ShrunkIsMinimal /\ FuzzReportIsTrue /\ AttestationIsTrue /\ FixturesServe
=============================================================================
