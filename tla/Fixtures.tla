------------------------------- MODULE Fixtures -------------------------------
(***************************************************************************)
(* record_then_replay (chainweaver/testing/replay.py): a decorated test    *)
(* runs with Tool._call_fn and Tool._call_fn_async patched.  A recording   *)
(* session lets every call through and writes what returned to a fixture   *)
(* file, redacted; a replay session serves the fixture instead, first in,  *)
(* first out per tool and input.  One session is open at a time; within    *)
(* it, calls of the async lane overlap and a flow wrapped as a tool calls  *)
(* the tools of its steps.                                                 *)
(***************************************************************************)
EXTENDS Integers, Sequences, FiniteSets, SequencesExt

CONSTANTS
  FxKind,      \* tool -> "sync", "async" or "stream"
  FxInside,    \* tool -> keys that the flow it wraps may call
  FxKeys,      \* what tests call: <<tool, <<input, "plain" or "secret">>>>
  MaxFxCalls,  \* bound: calls in a session
  MaxSessions  \* bound: sessions

ASSUME FixturesAssumption ==
  /\ FxKeys \subseteq (DOMAIN FxKind) \X ({k[2][1] : k \in FxKeys} \X {"plain", "secret"})
  /\ \A t \in DOMAIN FxKind : FxKind[t] \in {"sync", "async", "stream"}

Stale == <<0, "plain">>
NoFixture == [is |-> "absent", entries |-> <<>>]

VARIABLES
  fixture,   \* the file
  test,      \* the decorated test: [redact, lane], its policy and its executor calls
  fxSession, \* "record", "replay" or "none"
  entries,   \* its interactions: recorded so far, or loaded
  cursor,    \* cursor_by_key
  flight,    \* calls that have not returned: [key, nth]
  made,      \* the calls the test itself made: [key, out]
  blurred,   \* keys called inside a wrapped flow, overlapping or raising
  fxSource,  \* made and blurred of the last recording session that completed
  served,    \* tool calls that returned in the session, which number the outputs
  fxSessions \* sessions opened

fixtureVars == <<fixture, test, fxSession, entries, cursor, flight, made, blurred, fxSource,
                 served, fxSessions>>

NoSource == [made |-> <<>>, blurred |-> {}]

FixturesInit ==
  /\ test \in [redact : BOOLEAN, lane : {"sync", "async"}]
  /\ fixture = NoFixture /\ fxSession = "none" /\ entries = <<>>
  /\ cursor = [k \in FxKeys |-> 0] /\ flight = <<>> /\ made = <<>> /\ blurred = {}
  /\ fxSource = NoSource /\ served = 0 /\ fxSessions = 0

-----------------------------------------------------------------------------
(* A value is a name and whether it holds a key the policy masks.          *)
Redact(v) == IF v[2] = "secret" THEN <<v[1], "masked">> ELSE v

(* Which patches process a call.  The sync one passes async tools on.      *)
IsAsync(t) == FxKind[t] # "sync"
PatchedCallFn(t, lane) == lane = "sync" /\ ~IsAsync(t)
PatchedCallFnAsync(t, lane) ==
  \/ lane = "sync" /\ IsAsync(t)
  \/ lane = "async" /\ FxKind[t] # "stream"   \* run_streaming calls no patch
Points(t, lane) ==
  (IF PatchedCallFn(t, lane) THEN 1 ELSE 0) + (IF PatchedCallFnAsync(t, lane) THEN 1 ELSE 0)

-----------------------------------------------------------------------------
(* The session.                                                            *)

Opens(mode, loaded) ==
  /\ fxSession = "none" /\ fxSessions < MaxSessions /\ fxSessions' = fxSessions + 1
  /\ fxSession' = mode /\ entries' = loaded
  /\ UNCHANGED <<fixture, test, cursor, flight, made, blurred, fxSource, served>>

RecordMode == Opens("record", <<>>)
(* A fixture that is absent or malformed raises before the test begins.    *)
LoadFixture == fixture.is = "fixture" /\ Opens("replay", fixture.entries)

SaveFixture ==
  fixture' = [is |-> "fixture",
              entries |-> IF test.redact
                          THEN [i \in DOMAIN entries |->
                                  [key |-> <<entries[i].key[1], Redact(entries[i].key[2])>>,
                                   out |-> Redact(entries[i].out)]]
                          ELSE entries]

(* No call is in flight: asyncio.run of the test cancels what it leaves.   *)
Leaves(completed) ==
  /\ fxSession # "none" /\ flight = <<>> /\ fxSession' = "none"
  /\ entries' = <<>> /\ cursor' = [k \in FxKeys |-> 0]
  /\ made' = <<>> /\ blurred' = {} /\ served' = 0
  /\ IF fxSession = "record" /\ completed THEN SaveFixture ELSE UNCHANGED fixture
  /\ fxSource' = IF fxSession = "record" /\ completed THEN [made |-> made, blurred |-> blurred]
                 ELSE fxSource
  /\ UNCHANGED <<test, flight, fxSessions>>

-----------------------------------------------------------------------------
(* Calls.                                                                  *)

Room == /\ fxSession # "none" /\ Len(made) < MaxFxCalls
        /\ fxSession = "record" => Len(entries) + Len(flight) < MaxFxCalls

InFlight(k) == \E i \in DOMAIN flight : flight[i].key = k
Wrapping(k) == \E i \in DOMAIN flight : k \in FxInside[flight[i].key[1]]
InsideOf(i) == {j \in DOMAIN flight : flight[j].nth = 0 /\ flight[i].nth > 0
                                       /\ flight[j].key \in FxInside[flight[i].key[1]]}

(* A call of the test that reaches the tool: in a recording, or past the   *)
(* patches.                                                                *)
StartCall(k) ==
  /\ Room /\ (test.lane = "sync" => flight = <<>>)
  /\ fxSession = "record" \/ Points(k[1], test.lane) = 0
  /\ flight' = Append(flight, [key |-> k, nth |-> Len(made) + 1])
  /\ made' = Append(made, [key |-> k, out |-> Stale])
  /\ blurred' = blurred \cup (IF InFlight(k) THEN {k} ELSE {})
  /\ UNCHANGED <<fixture, test, fxSession, entries, cursor, fxSource, served, fxSessions>>

(* A step of a wrapped flow; nth = 0: the test did not make this call.     *)
StartInside(k) ==
  /\ Room /\ Wrapping(k)
  /\ flight' = Append(flight, [key |-> k, nth |-> 0])
  /\ blurred' = blurred \cup {k}
  /\ UNCHANGED <<fixture, test, fxSession, entries, cursor, made, fxSource, served, fxSessions>>

ToolReturned(i) ==
  LET c == flight[i]
      out == <<served + 1, "secret">>
      lane == IF c.nth = 0 THEN "sync" ELSE test.lane   \* Tool.from_flow calls execute_flow
  IN  /\ InsideOf(i) = {} /\ served' = served + 1
      /\ flight' = RemoveAt(flight, i)
      /\ made' = IF c.nth = 0 THEN made ELSE [made EXCEPT ![c.nth].out = out]
      /\ entries' = IF fxSession = "record"
                    THEN entries \o [n \in 1 .. Points(c.key[1], lane) |->
                                       [key |-> c.key, out |-> out]]
                    ELSE entries
      /\ UNCHANGED <<fixture, test, fxSession, cursor, blurred, fxSource, fxSessions>>

(* A call that raises, times out or is cancelled is not recorded.          *)
ToolRaised(i) ==
  /\ InsideOf(i) = {} /\ flight' = RemoveAt(flight, i) /\ blurred' = blurred \cup {flight[i].key}
  /\ UNCHANGED <<fixture, test, fxSession, entries, cursor, made, fxSource, served, fxSessions>>

Matches(k) == {i \in DOMAIN entries : i > cursor[k] /\ entries[i].key = k}

ConsumeRecording(k) ==
  /\ Room /\ fxSession = "replay" /\ Points(k[1], test.lane) > 0
  /\ IF Matches(k) = {}
     THEN made' = Append(made, [key |-> k, out |-> Stale]) /\ UNCHANGED cursor
     ELSE LET next == CHOOSE i \in Matches(k) : \A j \in Matches(k) : i <= j
          IN  /\ cursor' = [cursor EXCEPT ![k] = next]
              /\ made' = Append(made, [key |-> k, out |-> entries[next].out])
  /\ UNCHANGED <<fixture, test, fxSession, entries, flight, blurred, fxSource, served, fxSessions>>

(* Somebody deletes the fixture, or damages it.                            *)
SpoilFixture ==
  /\ fxSession = "none" /\ fixture.is = "fixture" /\ fixture' = NoFixture
  /\ UNCHANGED <<test, fxSession, entries, cursor, flight, made, blurred, fxSource, served,
                 fxSessions>>

FixturesNext ==
  \/ RecordMode \/ LoadFixture \/ SpoilFixture
  \/ \E completed \in BOOLEAN : Leaves(completed)
  \/ \E k \in FxKeys : StartCall(k) \/ StartInside(k) \/ ConsumeRecording(k)
  \/ \E i \in DOMAIN flight : ToolReturned(i) \/ ToolRaised(i)

-----------------------------------------------------------------------------
(* A replay answers the n-th call of a tool with an input by what the n-th *)
(* such call of the recorded test returned, masked if the recording was,   *)
(* and calls nothing stale that was recorded; unless the input itself was  *)
(* masked, or the recorded calls of that key raised, overlapped or came    *)
(* from inside a wrapped flow, which the fixture cannot tell apart.        *)
Turn(calls, i) == Cardinality({j \in 1 .. i : calls[j].key = calls[i].key})
RecordingsReplay ==
  fxSession = "replay" =>
    \A i \in DOMAIN made :
      LET k == made[i].key
          then == {j \in DOMAIN fxSource.made :
                     fxSource.made[j].key = k /\ Turn(fxSource.made, j) = Turn(made, i)}
      IN  /\ k \notin fxSource.blurred /\ Points(k[1], test.lane) > 0
          /\ ~(test.redact /\ k[2][2] = "secret")
          => /\ then = {} => made[i].out = Stale
             /\ \A j \in then : made[i].out = IF test.redact THEN Redact(fxSource.made[j].out)
                                              ELSE fxSource.made[j].out

(* A fixture holds no secret unless the test switched redaction off, and   *)
(* every call of a test that completed: one that raised saves nothing.     *)
FixtureIsWhole ==
  fixture.is = "fixture" =>
    /\ test.redact => \A i \in DOMAIN fixture.entries :
                          "secret" \notin {fixture.entries[i].key[2][2], fixture.entries[i].out[2]}
    /\ \A i \in DOMAIN fxSource.made :
         LET c == fxSource.made[i] IN
         Points(c.key[1], test.lane) > 0 /\ c.out # Stale =>
           Cardinality({j \in DOMAIN fixture.entries :
                          fixture.entries[j].out[1] = c.out[1]}) = 1

(* What a fixture records is served, and nothing else.                     *)
FixturesServe == RecordingsReplay /\ FixtureIsWhole
=============================================================================
