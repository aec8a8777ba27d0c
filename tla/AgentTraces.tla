----------------------------- MODULE AgentTraces -----------------------------
(***************************************************************************)
(* The coding-agent trace pipeline: a JSONL log grows while an agent       *)
(* works; loading it parses, redacts and groups its events; every tool     *)
(* sequence found in it can be scored, drafted into a flow and backtested  *)
(* against the same events.  Loading is all or nothing: one bad line       *)
(* refuses the file.                                                       *)
(***************************************************************************)
EXTENDS Integers, Sequences, FiniteSets, SequencesExt, SeqParts

CONSTANTS
  TraceLines,    \* lines an agent may log: BadLine, or records like NoEvent
  VerbOf,        \* the leaf verb of each tool name: "read", "effect" or "other"
  SecretKeys,    \* redact_keys
  MaxLines, MaxWidth

(* args maps argument names to values; outs are the output's field names.  *)
BadLine == [session |-> "none", kind |-> "bad", tool |-> "", args |-> <<>>, outs |-> {},
            failed |-> FALSE]
Synthetic(t) == [session |-> "synthetic", kind |-> "tool_call", tool |-> t, args |-> <<>>,
                 outs |-> {}, failed |-> FALSE]

(* A line is a tool call, a model call, or no event at all.                *)
ASSUME AgentTracesAssumption ==
  /\ MaxLines \in Nat
  /\ \A l \in TraceLines : /\ DOMAIN l = DOMAIN BadLine /\ IsFiniteSet(DOMAIN l.args)
                          /\ l.kind \in {"bad", "tool_call", "model_call"}

VARIABLES
  jsonl,       \* the file
  events,      \* what the last load returned
  masks,       \* its redactor: <<value, ordinal>> pairs
  importError  \* the last load raised AgentTraceImportError

traceVars == <<jsonl, events, masks, importError>>

AgentTracesInit == jsonl = <<>> /\ events = <<>> /\ masks = {} /\ importError = FALSE

Log(l) ==
  /\ Len(jsonl) < MaxLines
  /\ jsonl' = Append(jsonl, l)
  /\ UNCHANGED <<events, masks, importError>>

------------------------------------------------------------------------------
(* Loading.  A record is one JSON object; a tool call must name its tool.  *)

CoerceFails(l) == l.kind = "bad" \/ (l.kind = "tool_call" /\ l.tool = "")

(* The placeholder table after a value was met: one ordinal per value.     *)
Placeholder(ms, v) ==
  IF \E p \in ms : p[1] = v THEN ms ELSE ms \cup {<<v, Cardinality(ms) + 1>>}
Secrets(l) == SetToSeq({l.args[k] : k \in DOMAIN l.args \cap SecretKeys})
Numbered(values) ==
  LET table[n \in 0 .. Len(values)] ==
        IF n = 0 THEN {} ELSE Placeholder(table[n - 1], values[n])
  IN  table[Len(values)]
Masked(ls) == Numbered(Concat([i \in DOMAIN ls |-> Secrets(ls[i])]))
Redacted(ms, l) ==
  [l EXCEPT !.args = [k \in DOMAIN l.args |->
     IF k \in SecretKeys THEN CHOOSE p \in ms : p[1] = l.args[k] ELSE <<l.args[k]>>]]

LoadAgentTrace ==
  /\ importError' = \E i \in DOMAIN jsonl : CoerceFails(jsonl[i])
  /\ IF importError'
     THEN events' = <<>> /\ masks' = {}
     ELSE LET ms == Masked(jsonl)
          IN  masks' = ms /\ events' = [i \in DOMAIN jsonl |-> Redacted(ms, jsonl[i])]
  /\ UNCHANGED jsonl

AgentTracesNext == (\E l \in TraceLines : Log(l)) \/ LoadAgentTrace
AgentTracesSpec == AgentTracesInit /\ [][AgentTracesNext]_traceVars

------------------------------------------------------------------------------
(* Scoring, over the events grouped by session.                            *)

Sessions == {events[i].session : i \in DOMAIN events}
GroupToolEvents(s) == Only(events, {e \in ToSet(events) : e.session = s})
ToolEvents(s) == Only(GroupToolEvents(s), {e \in ToSet(events) : e.kind = "tool_call"})
(* The names support and determinism look at: every event with a tool.     *)
NameSequence(s) == LET es == Only(GroupToolEvents(s), {e \in ToSet(events) : e.tool # ""})
                   IN  [i \in DOMAIN es |-> es[i].tool]
(* <<session, position>> of each place where a session's names have the    *)
(* sequence.                                                               *)
Places(names, seq) ==
  {w \in Sessions \X (1..MaxLines) :
     /\ w[2] + Len(seq) - 1 <= Len(names[w[1]])
     /\ SubSeq(names[w[1]], w[2], w[2] + Len(seq) - 1) = seq}
FindWindows(seq) == Places([s \in Sessions |-> NameSequence(s)], seq)
CalledNames(s) == [i \in DOMAIN ToolEvents(s) |-> ToolEvents(s)[i].tool]
IterWindows(seq) == Places([s \in Sessions |-> CalledNames(s)], seq)
EventAt(w, i) == ToolEvents(w[1])[w[2] + i - 1]
Succeeded(w, seq) == \A i \in DOMAIN seq : ~EventAt(w, i).failed

ClassifySafety(seq) ==
  CASE \E i \in DOMAIN seq : VerbOf[seq[i]] = "effect" -> "side_effecting"
    [] \A i \in DOMAIN seq : VerbOf[seq[i]] = "read" -> "read_only"
    [] OTHER -> "unknown"

(* The rates, as fractions <<part, whole>>.                                *)
Rate(part, whole) == IF whole = 0 THEN <<1, 1>> ELSE <<part, whole>>
SuccessRate(seq) ==
  Rate(Cardinality({w \in IterWindows(seq) : Succeeded(w, seq)}), Cardinality(IterWindows(seq)))
SchemaStability(seq) ==
  LET ws == IterWindows(seq)
      shape(w, i) == DOMAIN EventAt(w, i).args
      commonest(i) == CHOOSE n \in {Cardinality({v \in ws : shape(v, i) = shape(w, i)}) : w \in ws} :
                        \A w \in ws : Cardinality({v \in ws : shape(v, i) = shape(w, i)}) <= n
  IN  IF Cardinality(ws) <= 1 THEN <<1, 1>>
      ELSE <<FoldFunction(+, 0, [i \in DOMAIN seq |-> commonest(i)]), Cardinality(ws) * Len(seq)>>
Determinism(seq) ==
  LET steps == {x \in (1..(Len(seq) - 1)) \X Sessions \X (1..MaxLines) :
                  x[3] < Len(NameSequence(x[2])) /\ NameSequence(x[2])[x[3]] = seq[x[1]]}
      hits == {x \in steps : NameSequence(x[2])[x[3] + 1] = seq[x[1] + 1]}
  IN  Rate(Cardinality(hits), Cardinality(steps))

AtLeast(rate, num, den) == rate[1] * den >= num * rate[2]
Warned(seq) ==
  \/ Cardinality(FindWindows(seq)) < 3
  \/ ~AtLeast(SuccessRate(seq), 9, 10)
  \/ ~AtLeast(SchemaStability(seq), 4, 5)
  \/ ~AtLeast(Determinism(seq), 4, 5)
  \/ ClassifySafety(seq) # "read_only"
(* The weighted score of a read-only sequence reaches 0.75.                *)
HighScore(seq) ==
  LET n == Cardinality(FindWindows(seq))
      u == <<IF n > 10 THEN 10 ELSE n, 10>>
      s == SuccessRate(seq)
      t == SchemaStability(seq)
      d == Determinism(seq)
  IN  25 * u[1] * s[2] * t[2] * d[2] + 25 * s[1] * u[2] * t[2] * d[2]
        + 20 * t[1] * u[2] * s[2] * d[2] + 20 * d[1] * u[2] * s[2] * t[2]
        >= 65 * u[2] * s[2] * t[2] * d[2]
Recommend(seq) ==
  CASE ClassifySafety(seq) = "side_effecting" -> "do_not_compile"
    [] ClassifySafety(seq) # "side_effecting" /\ ~Warned(seq) /\ HighScore(seq) -> "safe_to_draft"
    [] OTHER -> "review_needed"

------------------------------------------------------------------------------
(* Drafting and backtesting.                                               *)

FirstOf(s) == CHOOSE i \in DOMAIN events : /\ events[i].session = s
                                           /\ \A j \in 1..(i - 1) : events[j].session # s
Before(w, v) == FirstOf(w[1]) < FirstOf(v[1]) \/ (w[1] = v[1] /\ w[2] <= v[2])

(* The first window of the session that came first.                        *)
RepresentativeWindow(seq) ==
  LET ws == IterWindows(seq)
      w == CHOOSE w \in ws : \A v \in ws : Before(w, v)
  IN  IF ws = {} THEN [i \in DOMAIN seq |-> Synthetic(seq[i])]
      ELSE [i \in DOMAIN seq |-> EventAt(w, i)]
(* Variant: a later step maps its arguments whether or not an earlier      *)
(* step produced them.                                                     *)
EagerMapping(seq) ==
  [i \in DOMAIN seq |-> DOMAIN RepresentativeWindow(seq)[i].args]
(* What each step of the draft maps: the first everything its window had,  *)
(* a later one only fields an earlier step produced; the rest is warned.   *)
InputMapping(seq) ==
  LET w == RepresentativeWindow(seq)
      upstream(i) == UNION {w[j].outs : j \in 1..(i - 1)}
  IN  [i \in DOMAIN seq |-> IF i = 1 THEN DOMAIN w[1].args ELSE DOMAIN w[i].args \cap upstream(i)]

(* backtest_flow: the windows whose inputs cover the mapped fields.        *)
PassedInputShape(seq) ==
  {w \in IterWindows(seq) : \A i \in DOMAIN seq :
     InputMapping(seq)[i] \subseteq DOMAIN EventAt(w, i).args}
ProducedExpectedOutput(seq) == {w \in PassedInputShape(seq) : Succeeded(w, seq)}

------------------------------------------------------------------------------
SequencesSeen ==
  UNION {{SubSeq(NameSequence(s), y[1], y[2]) : y \in
            {x \in (1..Len(NameSequence(s))) \X (1..Len(NameSequence(s))) :
               x[2] >= x[1] /\ x[2] - x[1] < MaxWidth}} : s \in Sessions}
ModelCallsAreAnonymous == \A i \in DOMAIN events : events[i].kind = "model_call" => events[i].tool = ""

(* What a reviewer relies on.  A load keeps which secrets were equal and   *)
(* which were not, and shows none.  A draft reproduces the window it was   *)
(* made from, and every field a later step maps was produced before it in  *)
(* that window.  A sequence called safe to draft reads only and, unless a  *)
(* model call carried a tool name, its support is the number of windows a  *)
(* backtest replays, none of which (below ten) had a failed step.          *)
DraftsReplay ==
  /\ \A i, j \in DOMAIN events : \A k, l \in SecretKeys :
       k \in DOMAIN events[i].args /\ l \in DOMAIN events[j].args =>
         (events[i].args[k][2] = events[j].args[l][2]) = (jsonl[i].args[k] = jsonl[j].args[l])
  /\ \A seq \in SequencesSeen :
       /\ IterWindows(seq) # {} => PassedInputShape(seq) # {}
       /\ \A i \in 2..Len(seq) : \A k \in InputMapping(seq)[i] :
            \E j \in 1..(i - 1) : k \in RepresentativeWindow(seq)[j].outs
       /\ Recommend(seq) = "safe_to_draft" =>
            /\ \A i \in DOMAIN seq : VerbOf[seq[i]] = "read"
            /\ ModelCallsAreAnonymous =>
                 /\ Cardinality(FindWindows(seq)) = Cardinality(IterWindows(seq))
                 /\ Cardinality(IterWindows(seq)) < 10 =>
                      ProducedExpectedOutput(seq) = PassedInputShape(seq)
=============================================================================
