------------------------------- MODULE Analyzer -------------------------------
(***************************************************************************)
(* The offline advice about flows: ChainAnalyzer's suggested flows and     *)
(* mappings, the dead-step and parallel-pair suggestions                   *)
(* (chainweaver/analyzer.py) and FlowExecutor.explain_flow, each against   *)
(* what Compile says compilation and a run do with the flow at hand.  A    *)
(* field's normalized name stands for itself without case and separators.  *)
(***************************************************************************)
EXTENDS Compile

CONSTANTS
  SubFlowDeclared, \* fields of the sub-flow's output_schema, which it may leave out
  NormalName,  \* field -> its case- and separator-insensitive name
  Synonyms,    \* normalized consumer field -> normalized producer fields
  MaxChain     \* find_chains(max_depth=...)

ASSUME AnalyzerAssumption == MaxChain \in Nat

VARIABLE suggested   \* the plan was written by suggest_flows

analyzerVars == <<compileVars, suggested>>

Tools == DOMAIN ToolTable
Ins(t) == ToolTable[t].ins
Outs(t) == ToolTable[t].outs
Written(a) == FieldType[a].written

------------------------------------------------------------------------------
(* ChainAnalyzer.                                                          *)

IsCompatible(p, c) ==
  \A f \in DOMAIN Ins(c) : IF f \in DOMAIN Outs(p) THEN Written(Outs(p)[f]) = Written(Ins(c)[f].type)
                           ELSE ~Ins(c)[f].required

\* The chains of exactly n tools: no tool twice, every link compatible.
ChainsOf[n \in 1 .. MaxChain] ==
  IF n = 1 THEN {<<t>> : t \in Tools}
  ELSE {Append(x[1], x[2]) : x \in
          {y \in ChainsOf[n - 1] \X Tools :
             y[2] \notin ToSet(y[1]) /\ IsCompatible(y[1][n - 1], y[2])}}

FindChains == UNION {ChainsOf[n] : n \in 1 .. MaxChain}

\* Fields wired by name: from the predecessor, or all of them for the first.
AutoInputMapping(ch, i) ==
  LET wired == IF i = 1 THEN DOMAIN Ins(ch[1]) ELSE DOMAIN Ins(ch[i]) \cap DOMAIN Outs(ch[i - 1])
  IN [f \in wired |-> [kind |-> "key", key |-> f]]

SuggestedPlan(ch) ==
  [i \in DOMAIN ch |-> [NoStep EXCEPT !.tool = ch[i], !.ins = AutoInputMapping(ch, i)]]

\* The author takes a suggestion whose first tool the input schema serves.
SuggestFlow(ch) ==
  /\ lane = "Flow" /\ plan = <<>> /\ ~verdict.done /\ Len(ch) \in 2 .. MaxFlowSteps
  /\ \A f \in DOMAIN Ins(ch[1]) :
       f \in DOMAIN InputSchema /\ TypesCompatible(InputSchema[f], Ins(ch[1])[f].type)
  /\ plan' = SuggestedPlan(ch) /\ suggested' = TRUE
  /\ UNCHANGED <<lane, verdict, ctx, ran, runEnd, leftOut, rewritten>>

TypeCategory(ty) == IF ty \in {"int", "float"} THEN "number" ELSE ty
Categorised == {"str", "int", "float", "bool"}
TypeRelation(p, c) ==
  CASE p = c -> "exact"
    [] p # c /\ {p, c} \subseteq Categorised /\ TypeCategory(p) = TypeCategory(c) -> "compatible"
    [] OTHER -> "none"

\* Of two outputs with one normalized name the last one stands for it: any.
ByNormal(outs, n) == {o \in DOMAIN outs : NormalName[o] = n}

\* The output a consumer field may be matched with: its own name first, then
\* its normalized name, then a synonym, in no particular order among those.
MatchField(f, type, outs) ==
  LET typed(S) == {o \in S : TypeRelation(Written(outs[o]), Written(type)) # "none"}
      exact == typed({f} \cap DOMAIN outs)
      normal == typed(ByNormal(outs, NormalName[f]) \ {f})
      alias == IF NormalName[f] \in DOMAIN Synonyms
               THEN typed(UNION {ByNormal(outs, n) : n \in Synonyms[NormalName[f]]}) ELSE {}
  IN IF exact # {} THEN exact ELSE IF normal # {} THEN normal ELSE alias

\* The mappings suggest_schema_mappings may offer for an incompatible pair.
SchemaMappings(p, c) ==
  LET match == [f \in DOMAIN Ins(c) |-> MatchField(f, Ins(c)[f].type, Outs(p))]
      matched == {f \in DOMAIN Ins(c) : match[f] # {}}
      offers == {m \in [matched -> DOMAIN Outs(p)] : \A f \in matched : m[f] \in match[f]}
  IN IF IsCompatible(p, c) \/ ~(Required(c) \subseteq matched) THEN {}
     ELSE {m \in offers : \E f \in matched :
             m[f] # f \/ TypeRelation(Written(Outs(p)[m[f]]), Written(Ins(c)[f].type)) # "exact"}

------------------------------------------------------------------------------
(* suggest_optimizations on a linear flow.                                 *)

\* What a step takes from the context, as the analyzer sees it: a pointer is
\* taken for a key no tool writes, and a composed step without a mapping
\* reads nothing.
StepReads(s) ==
  IF s.ins # <<>>
  THEN {s.ins[k].key : k \in {j \in DOMAIN s.ins : s.ins[j].kind = "key"}}
  ELSE IF Known(s.tool) THEN DOMAIN Ins(s.tool) ELSE {}

(* Variant: only the next step is asked.                                   *)
NextReads(i) == StepReads(plan[i + 1])

DownstreamReads(i) == UNION {StepReads(plan[j]) : j \in i + 1 .. Len(plan)}

\* CW003: outputs that no later step reads.
DeadSteps ==
  {i \in 1 .. Len(plan) - 1 :
     /\ Known(plan[i].tool) /\ DOMAIN Outs(plan[i].tool) # {}
     /\ DOMAIN Outs(plan[i].tool) \cap DownstreamReads(i) = {}}

\* CW002: neighbours of which the second reads nothing the first writes.
ParallelizablePairs ==
  {i \in 1 .. Len(plan) - 1 :
     /\ Known(plan[i].tool) /\ Known(plan[i + 1].tool)
     /\ DOMAIN Outs(plan[i].tool) # {} /\ StepReads(plan[i + 1]) # {}
     /\ DOMAIN Outs(plan[i].tool) \cap StepReads(plan[i + 1]) = {}}

------------------------------------------------------------------------------
(* explain_flow: a context projected over the steps in list order.         *)

\* Of a composed step the fields its sub-flow declares, whatever the sub-flow
\* returns of them and the step's mapping makes of them.
ProjectedKeys(s) ==
  CASE s.tool = Composed -> SubFlowDeclared
    [] s.tool # Composed /\ ~Known(s.tool) -> {}
    [] Known(s.tool) /\ s.outs = <<>> -> DOMAIN Outs(s.tool)
    [] Known(s.tool) /\ s.outs # <<>> -> DOMAIN s.outs[1]

ProjectedContext(i) == DOMAIN InputSchema \cup UNION {ProjectedKeys(plan[j]) : j \in 1 .. i - 1}

UnresolvedKeys(i) ==
  {k \in DOMAIN plan[i].ins :
     plan[i].ins[k].kind # "literal" /\ plan[i].ins[k].key \notin ProjectedContext(i)}

AllResolvable ==
  \A i \in DOMAIN plan : /\ plan[i].tool = Composed \/ Known(plan[i].tool)
                         /\ UnresolvedKeys(i) = {}

------------------------------------------------------------------------------

AnalyzerInit == CompileInit /\ suggested = FALSE

AnalyzerNext ==
  \/ CompileNext /\ suggested' = (suggested /\ plan' = plan)
  \/ \E ch \in FindChains : SuggestFlow(ch)

AnalyzerSpec == AnalyzerInit /\ [][AnalyzerNext]_analyzerVars

------------------------------------------------------------------------------
(* Properties.                                                             *)

\* A flow suggest_flows wrote compiles: what is left to complain of is the
\* output schema, which the suggestion knows nothing of.
SuggestedFlowsCompile ==
  suggested /\ verdict.done => verdict.errors \subseteq {"output_schema_gap", "output_type_mismatch"}

\* A mapping suggest_schema_mappings offers serves the consumer right after
\* the producer: its keys are there and its required fields are covered.
MappingsServe ==
  \A p, c \in Tools : \A m \in SchemaMappings(p, c) :
    LET s == [NoStep EXCEPT !.tool = c, !.ins = [f \in DOMAIN m |-> [kind |-> "key", key |-> m[f]]]]
    IN StepErrors(s, Overlay(InputSchema, Outs(p))) \subseteq {"type_mismatch"}

\* A plan whose steps the analyzer reads in full: no pointer, no renamed
\* output, no sub-flow.
Readable ==
  /\ lane = "Flow"
  /\ \A i \in DOMAIN plan : /\ plan[i].outs = <<>> /\ plan[i].tool # Composed
                            /\ \A k \in DOMAIN plan[i].ins : plan[i].ins[k].kind # "pointer"

\* The context step j would see if step i were not there.
FieldsWithout(j, i) ==
  Updated(InputSchema, [n \in 1 .. j - 1 |-> IF n = i THEN <<>> ELSE Contribution(plan[n])])

\* Removing a dead step, or running a parallelizable pair on one context,
\* leaves no later step with a mapped key or a required field missing; and
\* the flow's own output schema, which the analyzer does not ask, keeps every
\* field that the dead step did not write.
DeadStepsAreDead ==
  Readable /\ verdict.done /\ verdict.errors = {} =>
    /\ \A i \in DeadSteps : \A j \in i + 1 .. Len(plan) :
         /\ Unresolved(plan[j], FieldsWithout(j, i)) = {}
         /\ Uncovered(plan[j], plan[j].tool, FieldsWithout(j, i)) = {}
    /\ \A i \in DeadSteps :
         DOMAIN OutputSchema \ DOMAIN FieldsWithout(Len(plan) + 1, i) \subseteq DOMAIN Outs(plan[i].tool)
    /\ \A i \in ParallelizablePairs :
         Unresolved(plan[i + 1], FieldsWithout(i + 1, i)) = {}

\* What a sub-flow declares and its step does not merge.
Undelivered(s) ==
  IF s.tool = Composed THEN SubFlowDeclared \ DOMAIN Renamed(s, SubFlowOutput) ELSE {}

\* A linear flow explain_flow calls resolvable does not stop for a mapped key:
\* as long as every input field was given, nothing was skipped and no fallback
\* ran short of outputs, a step whose turn it is finds every key it maps but
\* those a sub-flow before it declared and did not deliver.
ExplainIsTrue ==
  /\ lane = "Flow" /\ verdict.done /\ AllResolvable /\ ~leftOut
  /\ "fallback_output_shape_divergence" \notin verdict.warnings
  => \A i \in DOMAIN plan : RunReady(i) =>
       \A k \in Unresolved(plan[i], ctx) :
         \E j \in 1 .. i - 1 : plan[i].ins[k].key \in Undelivered(plan[j])

\* The advice the library gives about a flow is safe to take.
AdviceIsSafe == SuggestedFlowsCompile /\ MappingsServe /\ DeadStepsAreDead /\ ExplainIsTrue
==============================================================================
