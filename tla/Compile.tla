------------------------------- MODULE Compile -------------------------------
(***************************************************************************)
(* compile_flow and validate_dag_topology against what a run then does.    *)
(* A flow is put together step by step, checked for its topology and       *)
(* compiled, and run: each step resolves its inputs from the context,      *)
(* validates them, may fail into its on_error policy, and merges its       *)
(* outputs.  A linear flow runs in list order; a DAG in any order its      *)
(* dependencies allow, which includes the level order of the lanes.        *)
(* Fields carry what their declaration says of their type; a value is the  *)
(* declaration of the field it comes from.                                 *)
(***************************************************************************)
EXTENDS Integers, Sequences, FiniteSets, SequencesExt

CONSTANTS
  FieldType,     \* declaration -> [written, kept]: its annotation, and what the compiler keeps
  ToolTable,     \* tool name -> [ins, outs, safe]: ins field -> [type, required]
  InputSchema,   \* field -> declaration
  OptionalInput, \* fields of the input that a caller may leave out
  OutputSchema,  \* field -> declaration
  SubFlowOutput, \* what a sub-flow returns, unknown to the compiler
  StepChoices,   \* steps a flow may be built from, like NoStep
  MaxFlowSteps

(* "none" names no tool, at most MaxFlowSteps steps make a flow, and the   *)
(* compiler reads the annotation of a field and nothing else.              *)
ASSUME CompileAssumption ==
  /\ "none" \notin DOMAIN ToolTable /\ MaxFlowSteps \in Nat
  /\ \A a, b \in DOMAIN FieldType :
       FieldType[a].written = FieldType[b].written => FieldType[a].kept = FieldType[b].kept
  /\ \A t \in DOMAIN ToolTable :
       /\ \A k \in DOMAIN ToolTable[t].ins : ToolTable[t].ins[k].type \in DOMAIN FieldType
       /\ \A k \in DOMAIN ToolTable[t].outs : ToolTable[t].outs[k] \in DOMAIN FieldType
  /\ \A s \in StepChoices :
       s.deps \in Seq(Nat) /\ \A k \in DOMAIN s.ins : s.ins[k].kind \in {"key", "pointer", "literal"}

NoStep == [tool |-> "none", deps |-> <<>>, ins |-> <<>>, outs |-> <<>>, onError |-> "fail",
           retry |-> FALSE, branches |-> {}]
Composed == "none"      \* a sub-flow or capability step names no tool
Overlay(f, g) == [x \in DOMAIN f \cup DOMAIN g |-> IF x \in DOMAIN g THEN g[x] ELSE f[x]]

VARIABLES
  lane,      \* "Flow" or "DAGFlow"
  plan,      \* the steps; a DAG step's id is its position
  verdict,   \* compile's result: none, or the errors and warnings found
  ctx,       \* the run's context: key -> type
  ran,       \* steps that are over
  runEnd,    \* how the run ended, or "none"
  leftOut,   \* an input field was not given, or a step was skipped
  rewritten  \* a merge replaced a key of the context

compileVars == <<lane, plan, verdict, ctx, ran, runEnd, leftOut, rewritten>>

NoVerdict == [done |-> FALSE, errors |-> {}, warnings |-> {}]

CompileInit ==
  /\ lane \in {"Flow", "DAGFlow"}
  /\ plan = <<>> /\ verdict = NoVerdict
  /\ ctx = <<>> /\ ran = {} /\ runEnd = "none"
  /\ leftOut = FALSE /\ rewritten = FALSE

AddStep(s) ==
  /\ ~verdict.done /\ Len(plan) < MaxFlowSteps
  /\ lane = "Flow" => s.deps = <<>> /\ s.branches = {}
  /\ plan' = Append(plan, s)
  /\ UNCHANGED <<lane, verdict, ctx, ran, runEnd, leftOut, rewritten>>

------------------------------------------------------------------------------
(* validate_dag_topology, which runs when a flow is registered: a flow it   *)
(* refuses is never run, so what compile says of it is left out.           *)

Deps(s) == ToSet(s.deps)
(* Some steps wait for one another.                                        *)
HasCycle(p) ==
  \E C \in SUBSET DOMAIN p : C # {} /\ \A i \in C : Deps(p[i]) \cap C # {}
TopologyError(p) ==
  CASE \E i \in DOMAIN p : ~(Deps(p[i]) \subseteq DOMAIN p) -> "unknown_dependency"
    [] (\A i \in DOMAIN p : Deps(p[i]) \subseteq DOMAIN p) /\ HasCycle(p) -> "cycle"
    [] /\ ~HasCycle(p) /\ \A i \in DOMAIN p : Deps(p[i]) \subseteq DOMAIN p
       /\ \E i \in DOMAIN p : \E t \in p[i].branches :
            t \notin DOMAIN p \/ i \notin Deps(p[t]) -> "unknown_branch_target"
    [] OTHER -> "none"

------------------------------------------------------------------------------
(* _validate_step.                                                         *)

Numeric == <<"int", "float", "complex">>
Widens(source, target) ==
  \/ "any" \in {source, target} \/ source = target
  \/ \E i, j \in DOMAIN Numeric : Numeric[i] = source /\ Numeric[j] = target /\ i <= j
(* Of an annotation the compiler keeps the type: T of Optional[T], list of *)
(* list[T], and nothing ("any") of another union.                          *)
TypeKept(a) == FieldType[a].kept
TypesCompatible(source, target) == Widens(TypeKept(source), TypeKept(target))

Required(t) == {k \in DOMAIN ToolTable[t].ins : ToolTable[t].ins[k].required}
(* Required fields that neither the mapping nor, when it is empty, the     *)
(* context supplies.                                                       *)
Uncovered(s, t, fields) ==
  IF s.ins = <<>> THEN Required(t) \ DOMAIN fields ELSE Required(t) \ DOMAIN s.ins
BadTargets(s, t) == DOMAIN s.ins \ DOMAIN ToolTable[t].ins
Mistyped(s, t, fields) ==
  {k \in DOMAIN s.ins \cap DOMAIN ToolTable[t].ins :
     /\ s.ins[k].kind = "key" /\ s.ins[k].key \in DOMAIN fields
     /\ ~TypesCompatible(fields[s.ins[k].key], ToolTable[t].ins[k].type)}
Unresolved(s, fields) ==
  {k \in DOMAIN s.ins : s.ins[k].kind # "literal" /\ s.ins[k].key \notin DOMAIN fields}

(* outs is empty, or holds one mapping from context keys to output keys.   *)
MappedOutputs(s) == IF s.outs = <<>> THEN {} ELSE {s.outs[1][k] : k \in DOMAIN s.outs[1]}
Renamed(s, outs) ==
  IF s.outs = <<>> THEN outs
  ELSE [k \in {c \in DOMAIN s.outs[1] : s.outs[1][c] \in DOMAIN outs} |-> outs[s.outs[1][k]]]
Produces(s, t) == Renamed(s, ToolTable[t].outs)
HasFallback(s) == s.onError \notin {"fail", "skip"}
Known(t) == t \in DOMAIN ToolTable

StepErrors(s, fields) ==
  IF s.tool = Composed THEN {}
  ELSE IF ~Known(s.tool) THEN {"missing_tool"}
  ELSE {e \in {"unknown_target_key"} : BadTargets(s, s.tool) # {}}
    \cup {e \in {"missing_mapping_key"} : Unresolved(s, fields) # {}}
    \cup {e \in {"type_mismatch"} : Mistyped(s, s.tool, fields) # {}}
    \cup {e \in {"missing_required_input"} : Uncovered(s, s.tool, fields) # {}}
    \cup {e \in {"unknown_output_key"} : ~(MappedOutputs(s) \subseteq DOMAIN ToolTable[s.tool].outs)}
    \cup (IF ~HasFallback(s) THEN {}
          ELSE IF ~Known(s.onError) THEN {"missing_fallback_tool"}
          ELSE {e \in {"fallback_unknown_target_key"} : BadTargets(s, s.onError) # {}}
            \cup {e \in {"fallback_type_mismatch"} : Mistyped(s, s.onError, fields) # {}}
            \cup {e \in {"fallback_missing_required_input"} : Uncovered(s, s.onError, fields) # {}}
            \cup {e \in {"fallback_output_missing_mapped_key"} :
                    ~(MappedOutputs(s) \subseteq DOMAIN ToolTable[s.onError].outs)})
StepWarnings(s, fields) ==
  IF s.tool = Composed \/ ~Known(s.tool) THEN {}
  ELSE LET prim == ToolTable[s.tool].outs
           fall == IF HasFallback(s) /\ Known(s.onError) THEN ToolTable[s.onError].outs ELSE prim
           shared == IF s.outs = <<>> THEN DOMAIN prim \cap DOMAIN fall
                     ELSE MappedOutputs(s) \cap DOMAIN prim \cap DOMAIN fall
       IN  {w \in {"unsafe_retry"} : s.retry /\ ~ToolTable[s.tool].safe}
             \cup {w \in {"shadowed_key"} : \E k \in DOMAIN s.ins :
                     s.ins[k].kind = "key" /\ k \in DOMAIN fields /\ s.ins[k].key # k}
             \cup {w \in {"fallback_output_shape_divergence"} :
                     s.outs = <<>> /\ ~(DOMAIN prim \subseteq DOMAIN fall)}
             \cup {w \in {"fallback_output_type_mismatch"} :
                     \E k \in shared : ~TypesCompatible(fall[k], prim[k])}
             \cup {w \in {"context_collision"} : DOMAIN Produces(s, s.tool) \cap DOMAIN fields # {}}
Contribution(s) == IF Known(s.tool) THEN Produces(s, s.tool) ELSE <<>>

------------------------------------------------------------------------------
(* compile_flow.  The context step i sees: the input and, for a DAG, what  *)
(* its dependencies saw and contributed, the later entry of depends_on     *)
(* winning; for a linear flow what the step before left.                   *)

(* base, updated with each of the functions fs in turn.                    *)
Updated(base, fs) ==
  [x \in DOMAIN base \cup UNION {DOMAIN fs[d] : d \in DOMAIN fs} |->
     IF \A d \in DOMAIN fs : x \notin DOMAIN fs[d] THEN base[x]
     ELSE fs[CHOOSE d \in DOMAIN fs : /\ x \in DOMAIN fs[d]
                                     /\ \A e \in DOMAIN fs : x \in DOMAIN fs[e] => e <= d][x]]

StepsBefore(p, l, i) ==
  IF l = "DAGFlow" THEN p[i].deps ELSE IF i = 1 THEN <<>> ELSE <<i - 1>>
(* Seen from n steps back.                                                 *)
FieldsOf(p, l) ==
  LET fields[n \in 0..MaxFlowSteps] ==
        [i \in DOMAIN p |->
           IF n = 0 THEN InputSchema
           ELSE LET ds == StepsBefore(p, l, i)
                IN  Updated(InputSchema, [d \in DOMAIN ds |->
                      Overlay(fields[n - 1][ds[d]], Contribution(p[ds[d]]))])]
  IN  fields[MaxFlowSteps]
(* Variant: a step sees what every other step contributes.                 *)
StepFieldsOfAll(p, l, i) == Updated(InputSchema, [j \in DOMAIN p |-> Contribution(p[j])])
StepFields(p, l, i) == FieldsOf(p, l)[i]
FinalKeys(p) == DOMAIN InputSchema \cup UNION {DOMAIN Contribution(p[i]) : i \in DOMAIN p}
(* The types the steps give a key; with one, it is the final context's.    *)
FinalTypes(p, k) ==
  {Contribution(p[i])[k] : i \in {j \in DOMAIN p : k \in DOMAIN Contribution(p[j])}}
    \cup {InputSchema[x] : x \in {k} \cap DOMAIN InputSchema}

(* With several candidate types only a type they all miss is reported here: *)
(* which of them is last depends on the topological sorter.                 *)
CompileErrors(p, l) ==
  (UNION {StepErrors(p[i], StepFields(p, l, i)) : i \in DOMAIN p})
    \cup {e \in {"output_schema_gap"} : ~(DOMAIN OutputSchema \subseteq FinalKeys(p))}
    \cup {e \in {"output_type_mismatch"} : \E k \in DOMAIN OutputSchema \cap FinalKeys(p) :
            \A t \in FinalTypes(p, k) : ~TypesCompatible(t, OutputSchema[k])}
VerdictOn(p, l) ==
  IF TopologyError(p) # "none"
  THEN [done |-> TRUE, errors |-> {TopologyError(p)}, warnings |-> {}]
  ELSE [done |-> TRUE, errors |-> CompileErrors(p, l),
        warnings |-> UNION {StepWarnings(p[i], StepFields(p, l, i)) : i \in DOMAIN p}]

(* The run starts from the fields its caller gave, no defaults filled in.  *)
CompileFlow(given) ==
  /\ ~verdict.done /\ plan # <<>>
  /\ DOMAIN InputSchema \ OptionalInput \subseteq given
  /\ verdict' = VerdictOn(plan, lane)
  /\ ctx' = [k \in given |-> InputSchema[k]]
  /\ leftOut' = (given # DOMAIN InputSchema)
  /\ UNCHANGED <<lane, plan, ran, runEnd, rewritten>>

------------------------------------------------------------------------------
(* The run.                                                                *)

RunReady(i) == /\ verdict.done /\ TopologyError(plan) = "none" /\ runEnd = "none" /\ i \notin ran
               /\ IF lane = "Flow" THEN 1..(i - 1) \subseteq ran ELSE Deps(plan[i]) \subseteq ran

(* resolve_inputs and the tool's input validation.  A key must be there,   *)
(* and of a pointer the first token; the others may be missing all the     *)
(* same.                                                                   *)
Resolvable(s) == Unresolved(s, ctx) = {}
HasPointer(s) == \E k \in DOMAIN s.ins : s.ins[k].kind = "pointer"

(* A declaration that says no more than the type the compiler keeps of it: *)
(* no None, no union, no type parameter, no constraint or validator.       *)
Plain(a) == TypeKept(a) = a /\ a # "any"
(* Between plain fields a value fits its own type and a wider numeric one. *)
(* Any other value, a nested one that a pointer finds and a literal may be *)
(* refused or not: fits says which.                                        *)
Accepts(a, b, fits) == IF Plain(a) /\ Plain(b) THEN TypesCompatible(a, b) ELSE fits
Given(s) == IF s.ins = <<>> THEN DOMAIN ctx ELSE DOMAIN s.ins
ValueFits(s, t, k, fits) ==
  IF s.ins = <<>> THEN Accepts(ctx[k], ToolTable[t].ins[k].type, fits)
  ELSE IF s.ins[k].kind = "key" THEN Accepts(ctx[s.ins[k].key], ToolTable[t].ins[k].type, fits)
  ELSE fits
Valid(s, t, fits) ==
  /\ Required(t) \subseteq Given(s)
  /\ \A k \in Given(s) \cap DOMAIN ToolTable[t].ins : ValueFits(s, t, k, fits)
(* Why a tool refused its inputs: a field is absent, a value does not fit. *)
InputFailure(s, t, fits) ==
  CASE ~(Required(t) \subseteq Given(s)) -> "missing"
    [] Required(t) \subseteq Given(s) /\ ~Valid(s, t, fits) ->
         IF \E k \in Given(s) \cap DOMAIN ToolTable[t].ins :
              /\ ~ValueFits(s, t, k, fits) /\ s.ins # <<>> /\ s.ins[k].kind = "key"
         THEN "mistyped" ELSE "unfit"
    [] OTHER -> "none"

Merge(i, outs) ==
  /\ ctx' = Overlay(ctx, outs)
  /\ rewritten' = (rewritten \/ DOMAIN outs \cap DOMAIN ctx # {})
  /\ ran' = ran \cup {i}
  /\ UNCHANGED <<runEnd, leftOut>>
Abort(why) == runEnd' = why /\ UNCHANGED <<ctx, ran, leftOut, rewritten>>
(* on_error="skip": the step counts as done and contributes nothing.       *)
SkipOver(i) ==
  /\ ran' = ran \cup {i} /\ leftOut' = TRUE
  /\ UNCHANGED <<ctx, runEnd, rewritten>>

MissingOutput(s, t) == ~(MappedOutputs(s) \subseteq DOMAIN ToolTable[t].outs)

(* The tool raised, or refused its inputs: the step's policy decides.  A   *)
(* fallback gets the same inputs and its outputs go through the step's own *)
(* mapping.                                                                *)
OnError(i, why, fits) ==
  LET s == plan[i]
  IN  CASE s.onError = "fail" -> Abort(why)
        [] s.onError = "skip" -> SkipOver(i)
        [] OTHER ->
             LET bad == IF ~Known(s.onError) THEN "missing" ELSE InputFailure(s, s.onError, fits)
             IN  IF bad # "none" THEN Abort(bad)
                 ELSE IF MissingOutput(s, s.onError) THEN Abort("missing")
                 ELSE Merge(i, Produces(s, s.onError))

(* A tool that is not registered and a key or a nested value that is not   *)
(* there end the run whatever the policy, and so does a sub-flow that      *)
(* fails or lacks a mapped output.                                         *)
ExecuteStep(i, found, toolFails, fits) ==
  /\ RunReady(i)
  /\ LET s == plan[i]
         refused == Known(s.tool) /\ Resolvable(s) /\ InputFailure(s, s.tool, fits) # "none"
         lost == HasPointer(s) /\ ~found
     IN  IF s.tool = Composed
         THEN IF toolFails \/ lost \/ ~Resolvable(s) \/ ~(MappedOutputs(s) \subseteq DOMAIN SubFlowOutput)
              THEN Abort("sub-flow") ELSE Merge(i, Renamed(s, SubFlowOutput))
         ELSE IF ~Known(s.tool) \/ ~Resolvable(s) THEN Abort("missing")
         ELSE IF lost THEN Abort("pointer")
         ELSE IF refused THEN OnError(i, InputFailure(s, s.tool, fits), fits)
         ELSE IF toolFails THEN OnError(i, "tool", fits)
         ELSE IF MissingOutput(s, s.tool) THEN Abort("missing")
         ELSE Merge(i, Produces(s, s.tool))
  /\ UNCHANGED <<lane, plan, verdict>>

(* A branch elsewhere was chosen.                                          *)
BranchSkips(i) ==
  /\ RunReady(i) /\ \E j \in Deps(plan[i]) : plan[j].branches # {}
  /\ SkipOver(i)
  /\ UNCHANGED <<lane, plan, verdict>>

FinishRun(fits) ==
  /\ verdict.done /\ runEnd = "none" /\ ran = DOMAIN plan
  /\ runEnd' = IF ~(DOMAIN OutputSchema \subseteq DOMAIN ctx) THEN "missing"
               ELSE IF \E k \in DOMAIN OutputSchema : ~Accepts(ctx[k], OutputSchema[k], fits)
               THEN "mistyped" ELSE "ok"
  /\ UNCHANGED <<lane, plan, verdict, ctx, ran, leftOut, rewritten>>

CompileNext ==
  \/ \E s \in StepChoices : AddStep(s)
  \/ \E given \in SUBSET DOMAIN InputSchema : CompileFlow(given)
  \/ \E i \in 1..Len(plan), found, toolFails, fits \in BOOLEAN :
        ExecuteStep(i, found, toolFails, fits)
  \/ \E i \in 1..Len(plan) : BranchSkips(i)
  \/ \E fits \in BOOLEAN : FinishRun(fits)

CompileSpec == CompileInit /\ [][CompileNext]_compileVars

------------------------------------------------------------------------------
(* The types of the flow are all the compiler reads of them: the flow's    *)
(* schemas and those of its tools, fallbacks and sub-flow are plain.       *)
PlainFields(f) == \A k \in DOMAIN f : Plain(f[k])
PlainTool(t) == /\ PlainFields(ToolTable[t].outs)
                /\ \A k \in DOMAIN ToolTable[t].ins : Plain(ToolTable[t].ins[k].type)
PlainlyTyped ==
  /\ PlainFields(InputSchema) /\ PlainFields(OutputSchema)
  /\ \A i \in DOMAIN plan :
       /\ plan[i].tool = Composed => PlainFields(SubFlowOutput)
       /\ \A t \in {plan[i].tool, plan[i].onError} : Known(t) => PlainTool(t)

(* What "compiles" is worth at run time.  If compile_flow finds no error,  *)
(* the caller gave every input field, no step was skipped and no fallback  *)
(* lacked an output of its primary, then no run, in any order the          *)
(* dependencies allow and through any fallback, ends for an absent key or  *)
(* field (a nested value that a pointer asks for may be absent).  And as   *)
(* long as the flow is plainly typed, no key of the context was written    *)
(* twice and no fallback changed a type, none ends because a mapped value  *)
(* has the wrong type.                                                     *)
CompiledFlowsResolve ==
  verdict.done /\ verdict.errors = {} /\ ~leftOut
    /\ "fallback_output_shape_divergence" \notin verdict.warnings =>
      /\ runEnd # "missing"
      /\ ~rewritten /\ "fallback_output_type_mismatch" \notin verdict.warnings /\ PlainlyTyped =>
           runEnd # "mistyped"
=============================================================================
