------------------------------ MODULE Proposer ------------------------------
(***************************************************************************)
(* The offline LLM proposers: a catalogue of tools is packed into prompts  *)
(* under a token budget, each prompt is sent through a provider adapter    *)
(* (ceilings, retries), a completion that does not validate is repaired a  *)
(* bounded number of times, and the merged proposals of all batches are    *)
(* written for review.  The provider may answer anything.                  *)
(***************************************************************************)
EXTENDS Integers, Sequences, FiniteSets, SequencesExt, SeqParts

CONSTANTS
  PTools,        \* the catalogue, as a sequence of tool names
  PCost,         \* tokens a tool adds to a prompt: [full |-> _, capped |-> _]
  TemplateCost,  \* tokens of the prompt without any tool
  Asks,          \* calls a caller may make: [kind, overflow, max, pick]
  Completions,   \* what a provider may answer: sequences of [name, uses, others, safe]
  MaxProposals, MaxRepairs, MaxRetries,
  MaxLlmCalls,   \* max_calls of the adapter
  MaxAsks

(* A catalogue without tools returns before anything is planned; the      *)
(* proposal about a new tool takes no budget.                              *)
ASSUME ProposerAssumption ==
  /\ PTools # <<>> /\ PTools \in Seq(DOMAIN PCost)
  /\ TemplateCost \in Nat
  /\ \A t \in DOMAIN PCost : PCost[t].full \in Nat /\ PCost[t].capped \in Nat
  /\ \A a \in Asks :
       /\ a.kind \in {"flows", "tools", "new"} /\ a.max \in Nat
       /\ a.overflow \in {"none", "error", "truncate", "batch", "select"}
       /\ a.kind = "new" => a.overflow = "none"
  /\ \A c \in Completions : c \in Seq(Range(c))
  /\ {MaxProposals, MaxRepairs, MaxRetries, MaxLlmCalls, MaxAsks} \subseteq Nat

(* A proposed flow uses the tool_name of each of its steps; the others are *)
(* its fallback tools, decision candidates and sub-flows.                  *)
Malformed == <<[name |-> "", uses |-> {}, others |-> {}, safe |-> FALSE]>>
NoAsk == [kind |-> "none", overflow |-> "none", max |-> 0, pick |-> {}]

VARIABLES
  ask,        \* the call in progress
  phase,      \* where it is: idle, send, parse, write
  batches,    \* BudgetPlan.batches, the tools each prompt shows
  at,         \* the batch in progress
  completion, \* the completion being parsed
  tries,      \* provider attempts of this invocation
  repairs,    \* repairs of this batch, and of all batches
  kept,       \* proposals so far, each with the batch it answered
  stats,      \* CatalogueStats: tools rendered, estimated tokens
  ending,     \* how the last call ended
  usage,      \* LLMUsage.calls
  sent,       \* provider attempts of the whole call
  asked,
  drafts      \* the target directory: flow names, index, provenance

proposerVars == <<ask, phase, batches, at, completion, tries, repairs, kept, stats, ending,
                  usage, sent, asked, drafts>>

ProposerInit ==
  /\ ask = NoAsk /\ phase = "idle"
  /\ batches = <<>> /\ at = 0 /\ completion = <<>>
  /\ tries = 0 /\ repairs = <<0, 0>>
  /\ kept = <<>> /\ stats = <<0, 0>> /\ ending = "none"
  /\ usage = 0 /\ sent = 0 /\ asked = 0
  /\ drafts = [flows |-> {}, provenance |-> {}, index |-> {}]

------------------------------------------------------------------------------
(* apply_budget.                                                           *)

Cost(t, cap) == IF cap THEN PCost[t].capped ELSE PCost[t].full
EstimateTokens(ts, cap) ==
  LET sum[n \in 0 .. Len(ts)] == IF n = 0 THEN TemplateCost ELSE sum[n - 1] + Cost(ts[n], cap)
  IN  sum[Len(ts)]

Picks(a, ts, t) == IF t \in a.pick THEN Append(ts, t) ELSE ts
Picked(a) ==
  LET picked[n \in 0 .. Len(PTools)] ==
        IF n = 0 THEN <<>> ELSE Picks(a, picked[n - 1], PTools[n])
  IN  picked[Len(PTools)]
Selected(a) == IF a.overflow = "select" THEN Picked(a) ELSE PTools

(* The longest prefix that fits, one tool at least.                        *)
TruncatedTo(a) ==
  CHOOSE n \in 1..Len(PTools) :
    /\ n = 1 \/ EstimateTokens(SubSeq(PTools, 1, n), TRUE) <= a.max
    /\ \A m \in (n + 1)..Len(PTools) : EstimateTokens(SubSeq(PTools, 1, m), TRUE) > a.max

(* A tool joins the current batch if it still fits there.                  *)
Packs(a, bs, t) ==
  IF bs # <<>> /\ EstimateTokens(Append(Last(bs), t), FALSE) <= a.max
  THEN Append(Front(bs), Append(Last(bs), t)) ELSE Append(bs, <<t>>)
Packed(a) ==
  LET packed[n \in 0 .. Len(PTools)] ==
        IF n = 0 THEN <<>> ELSE Packs(a, packed[n - 1], PTools[n])
  IN  packed[Len(PTools)]

PlannedBatches(a) ==
  CASE a.overflow = "truncate" -> <<SubSeq(PTools, 1, TruncatedTo(a))>>
    [] a.overflow = "batch" -> Packed(a)
    [] a.overflow \in {"none", "error"} -> <<PTools>>
    [] a.overflow = "select" -> IF Selected(a) = <<>> THEN <<>> ELSE <<Selected(a)>>
PlannedTokens(a) ==
  LET ests == {EstimateTokens(b, a.overflow = "truncate") : b \in ToSet(PlannedBatches(a))}
  IN  IF a.overflow = "select" THEN EstimateTokens(Selected(a), FALSE)
      ELSE CHOOSE e \in ests : \A f \in ests : f <= e
Overflows(a) == a.overflow # "none" /\ PlannedTokens(a) > a.max

(* The tools the prompts show, in order.                                   *)
ShownTools(bs) == Concat(bs)
Rendered(bs) == Len(ShownTools(bs))

Start(a) ==
  /\ phase = "idle" /\ asked < MaxAsks
  /\ asked' = asked + 1
  /\ ask' = a /\ kept' = <<>> /\ repairs' = <<0, 0>> /\ tries' = 0 /\ sent' = 0
  /\ completion' = <<>>
  /\ IF Overflows(a)
     THEN /\ ending' = "PromptBudgetExceededError" /\ phase' = "idle"
          /\ batches' = <<>> /\ at' = 0 /\ stats' = <<0, 0>>
     ELSE /\ ending' = "none"
          /\ phase' = IF PlannedBatches(a) = <<>> THEN "write" ELSE "send"
          /\ batches' = PlannedBatches(a) /\ at' = 1
          /\ stats' = <<Rendered(PlannedBatches(a)), PlannedTokens(a)>>
  /\ UNCHANGED <<usage, drafts>>

------------------------------------------------------------------------------
(* ProviderAdapter.__call__, one attempt at a time.                        *)

Raise(error) ==
  /\ phase' = "idle" /\ ending' = error /\ kept' = <<>>
  /\ UNCHANGED <<ask, batches, at, completion, tries, repairs, stats, asked, drafts>>

(* _check_ceilings is asked before the first attempt only.                 *)
CheckCeilings ==
  /\ phase = "send" /\ tries = 0 /\ usage >= MaxLlmCalls
  /\ Raise("LLMBudgetExceededError")
  /\ UNCHANGED <<usage, sent>>

MayInvoke == phase = "send" /\ (tries > 0 \/ usage < MaxLlmCalls)

InvokeTransient ==
  /\ MayInvoke
  /\ sent' = sent + 1
  /\ IF tries = MaxRetries
     THEN Raise("LLMProviderError")
     ELSE /\ tries' = tries + 1
          /\ UNCHANGED <<ask, phase, batches, at, completion, repairs, kept, stats, ending, asked,
                         drafts>>
  /\ UNCHANGED usage

InvokeFatal ==
  /\ MayInvoke
  /\ sent' = sent + 1
  /\ Raise("provider error")
  /\ UNCHANGED usage

(* _record: only an attempt that succeeded is counted.                     *)
InvokeOk(c) ==
  /\ MayInvoke
  /\ sent' = sent + 1 /\ usage' = usage + 1 /\ tries' = 0
  /\ completion' = c /\ phase' = "parse"
  /\ UNCHANGED <<ask, batches, at, repairs, kept, stats, ending, asked, drafts>>

------------------------------------------------------------------------------
(* run_with_repair: parse what came back, or ask again.                    *)

(* Variant: every tool of the catalogue is known.                          *)
AllNames == ToSet(PTools)
(* The names known to a completion: the tools its own prompt showed.       *)
BatchNames == IF ask.kind = "new" THEN ToSet(PTools) ELSE ToSet(batches[at])

(* A description proposal is about one tool.  Of a flow only the tool_name *)
(* of its steps is looked up (compiler_llm.py:416), none of the others.    *)
Uses(p) == IF ask.kind = "flows" THEN p.uses ELSE {p.name}
Parses(c) == c # Malformed /\ \A i \in DOMAIN c : Uses(c[i]) \subseteq BatchNames

(* The first proposal of a name stays; optimize_new_tool_description keeps *)
(* all of them.                                                            *)
Merges(ps, p) ==
  IF ask.kind # "new" /\ \E i \in DOMAIN ps : ps[i].name = p.name THEN ps
  ELSE Append(ps, [name |-> p.name, uses |-> Uses(p), others |-> p.others, safe |-> p.safe,
                   batch |-> at])
Merged(c) ==
  LET merged[n \in 0 .. Len(c)] == IF n = 0 THEN kept ELSE Merges(merged[n - 1], c[n])
  IN  merged[Len(c)]

ParseOk ==
  /\ phase = "parse" /\ Parses(completion)
  /\ kept' = Merged(completion)
  /\ repairs' = <<0, repairs[2]>>
  /\ IF at < Len(batches) THEN phase' = "send" /\ at' = at + 1
     ELSE phase' = "write" /\ UNCHANGED at
  /\ UNCHANGED <<ask, batches, completion, tries, stats, ending, usage, sent, asked, drafts>>

Repair ==
  /\ phase = "parse" /\ ~Parses(completion)
  /\ IF repairs[1] >= MaxRepairs
     THEN Raise("OfflineLLMError")
     ELSE /\ repairs' = <<repairs[1] + 1, repairs[2] + 1>> /\ phase' = "send"
          /\ UNCHANGED <<ask, batches, at, completion, tries, kept, stats, ending, asked, drafts>>
  /\ UNCHANGED <<usage, sent>>

------------------------------------------------------------------------------
(* The call returns; the caller writes the flows it proposed.              *)

Returned == IF ask.kind = "flows" /\ Len(kept) > MaxProposals
            THEN SubSeq(kept, 1, MaxProposals) ELSE kept

(* write_proposals: flow and provenance of each proposal in turn, then the *)
(* index of this call's proposals; a name that is no safe file name ends   *)
(* it before the index is written.                                         *)
WriteProposals ==
  LET written == {i \in DOMAIN Returned : \A j \in 1 .. i : Returned[j].safe}
      names == {Returned[i].name : i \in written}
  IN  drafts' = [flows |-> drafts.flows \cup names, provenance |-> drafts.provenance \cup names,
                 index |-> IF written = DOMAIN Returned THEN names ELSE drafts.index]

Return ==
  /\ phase = "write"
  /\ phase' = "idle" /\ ending' = "returned" /\ kept' = Returned
  /\ IF ask.kind = "flows" THEN WriteProposals ELSE UNCHANGED drafts
  /\ UNCHANGED <<ask, batches, at, completion, tries, repairs, stats, usage, sent, asked>>

ProposerNext ==
  \/ \E a \in Asks : Start(a)
  \/ CheckCeilings \/ InvokeTransient \/ InvokeFatal
  \/ \E c \in Completions : InvokeOk(c)
  \/ ParseOk \/ Repair \/ Return

ProposerSpec == ProposerInit /\ [][ProposerNext]_proposerVars

------------------------------------------------------------------------------
(* Whatever the provider answers, however often it must be asked again: a  *)
(* batched or selected prompt never exceeds the budget and together the    *)
(* prompts show the selected tools once and in order; the tool_name of     *)
(* every step of a proposal that is kept is a tool its own prompt showed   *)
(* (what its fallbacks, decision candidates and sub-flows name may be      *)
(* anything), and no two kept from different prompts share a name; and the *)
(* adapter is invoked no more than the repairs and retries of the prompts  *)
(* allow, counting no more answers than its ceiling.                       *)
ProposalsAreGrounded ==
  /\ ask.overflow # "none" =>
       \A i \in DOMAIN batches : EstimateTokens(batches[i], ask.overflow = "truncate") <= ask.max
  /\ IsPrefix(ShownTools(batches), Selected(ask))
  /\ ask.overflow # "truncate" /\ batches # <<>> => ShownTools(batches) = Selected(ask)
  /\ \A i \in DOMAIN kept : ask.kind # "new" => kept[i].uses \subseteq ToSet(batches[kept[i].batch])
  /\ \A i, j \in DOMAIN kept : kept[i].batch # kept[j].batch => kept[i].name # kept[j].name
  /\ sent <= at * (MaxRepairs + 1) * (MaxRetries + 1)
  /\ usage <= MaxLlmCalls
  /\ drafts.index \subseteq drafts.flows /\ drafts.flows = drafts.provenance
=============================================================================
