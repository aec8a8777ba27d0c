----------------------------- MODULE MCPlatform ------------------------------
(* The components around the executor, instantiated for TLC in one run:    *)
(* sub-flow composition, MCP client and server, background service,        *)
(* offline proposers, stores, agent traces, compiler and analyzer, editor  *)
(* commands, fuzz and attest, test fixtures.  They share no state, so that *)
(* a behaviour of one of them at a time (focus) shows all there is to see. *)
EXTENDS MCComposition, McpServer, Service, Proposer, Stores, AgentTraces, Analyzer, Editors, Evidence

VARIABLE focus    \* the component under study

-----------------------------------------------------------------------------
(* Composition: the root flow calls m and decides; m writes and calls k,   *)
(* or exceeds its decision budget; k decides, closes a cycle or calls a    *)
(* flow that does not exist.                                               *)
NestBodies ==
  [r |-> {<<SubFlow("m"), Decision>>},
   m |-> {<<Write, SubFlow("k")>>, <<Decision, Decision>>},
   k |-> {<<Decision>>, <<SubFlow("r")>>, <<SubFlow("gone")>>}]

(* MCP client: two remote tools whose names clean to the same local name,  *)
(* and one of its own.                                                     *)
RemoteNames == <<"valid", "valid", "invalid">>
CleanNames  == <<"t1", "t2", "t1">>
Hint(readOnly, destructive) ==
  [given |-> TRUE, readOnly |-> readOnly, destructive |-> destructive, idem |-> "unset"]
Hints    == {NoHints, Hint(TRUE, FALSE), Hint(TRUE, TRUE)}
Policies == {[names |-> "sanitize", trust |-> "cap", drift |-> "error"],
             [names |-> "error", trust |-> "trust", drift |-> "accept"]}

(* MCP server: a pinned active flow and a reviewed one over the remote     *)
(* tools; a trusted profile, a strict one with every hook, and two         *)
(* configurations that the server refuses or that expose nothing.          *)
App(name, lifecycle, tools, snap) ==
  [name |-> name, rank |-> 1, lifecycle |-> lifecycle, owner |-> "me",
   declared |-> UnknownSafety, tools |-> tools, snap |-> snap]
AppTable == [a1 |-> App("a", "active", {"t1"}, [t \in {"t1"} |-> "s1"]),
             b1 |-> App("b", "reviewed", {"t1", "t2"}, <<>>)]
ServerConfig(profile, names, force, hooks) ==
  [profile |-> profile, names |-> names, force |-> force, detail |-> Unset,
   lifecycles |-> Unset, sides |-> Unset, approval |-> Unset, owners |-> Unset,
   authn |-> hooks, authz |-> hooks, limiter |-> hooks]
Configs == {ServerConfig(<<"trusted">>, Unset, Unset, FALSE),
            ServerConfig(<<"strict">>, <<<<"a">>>>, <<TRUE>>, TRUE),
            ServerConfig(Unset, <<<<"a", "a">>>>, Unset, FALSE)}

(* Proposer: three tools of different size, every overflow strategy with   *)
(* budgets around the sizes, completions that are malformed, empty, sound, *)
(* about a tool of another batch, with fallbacks nobody was shown, or that *)
(* propose one name twice.                                                 *)
PromptTools == <<"t1", "t2", "t3">>
PromptCost  == [t1 |-> [full |-> 2, capped |-> 1], t2 |-> [full |-> 2, capped |-> 2],
                t3 |-> [full |-> 3, capped |-> 1]]
AskOf(kind, overflow, max, pick) == [kind |-> kind, overflow |-> overflow, max |-> max, pick |-> pick]
AskTable == {AskOf("flows", "none", 0, {}), AskOf("flows", "batch", 5, {}),
             AskOf("flows", "batch", 3, {}), AskOf("tools", "batch", 6, {}),
             AskOf("tools", "truncate", 4, {}), AskOf("tools", "truncate", 1, {}),
             AskOf("flows", "select", 4, {"t1", "t2"}), AskOf("flows", "select", 9, {}),
             AskOf("flows", "error", 5, {}), AskOf("new", "none", 0, {})}
Proposal(name, uses, safe) == [name |-> name, uses |-> uses, others |-> {}, safe |-> safe]
CompletionTable ==
  {Malformed, <<>>,
   <<[Proposal("f", {"t1", "t2"}, TRUE) EXCEPT !.others = {"t3", "ghost"}],
     Proposal("g", {"t2"}, FALSE)>>,
   <<Proposal("f", {"t3"}, TRUE)>>, <<Proposal("t1", {"t1"}, TRUE), Proposal("t1", {"t1"}, TRUE)>>}

(* Stores: two keys whose file names clean to the same text.               *)
KeyTable == {<<"a/b", "h">>, <<"a_b", "h">>}
Cleaned  == [t \in {"a/b", "a_b"} |-> "a_b"]

(* Agent traces: calls that share an argument, a failing one, a call of    *)
(* another session, a model call and a line that is not JSON.              *)
Line(session, kind, tool, args, outs, failed) ==
  [session |-> session, kind |-> kind, tool |-> tool, args |-> args, outs |-> outs, failed |-> failed]
LineTable == {BadLine, Line("s", "tool_call", "get", [key |-> "x"], {"id"}, FALSE),
              Line("s", "tool_call", "get", [key |-> "y", id |-> "1"], {"id"}, FALSE),
              Line("s", "tool_call", "read", [id |-> "1", key |-> "x"], {}, FALSE),
              Line("s", "tool_call", "get", <<>>, {}, TRUE),
              Line("s2", "tool_call", "delete", [id |-> "1"], {}, FALSE),
              Line("s", "model_call", "get", <<>>, {}, FALSE)}
Verbs == [get |-> "read", read |-> "read", delete |-> "effect"]

(* Compiler and analyzer: tools whose fields agree, widen or clash, an     *)
(* optional and a constrained field, steps with keys, pointers and         *)
(* literals, dependencies, branches and fallbacks, and a sub-flow that     *)
(* does not return all it declares.                                        *)
FieldTypes ==
  [t \in {"int", "float", "str", "opt_int", "pos_int", "str|int"} |->
     CASE t = "opt_int" -> [written |-> "opt_int", kept |-> "int"]
       [] t = "pos_int" -> [written |-> "int", kept |-> "int"]
       [] t = "str|int" -> [written |-> "str|int", kept |-> "any"]
       [] OTHER         -> [written |-> t, kept |-> t]]
Field(type, required) == [type |-> type, required |-> required]
ToolSchemas ==
  [fetch |-> [ins |-> [q |-> Field("int", TRUE)], outs |-> [x |-> "int", y |-> "str"], safe |-> FALSE],
   calc  |-> [ins |-> [x |-> Field("float", TRUE)], outs |-> [z |-> "float"], safe |-> TRUE],
   alt   |-> [ins |-> [q |-> Field("int", FALSE), x |-> Field("int", FALSE)],
              outs |-> [x |-> "float"], safe |-> TRUE],
   note  |-> [ins |-> [q |-> Field("pos_int", FALSE)],
              outs |-> [n |-> "str|int", m |-> "opt_int"], safe |-> TRUE]]
Key(k)     == [kind |-> "key", key |-> k]
Pointer(k) == [kind |-> "pointer", key |-> k]
PlanStep(tool, deps, ins, outs, onError, branches) ==
  [tool |-> tool, deps |-> deps, ins |-> ins, outs |-> outs, onError |-> onError,
   retry |-> FALSE, branches |-> branches]
Retried(s) == [s EXCEPT !.retry = TRUE]
StepTable ==
  {PlanStep("note", <<>>, [q |-> Key("q")], <<>>, "fail", {}),
   Retried(PlanStep("fetch", <<>>, <<>>, <<>>, "alt", {})),
   PlanStep("fetch", <<>>, [q |-> Key("q")], <<[x |-> "x"]>>, "alt", {2}),
   PlanStep("fetch", <<>>, <<>>, <<>>, "skip", {}),
   PlanStep("fetch", <<>>, <<>>, <<>>, "fail", {}),
   PlanStep("calc", <<>>, [x |-> Key("x")], <<>>, "fail", {}),
   PlanStep("calc", <<1>>, [x |-> Key("x")], <<>>, "fail", {}),
   PlanStep("calc", <<2>>, <<>>, <<[z |-> "z"]>>, "fail", {}),
   PlanStep("calc", <<3>>, [x |-> Pointer("x")], <<>>, "alt", {}),
   PlanStep("calc", <<1, 2>>, [x |-> Pointer("y")], <<[w |-> "z"]>>, "fail", {}),
   PlanStep("alt", <<2, 1>>, [q |-> Key("x")], <<[z |-> "x"]>>, "fail", {}),
   PlanStep("alt", <<4>>, [x |-> Key("z"), bad |-> [kind |-> "literal", key |-> "k"]], <<>>, "ghost", {3}),
   PlanStep("alt", <<>>, [q |-> Key("d"), x |-> Key("m")], <<>>, "fail", {}),
   PlanStep("none", <<>>, [q |-> Pointer("q")], <<[x |-> "x"]>>, "fail", {}),
   PlanStep("none", <<1>>, <<>>, <<>>, "fail", {3})}
FlowInput  == [q |-> "int"]
FlowOutput == [z |-> "float"]
SubOutput  == [x |-> "str"]
Normal     == [q |-> "q", x |-> "x", y |-> "x", z |-> "z", n |-> "n", m |-> "m"]
SynonymsOf == [q |-> {"x"}]

(* Editors: workspaces without a config, with servers and comments, with   *)
(* hooks of the user, and with a file that is not an object; flow files    *)
(* that do not parse and one that parses but cannot be registered.         *)
Texts ==
  {NoFile, [NoFile EXCEPT !.json = "object", !.servers = {<<"github", "plain">>}, !.notes = TRUE],
   [NoFile EXCEPT !.json = "object", !.odd = TRUE, !.post = <<{"lint"}, {"log"}>>],
   [NoFile EXCEPT !.json = "other"]}
Servers == {<<"search", "mentions">>}
FlowFile(name, ver, life, loads) ==
  [name |-> name, ver |-> ver, life |-> life, loads |-> loads, registers |-> TRUE]
Dir(a, b) == [p \in {"a", "b"} |-> IF p = "a" THEN a ELSE b]
Dirs == {Dir(FlowFile("ship", 1, "reviewed", TRUE), FlowFile("read", 1, "draft", TRUE)),
         Dir(FlowFile("ship", 1, "active", TRUE), FlowFile("ship", 2, "draft", TRUE)),
         Dir(FlowFile("read", 1, "active", TRUE), FlowFile("bad", 1, "active", FALSE)),
         Dir(FlowFile("ship", 1, "active", TRUE),
             [FlowFile("loop", 1, "draft", TRUE) EXCEPT !.registers = FALSE])}
Payload(tool, state, err, result, arg, mcp) ==
  [json |-> "object", tool |-> tool, attr |-> "bash", status |-> state, err |-> err,
   result |-> result, arg |-> arg, mcp |-> mcp, stamp |-> "iso"]
SecretCall == Payload("bash", "", FALSE, "is_error", "secret", FALSE)
Batch(items) == [json |-> TRUE, items |-> items]
BatchTable ==
  {Batch(<<SecretCall, [Payload("", "ok", TRUE, "ok", "plain", TRUE) EXCEPT !.stamp = "odd"]>>),
   Batch(<<SecretCall, [Payload("", "", FALSE, "none", "plain", FALSE) EXCEPT !.json = "other"]>>),
   Batch(<<[Payload("grep", "", FALSE, "error", "plain", TRUE) EXCEPT !.stamp = "odd"]>>),
   [json |-> FALSE, items |-> <<>>]}
SetupOf(observe, flows, write, scope, prefix) ==
  [NoOutcome EXCEPT !.observe = observe, !.flows = flows, !.write = write, !.reviewed = FALSE,
                    !.scope = scope, !.prefix = prefix, !.redact = TRUE, !.allow = FALSE]
CallTable ==
  {SetupOf(TRUE, FALSE, TRUE, "local", ""),
   [SetupOf(TRUE, FALSE, TRUE, "project", "") EXCEPT !.redact = FALSE],
   SetupOf(TRUE, TRUE, TRUE, "local", ""), SetupOf(FALSE, TRUE, TRUE, "local", "cw"),
   [SetupOf(FALSE, TRUE, TRUE, "local", "") EXCEPT !.reviewed = TRUE, !.allow = TRUE],
   SetupOf(TRUE, TRUE, FALSE, "local", "cw"),
   [SetupOf(FALSE, TRUE, TRUE, "local", "cw") EXCEPT !.away = TRUE]}

(* Fuzz: minimising with and without faults, and not at all.               *)
RichInputs == {[k \in {1, 2} |-> "rich"]}
OptionTable == {[minimize |-> TRUE, faults |-> FALSE], [minimize |-> TRUE, faults |-> TRUE],
                [minimize |-> FALSE, faults |-> FALSE]}

(* Fixtures: a tool with a plain input, a streaming one whose input holds  *)
(* a secret, and a flow wrapped as a tool that calls the first.            *)
FxTools    == [fetch |-> "sync", tokens |-> "stream", wrap |-> "sync"]
PlainOf(t) == <<t, <<"x", "plain">>>>
FxWraps    == [t \in DOMAIN FxTools |-> IF t = "wrap" THEN {PlainOf("fetch")} ELSE {}]
FxCalls    == {PlainOf("fetch"), <<"tokens", <<"x", "secret">>>>, PlainOf("wrap")}

-----------------------------------------------------------------------------
(* A component that is not under study starts in one fixed state.          *)
Fixed(part, var, set) == focus # part => var = CHOOSE x \in set : TRUE

Init ==
  /\ focus \in {"composition", "mcp", "service", "proposer", "stores", "traces", "analyzer",
               "editors", "evidence", "fixtures"}
  /\ CompositionInit /\ ServerInit /\ ServiceInit /\ ProposerInit /\ StoresInit
  /\ AgentTracesInit /\ AnalyzerInit /\ EditorsInit /\ EvidenceInit /\ FixturesInit
  /\ \A f \in NestFlows : Fixed("composition", nestReg[f], Bodies[f])
  /\ Fixed("mcp", policy, ClientPolicies)
  /\ Fixed("analyzer", lane, {"Flow"})
  /\ Fixed("editors", editor, {"claude"}) /\ Fixed("editors", flowDir, FlowDirs)
  /\ Fixed("fixtures", test, {[redact |-> TRUE, lane |-> "sync"]})
  /\ focus # "editors" => \A f \in WsFiles : wsFiles[f] = NoFile

CompositionSteps ==
  /\ focus = "composition" /\ CompositionNext
  /\ UNCHANGED <<focus, serverVars, serviceVars, proposerVars, storeVars,
                 traceVars, analyzerVars, editorVars, evidenceVars, fixtureVars>>

ServerSteps ==
  /\ focus = "mcp" /\ ServerNext
  /\ UNCHANGED <<focus, compositionVars, serviceVars, proposerVars, storeVars,
                 traceVars, analyzerVars, editorVars, evidenceVars, fixtureVars>>

ServiceSteps ==
  /\ focus = "service" /\ ServiceNext
  /\ UNCHANGED <<focus, compositionVars, serverVars, proposerVars, storeVars,
                 traceVars, analyzerVars, editorVars, evidenceVars, fixtureVars>>

ProposerSteps ==
  /\ focus = "proposer" /\ ProposerNext
  /\ UNCHANGED <<focus, compositionVars, serverVars, serviceVars, storeVars,
                 traceVars, analyzerVars, editorVars, evidenceVars, fixtureVars>>

StoresSteps ==
  /\ focus = "stores" /\ StoresNext
  /\ UNCHANGED <<focus, compositionVars, serverVars, serviceVars, proposerVars,
                 traceVars, analyzerVars, editorVars, evidenceVars, fixtureVars>>

AgentTracesSteps ==
  /\ focus = "traces" /\ AgentTracesNext
  /\ UNCHANGED <<focus, compositionVars, serverVars, serviceVars, proposerVars,
                 storeVars, analyzerVars, editorVars, evidenceVars, fixtureVars>>

AnalyzerSteps ==
  /\ focus = "analyzer" /\ AnalyzerNext
  /\ UNCHANGED <<focus, compositionVars, serverVars, serviceVars, proposerVars,
                 storeVars, traceVars, editorVars, evidenceVars, fixtureVars>>

EditorsSteps ==
  /\ focus = "editors" /\ EditorsNext
  /\ UNCHANGED <<focus, compositionVars, serverVars, serviceVars, proposerVars,
                 storeVars, traceVars, analyzerVars, evidenceVars, fixtureVars>>

EvidenceSteps ==
  /\ focus = "evidence" /\ EvidenceNext
  /\ UNCHANGED <<focus, compositionVars, serverVars, serviceVars, proposerVars,
                 storeVars, traceVars, analyzerVars, editorVars, fixtureVars>>

FixturesSteps ==
  /\ focus = "fixtures" /\ FixturesNext
  /\ UNCHANGED <<focus, compositionVars, serverVars, serviceVars, proposerVars,
                 storeVars, traceVars, analyzerVars, editorVars, evidenceVars>>

Next ==
  \/ CompositionSteps \/ ServerSteps \/ ServiceSteps \/ ProposerSteps
  \/ StoresSteps \/ AgentTracesSteps \/ AnalyzerSteps \/ EditorsSteps
  \/ EvidenceSteps \/ FixturesSteps

Spec == Init /\ [][Next]_<<focus, compositionVars, serverVars, serviceVars, proposerVars,
                          storeVars, traceVars, analyzerVars, editorVars, evidenceVars, fixtureVars>>
=============================================================================
