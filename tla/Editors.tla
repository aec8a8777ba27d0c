------------------------------- MODULE Editors -------------------------------
(***************************************************************************)
(* A workspace wired to a coding agent: OpenCode, Claude Code or VS Code.  *)
(* setup merges an MCP server entry and an observe hook (or plugin) into   *)
(* files the user also edits, revert takes them out again, capture appends *)
(* what the hook reports to a trace sink, the flow commands move flow      *)
(* files through their review lifecycle, and the doctor and the flow       *)
(* server read the result.  One command runs at a time.                    *)
(***************************************************************************)
EXTENDS Integers, Sequences, FiniteSets, SequencesExt, SeqParts

CONSTANTS
  UserTexts,     \* what the user may have in a config file: records like NoFile
  UserServers,   \* <<name, spec>>: server entries the user may add
  FlowDirs,      \* initial flow directories: file -> [name, ver, life, loads, registers]
  ReservedNames, \* RESERVED_OPENCODE_TOOL_NAMES
  Calls,         \* argument lists of setup and revert: records like NoOutcome
  Batches,       \* capture inputs: [json |-> BOOLEAN, items |-> Seq(payload)]
  MaxSink, MaxCommands

(* A file: its JSON value, the server map, PostToolUse entries (each a set *)
(* of commands) and comments.  odd: the servers key holds no map.  A file  *)
(* with a syntax error still has its text.                                 *)
NoFile == [json |-> "absent", servers |-> {}, odd |-> FALSE, post |-> <<>>, notes |-> FALSE]

Ours == "chainweaver"
CaptureCommands == {"capture", "capture --no-redact"}
CaptureCommand(redact) == IF redact THEN "capture" ELSE "capture --no-redact"
HookCommandNames == CaptureCommands \cup {"lint"} \cup UNION {UNION ToSet(t.post) : t \in UserTexts}

(* What is no object holds neither servers nor hooks.                      *)
IsFile(c) ==
  /\ DOMAIN c = DOMAIN NoFile /\ c.json \in {"absent", "object", "broken", "other"}
  /\ c.post \in Seq(SUBSET HookCommandNames)
  /\ c.json \in {"absent", "other"} => c.servers = {} /\ c.post = <<>>

NoOutcome == [cmd |-> "none", observe |-> FALSE, flows |-> FALSE, write |-> FALSE,
              reviewed |-> FALSE, scope |-> "local", prefix |-> "", redact |-> TRUE,
              allow |-> FALSE, away |-> FALSE, exit |-> 0, told |-> {}]

ASSUME EditorsAssumption ==
  /\ \A t \in UserTexts : IsFile(t)
  /\ \A a \in Calls : DOMAIN a = DOMAIN NoOutcome
  /\ \A b \in Batches : b.items \in Seq(ToSet(b.items))
  /\ \A b \in Batches : \A p \in ToSet(b.items) :
       p.json \in {"object", "other"} /\ "tool" \in DOMAIN p

VARIABLES
  editor,    \* the agent this workspace is used with
  wsFiles,   \* its config files
  baks,      \* <file>.bak
  mine,      \* ghost: the user's part of each file, as the user left it
  flowDir,   \* the flows directory
  sink,      \* lines of the trace sink
  outcome,   \* the last command: [cmd, args, exit, told]
  commands   \* commands and edits so far

editorVars == <<editor, wsFiles, baks, mine, flowDir, sink, outcome, commands>>

OpencodeConfigNames == <<"opencode.json", "opencode.jsonc", ".opencode.json">>
WsFiles == ToSet(OpencodeConfigNames) \cup
           {"plugin", ".mcp.json", "settings.json", "settings.local.json", ".vscode/mcp.json"}
SettingsFiles == <<"settings.json", "settings.local.json">>
SettingsPath(scope) == IF scope = "project" THEN "settings.json" ELSE "settings.local.json"

(* The first OpenCode config that exists, else the default name.           *)
OpencodeConfigPath(fs) ==
  LET there == {i \in DOMAIN OpencodeConfigNames : fs[OpencodeConfigNames[i]].json # "absent"}
  IN  OpencodeConfigNames[IF there = {} THEN 1
                          ELSE CHOOSE i \in there : \A j \in there : i <= j]
McpPath(fs) ==
  CASE editor = "opencode" -> OpencodeConfigPath(fs)
    [] editor = "claude"   -> ".mcp.json"
    [] OTHER               -> ".vscode/mcp.json"

------------------------------------------------------------------------------
(* Merging into a config.  A value that is not an object, or a servers     *)
(* value that is not a map, is replaced; comments are not written back.    *)

(* Variant: a syntax error is taken for an absent file.                    *)
LoadsAnyway(c) == FALSE
LoadFails(c) == c.json = "broken"
Parsed(c) == IF c.json = "object" THEN c ELSE NoFile

AddFlowServer(c, spec) ==
  [Parsed(c) EXCEPT !.json = "object", !.odd = FALSE, !.notes = FALSE,
            !.servers = {s \in @ : s[1] # Ours} \cup {<<Ours, spec>>}]

FlowMcpEntry(prefix) == prefix   \* the entry differs in its --prefix only
HasFlowServer(c) == \E s \in c.servers : s[1] = Ours
RemoveFlowServer(c) ==
  [c EXCEPT !.json = "object", !.notes = FALSE, !.servers = {s \in @ : s[1] # Ours}]

IsChainweaverHook(entry) == entry \cap CaptureCommands # {}
UserHooks(post) == Only(post, {e \in ToSet(post) : ~IsChainweaverHook(e)})
AddObserveHook(c, command) ==
  [Parsed(c) EXCEPT !.json = "object", !.notes = FALSE, !.post = Append(UserHooks(@), {command})]
RemoveObserveHook(c) ==
  [c EXCEPT !.json = "object", !.notes = FALSE, !.post = UserHooks(@)]

RenderObservePlugin(redact) ==
  [NoFile EXCEPT !.json = "object", !.post = <<{CaptureCommand(redact)}>>]

(* Writing a file first copies what it holds to its backup.                *)
WriteFile(w, f, c) ==
  [files |-> [w.files EXCEPT ![f] = c],
   baks  |-> IF w.files[f].json = "absent" THEN w.baks ELSE [w.baks EXCEPT ![f] = w.files[f]]]

------------------------------------------------------------------------------
(* The flows directory: which flows setup reports, which ones serve shows. *)
(* A file may parse and yet hold what no registry accepts: a version that  *)
(* is none, or a graph with a cycle.                                       *)

Loaded == {p \in DOMAIN flowDir : flowDir[p].loads}
ActiveOrReviewed == {"active", "reviewed"}
ActiveFlowNames(lives) == {flowDir[p].name : p \in {q \in Loaded : flowDir[q].life \in lives}}

(* A macro tool's name is the flow's, behind the prefix if there is one.   *)
SafeMacroToolName(name, prefix) == IF prefix = "" THEN <<name>> ELSE <<prefix, name>>
ToolNameCollisions(names, prefix) ==
  {n \in names : SafeMacroToolName(n, prefix) \in {<<r>> : r \in ReservedNames}}

(* A relative directory is read where setup runs by OpenCode's, in the     *)
(* workspace by the others.  away: the directory is relative and setup     *)
(* runs outside the workspace, where there are no flows.                   *)
FlowsFound(a, lives) == IF editor = "opencode" /\ a.away THEN {} ELSE ActiveFlowNames(lives)

(* serve registers every file that parses, exposable or not, and one that  *)
(* the registry does not accept ends it.  It names the flow of every       *)
(* exposable file; a name met twice is refused.                            *)
RegistrationFails == \E p \in Loaded : ~flowDir[p].registers
ServeRefuses ==
  \/ RegistrationFails
  \/ \E p, q \in Loaded : /\ p # q /\ flowDir[p].name = flowDir[q].name
                          /\ {flowDir[p].life, flowDir[q].life} \subseteq ActiveOrReviewed
ServedNames == IF ServeRefuses THEN {} ELSE ActiveFlowNames(ActiveOrReviewed)
ServedTools(prefix) == {SafeMacroToolName(n, prefix) : n \in ServedNames}
------------------------------------------------------------------------------
(* setup.  Each part returns the workspace after it and whether it raised. *)

Done(w) == [raised |-> FALSE, w |-> w]
Raised(w) == [raised |-> TRUE, w |-> w]

OpencodeSetupObserve(w, a) ==
  Done(IF a.write THEN WriteFile(w, "plugin", RenderObservePlugin(a.redact)) ELSE w)
ClaudeSetupObserve(w, a) ==
  LET f == SettingsPath(a.scope)
      c == w.files[f]
  IN  CASE LoadFails(c) -> Raised(w)
        [] ~LoadFails(c) /\ a.write ->
             Done(WriteFile(w, f, AddObserveHook(c, CaptureCommand(a.redact))))
        [] OTHER -> Done(w)
VscodeSetupObserve(w) == Done(w)   \* prints a snippet

(* Collisions are looked for before the config is read.                    *)
MergeEntry(w, a, lives) ==
  LET f == McpPath(w.files)
      c == w.files[f]
  IN  IF \/ ToolNameCollisions(FlowsFound(a, lives), a.prefix) # {} /\ ~a.allow
         \/ LoadFails(c)
      THEN Raised(w)
      ELSE Done(IF a.write THEN WriteFile(w, f, AddFlowServer(c, FlowMcpEntry(a.prefix))) ELSE w)
OpencodeSetupFlows(w, a) == MergeEntry(w, a, ActiveOrReviewed)
ClaudeSetupFlows(w, a) ==
  MergeEntry(w, a, IF a.reviewed THEN ActiveOrReviewed ELSE {"active"})
VscodeSetupFlows(w, a) ==
  MergeEntry(w, a, IF a.reviewed THEN ActiveOrReviewed ELSE {"active"})

Observed(w, a) ==
  IF ~a.observe THEN Done(w)
  ELSE CASE editor = "opencode" -> OpencodeSetupObserve(w, a)
         [] editor = "claude"   -> ClaudeSetupObserve(w, a)
         [] OTHER               -> VscodeSetupObserve(w)
Exposed(w, a) ==
  IF ~a.flows THEN Done(w)
  ELSE CASE editor = "opencode" -> OpencodeSetupFlows(w, a)
         [] editor = "claude"   -> ClaudeSetupFlows(w, a)
         [] OTHER               -> VscodeSetupFlows(w, a)

(* The names setup prints: the flows it calls exposed, by tool name.       *)
Told(a) ==
  {SafeMacroToolName(n, a.prefix) : n \in FlowsFound(a,
     IF editor = "opencode" \/ a.reviewed THEN ActiveOrReviewed ELSE {"active"})}

Finished(a, r, told) ==
  /\ wsFiles' = r.w.files
  /\ baks' = r.w.baks
  /\ outcome' = [a EXCEPT !.exit = IF r.raised THEN 1 ELSE 0,
                          !.told = IF r.raised THEN {} ELSE told]

(* The observe part is applied even when the flows part then refuses.      *)
Setup(a) ==
  /\ a.observe \/ a.flows
  /\ LET w  == [files |-> wsFiles, baks |-> baks]
         r1 == Observed(w, a)
         r2 == IF r1.raised THEN r1 ELSE Exposed(r1.w, a)
     IN  Finished([a EXCEPT !.cmd = "setup"], r2, Told(a))
  /\ UNCHANGED <<mine, flowDir, sink>>

------------------------------------------------------------------------------
(* revert.                                                                 *)

(* The plugin file is deleted without a backup.                            *)
OpencodeRevertObserve(w, a) ==
  Done(IF a.write THEN [w EXCEPT !.files["plugin"] = NoFile] ELSE w)
ClaudeRevertObserve(w, a) ==
  LET f == SettingsPath(a.scope)
      c == w.files[f]
  IN  CASE LoadFails(c) -> Raised(w)
        [] ~LoadFails(c) /\ a.write /\ UserHooks(c.post) # c.post ->
             Done(WriteFile(w, f, RemoveObserveHook(c)))
        [] OTHER -> Done(w)
RevertFlows(w, a) ==
  LET f == McpPath(w.files)
      c == w.files[f]
  IN  CASE LoadFails(c) -> Raised(w)
        [] ~LoadFails(c) /\ a.write /\ HasFlowServer(c) ->
             Done(WriteFile(w, f, RemoveFlowServer(c)))
        [] OTHER -> Done(w)

Revert(a) ==
  /\ a.observe \/ a.flows
  /\ LET w  == [files |-> wsFiles, baks |-> baks]
         r1 == CASE a.observe /\ editor = "opencode" -> OpencodeRevertObserve(w, a)
                 [] a.observe /\ editor = "claude"   -> ClaudeRevertObserve(w, a)
                 [] OTHER                            -> Done(w)
         r2 == IF r1.raised \/ ~a.flows THEN r1 ELSE RevertFlows(r1.w, a)
     IN  Finished([a EXCEPT !.cmd = "revert"], r2, {})
  /\ UNCHANGED <<mine, flowDir, sink>>

------------------------------------------------------------------------------
(* capture: the hook's payload becomes trace events.  A payload names its  *)
(* tool or not, or is no object at all; result, status and err are what it *)
(* says of the outcome; stamp is its time.                                 *)

ExplicitOr(p, other) == IF p.status # "" THEN p.status ELSE other
OpencodeStatus(p) ==
  ExplicitOr(p, CASE p.err \/ p.result = "error" -> "error"
                  [] ~p.err /\ p.result # "none" /\ p.result # "error" -> "ok"
                  [] OTHER -> "")
ClaudeStatus(p) ==
  ExplicitOr(p, CASE p.err \/ p.result \in {"error", "is_error"} -> "error"
                  [] ~p.err /\ p.result = "ok" -> "ok"
                  [] OTHER -> "")
VscodeStatus(p) ==
  ExplicitOr(p, CASE p.err \/ p.result = "error" -> "error"
                  [] ~p.err /\ p.result # "none" /\ p.result # "error" -> "ok"
                  [] OTHER -> "")

TraceEvent(p, redact, status, stamp, source) ==
  [tool |-> p.tool, status |-> status, stamp |-> stamp, source |-> source,
   arg |-> IF redact /\ p.arg = "secret" THEN "***" ELSE p.arg]
NoEvents(raised) == [raised |-> raised, events |-> <<>>]
OneEvent(e) == [raised |-> FALSE, events |-> <<e>>]

(* OpenCode passes any time string on, and the event refuses one that is   *)
(* no date.                                                                *)
NormalizeOpencode(p, redact) ==
  CASE p.json = "other" -> NoEvents(TRUE)
    [] p.json = "object" /\ p.tool = "" -> NoEvents(FALSE)
    [] p.json = "object" /\ p.tool # "" /\ p.stamp = "odd" -> NoEvents(TRUE)
    [] OTHER -> OneEvent(TraceEvent(p, redact, OpencodeStatus(p), p.stamp, ""))
ToolSource(p) == IF p.mcp THEN "mcp" ELSE "builtin"
NormalizeClaude(p, redact) ==
  CASE p.json = "other" -> NoEvents(TRUE)
    [] p.json = "object" /\ p.tool = "" -> NoEvents(FALSE)
    [] OTHER -> OneEvent(TraceEvent(p, redact, ClaudeStatus(p), "none", ToolSource(p)))
(* VS Code also finds the tool in a span's attributes, and drops a time    *)
(* that is no date.                                                        *)
VscodeToolName(p) == IF p.tool # "" THEN p.tool ELSE p.attr
NormalizeVscode(p, redact) ==
  CASE p.json = "other" -> NoEvents(TRUE)
    [] p.json = "object" /\ VscodeToolName(p) = "" -> NoEvents(FALSE)
    [] OTHER -> OneEvent(TraceEvent([p EXCEPT !.tool = VscodeToolName(p)], redact, VscodeStatus(p),
                                    IF p.stamp = "odd" THEN "none" ELSE p.stamp, ""))
Normalize(p, redact) ==
  CASE editor = "opencode" -> NormalizeOpencode(p, redact)
    [] editor = "claude"   -> NormalizeClaude(p, redact)
    [] OTHER               -> NormalizeVscode(p, redact)

DecodeFails(b) == ~b.json
(* All of a batch is normalized before any of it is appended.              *)
CapturedLines(b, redact) ==
  LET parts == [i \in DOMAIN b.items |-> Normalize(b.items[i], redact)]
  IN  IF DecodeFails(b) \/ \E i \in DOMAIN parts : parts[i].raised THEN <<>>
      ELSE Concat([i \in DOMAIN parts |-> parts[i].events])

(* The capture commands an agent runs per event: OpenCode its plugin's,    *)
(* Claude every hook of both settings files; in VS Code the user does.     *)
HookCommands(post) == Concat([i \in DOMAIN post |-> SetToSeq(post[i] \cap CaptureCommands)])
SettingsCommands(c) == IF c.json = "object" THEN HookCommands(c.post) ELSE <<>>
Installed ==
  CASE editor = "opencode" -> HookCommands(wsFiles["plugin"].post)
    [] editor = "claude" ->
         SettingsCommands(wsFiles[SettingsFiles[1]]) \o SettingsCommands(wsFiles[SettingsFiles[2]])
    [] OTHER -> <<"capture">>

Capture(b) ==
  /\ Installed # <<>> /\ Len(sink) < MaxSink
  /\ sink' = sink \o Concat([i \in DOMAIN Installed |->
                               CapturedLines(b, Installed[i] = "capture")])
  /\ outcome' = [NoOutcome EXCEPT !.cmd = "capture"]
  /\ UNCHANGED <<wsFiles, baks, mine, flowDir>>

------------------------------------------------------------------------------
(* The flow commands.                                                      *)

LifecycleTransitions ==
  [observed |-> {"suggested", "ignored"}, suggested |-> {"draft", "ignored"},
   draft |-> {"reviewed", "ignored"}, reviewed |-> {"draft", "active", "archived"},
   active |-> {"archived"}, ignored |-> {"suggested"}, archived |-> {"reviewed"}]

TransitionCandidate(p, target) ==
  /\ flowDir[p].loads
  /\ target \in LifecycleTransitions[flowDir[p].life]
  /\ flowDir' = [flowDir EXCEPT ![p].life = target]
  /\ outcome' = [NoOutcome EXCEPT !.cmd = "flows"]
  /\ UNCHANGED <<wsFiles, baks, mine, sink>>
PromoteFlow(p, target) == target \in {"reviewed", "active"} /\ TransitionCandidate(p, target)
IgnoreFlow(p) == TransitionCandidate(p, "ignored")

(* record writes a mined candidate as a draft, never over a file.          *)
RecordCandidate(name) ==
  /\ flowDir' = IF name \in DOMAIN flowDir THEN flowDir
                ELSE [p \in DOMAIN flowDir \cup {name} |->
                        IF p = name THEN [name |-> name, ver |-> 0, life |-> "draft",
                                            loads |-> TRUE, registers |-> TRUE]
                        ELSE flowDir[p]]
  /\ outcome' = [NoOutcome EXCEPT !.cmd = "record"]
  /\ UNCHANGED <<wsFiles, baks, mine, sink>>

------------------------------------------------------------------------------
(* The user's edits of the same files.                                     *)

UserPart(c) == [servers |-> {s \in c.servers : s[1] # Ours}, post |-> UserHooks(c.post)]
UserWrites(f, c) ==
  /\ wsFiles' = [wsFiles EXCEPT ![f] = c]
  /\ mine' = [mine EXCEPT ![f] = UserPart(c)]
  /\ outcome' = NoOutcome
  /\ UNCHANGED <<baks, flowDir, sink>>
AddsServer(f, s) ==
  /\ s \notin wsFiles[f].servers
  /\ UserWrites(f, [wsFiles[f] EXCEPT !.json = "object", !.odd = FALSE, !.servers = @ \cup {s}])
AddsHook(f) ==
  /\ {"lint"} \notin ToSet(wsFiles[f].post)
  /\ UserWrites(f, [wsFiles[f] EXCEPT !.json = "object", !.post = Append(@, {"lint"})])
SharesHook(f) ==   \* puts a command of the user's into ChainWeaver's entry
  \E i \in DOMAIN wsFiles[f].post :
     /\ wsFiles[f].post[i] \in {{c} : c \in CaptureCommands}
     /\ UserWrites(f, [wsFiles[f] EXCEPT !.post[i] = @ \cup {"lint"}])
Breaks(f) == wsFiles[f].json = "object" /\ UserWrites(f, [wsFiles[f] EXCEPT !.json = "broken"])
Fixes(f) == wsFiles[f].json = "broken" /\ UserWrites(f, [wsFiles[f] EXCEPT !.json = "object"])

UserFiles == CASE editor = "opencode" -> {"opencode.json", "opencode.jsonc"}
               [] editor = "claude"   -> {".mcp.json", "settings.local.json"}
               [] OTHER               -> {".vscode/mcp.json"}
Edits(f) ==
  \/ f \notin ToSet(SettingsFiles) /\ \E s \in UserServers : AddsServer(f, s)
  \/ f \in ToSet(SettingsFiles) /\ (AddsHook(f) \/ SharesHook(f))
  \/ Breaks(f)
  \/ Fixes(f)

------------------------------------------------------------------------------
EditorsInit ==
  /\ editor \in {"opencode", "claude", "vscode"}
  /\ \E f \in UserFiles, t \in UserTexts : wsFiles = [g \in WsFiles |-> IF g = f THEN t ELSE NoFile]
  /\ baks = [f \in WsFiles |-> NoFile]
  /\ mine = [f \in WsFiles |-> UserPart(wsFiles[f])]
  /\ flowDir \in FlowDirs
  /\ sink = <<>>
  /\ outcome = NoOutcome
  /\ commands = 0

(* scope is an argument of Claude's commands, reviewed of Claude's and VS  *)
(* Code's.                                                                 *)
Takes(a) == /\ a.reviewed => editor # "opencode"
            /\ a.scope # "local" => editor = "claude"

EditorsNext ==
  /\ commands < MaxCommands
  /\ commands' = commands + 1
  /\ UNCHANGED editor
  /\ \/ \E a \in Calls : Takes(a) /\ (Setup(a) \/ Revert(a))
     \/ \E b \in Batches : Capture(b)
     \/ \E p \in DOMAIN flowDir :
           (\E target \in {"reviewed", "active"} : PromoteFlow(p, target)) \/ IgnoreFlow(p)
     \/ RecordCandidate("mined")
     \/ \E f \in UserFiles : Edits(f)

EditorsSpec == EditorsInit /\ [][EditorsNext]_editorVars

------------------------------------------------------------------------------
(* The doctor's two findings about an agent's wiring.                      *)

LooksLikeFlowServer(s) == s[1] = Ours \/ s[2] = "mentions"
DoctorFlowServer ==
  LET c == wsFiles[McpPath(wsFiles)]
  IN  c.json \notin {"absent", "broken"} /\ \E s \in c.servers : LooksLikeFlowServer(s)
ClaudeHooksCheck ==
  \E i \in DOMAIN SettingsFiles : LET c == wsFiles[SettingsFiles[i]]
                                  IN  c.json = "object" /\ c.post # <<>>
OpencodePluginCheck == wsFiles["plugin"].json # "absent"

------------------------------------------------------------------------------
(* Whatever setups and reverts are run, in whatever order, with whatever   *)
(* the user edits between them: the user's servers and the hook entries    *)
(* that are the user's alone are, in every file, what the user last left   *)
(* there, also where a file had a syntax error or a setup stopped halfway. *)
UserConfigSurvives ==
  \A f \in WsFiles : UserPart(wsFiles[f]) = mine[f]

(* When a command ends well, the files are what it announced: after a      *)
(* setup the doctor finds the server and the hook, and OpenCode is served  *)
(* exactly the tools it was told of, if no file has a version or a graph   *)
(* that registration refuses, no flow two versions, and the directory was  *)
(* the one the server will see;                                            *)
(* after a revert nothing of ChainWeaver's is left where the command       *)
(* looks, and what the doctor still finds is the user's.  Every line ever  *)
(* captured is one the trace loader accepts: it names its tool, and its    *)
(* time is a date.                                                         *)
OneVersionEach == \A p, q \in DOMAIN flowDir : p # q => flowDir[p].name # flowDir[q].name
Ended(cmd) == outcome.cmd = cmd /\ outcome.exit = 0 /\ outcome.write
OutcomeIsTrue ==
  /\ \A i \in DOMAIN sink : sink[i].tool # "" /\ sink[i].stamp # "odd"
  /\ Ended("setup") /\ outcome.flows =>
       /\ DoctorFlowServer
       /\ editor = "opencode" /\ OneVersionEach /\ ~RegistrationFails /\ ~outcome.away =>
            ~ServeRefuses /\ ServedTools(outcome.prefix) = outcome.told
  /\ Ended("setup") /\ outcome.observe =>
       CASE editor = "opencode" -> OpencodePluginCheck /\ Len(Installed) = 1
         [] editor = "claude"   -> ClaudeHooksCheck /\ Installed # <<>>
         [] OTHER               -> TRUE
  /\ Ended("revert") /\ outcome.flows =>
       LET c == wsFiles[McpPath(wsFiles)]
       IN  ~HasFlowServer(c) /\ (DoctorFlowServer => \E s \in mine[McpPath(wsFiles)].servers :
                                                       LooksLikeFlowServer(s))
  /\ Ended("revert") /\ outcome.observe =>
       CASE editor = "opencode" -> Installed = <<>>
         [] editor = "claude" -> HookCommands(wsFiles[SettingsPath(outcome.scope)].post) = <<>>
         [] OTHER -> TRUE

(* Setup and revert leave the user's configuration alone and tell the      *)
(* truth about what they did.                                              *)
EditsAreSafe == UserConfigSurvives /\ OutcomeIsTrue
=============================================================================
