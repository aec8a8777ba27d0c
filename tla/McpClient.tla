------------------------------ MODULE McpClient ------------------------------
(***************************************************************************)
(* MCPToolAdapter: a remote MCP server's tools wrapped as local tools and  *)
(* registered with the executor, under a policy for names, annotations and *)
(* schema drift.  The remote server may change a tool at any time; a pin   *)
(* file records the schemas an operator has accepted.                      *)
(***************************************************************************)
EXTENDS Integers, Sequences, FiniteSets

CONSTANTS
  RemoteTools,     \* tools of the remote server, in listing order: 1..N
  RemoteName,      \* RemoteName[n]: "valid", "invalid" or, sanitised too, "hopeless"
  CleanName,       \* CleanName[n]: the (prefixed) name, sanitised if it must be
  RemoteSchemas,   \* raw schemas the server may advertise; "broken" is one
  HintSet,         \* annotations the server may declare, NoHints included
  ClientPolicies,  \* [names, trust, drift] records
  KeepSets,        \* what include / exclude may keep of a listing
  MaxRemoteEdits,
  MaxDiscoveries

NoHints == [given |-> FALSE, readOnly |-> FALSE, destructive |-> FALSE, idem |-> "unset"]
NONE == 0
READ == 1
WRITE == 2
EXTERNAL == 3
DESTRUCTIVE == 4
Level == NONE..DESTRUCTIVE
Contracts == [side : Level, idem : BOOLEAN, cache : BOOLEAN, approval : BOOLEAN]
UnknownSafety == [side |-> -1, idem |-> FALSE, cache |-> FALSE, approval |-> FALSE]
NoTool == [from |-> 0, schema |-> "none", output |-> FALSE, safety |-> UnknownSafety]
NoPin == "unpinned"
LocalNames == {CleanName[n] : n \in RemoteTools}
HintValues == [given : BOOLEAN, readOnly : BOOLEAN, destructive : BOOLEAN,
               idem : {"unset", "yes", "no"}]

(* No tool has the empty name, and a tool without annotations has none of  *)
(* the hints.                                                              *)
ASSUME ClientAssumption ==
  /\ IsFiniteSet(RemoteTools) /\ RemoteTools = 1..Cardinality(RemoteTools)
  /\ KeepSets \subseteq SUBSET RemoteTools
  /\ "" \notin LocalNames
  /\ "s1" \in RemoteSchemas /\ {NoPin, "none"} \cap RemoteSchemas = {}
  /\ HintSet \subseteq HintValues
  /\ \A h \in HintSet : ~h.given => h = NoHints

VARIABLES
  remote,      \* what the server advertises now
  edited,      \* changes the server has made
  policy,      \* the adapter's construction arguments
  pins,        \* the pin file: remote tool -> schema
  catalog,     \* the executor's tools, by local name
  adopted,     \* how each local tool was adopted: schema, pin and hints then
  found,       \* remote tool -> schema, of the last discovery that returned
  discovered   \* discover_tools calls so far

clientVars == <<remote, edited, policy, pins, catalog, adopted, found, discovered>>

ClientInit ==
  /\ remote = [n \in RemoteTools |->
                 [schema |-> "s1", output |-> n = 1, hints |-> NoHints]]
  /\ edited = 0
  /\ policy \in ClientPolicies
  /\ pins = [n \in RemoteTools |-> NoPin]
  /\ catalog = [t \in LocalNames |-> NoTool]
  /\ adopted = [t \in LocalNames |-> [pin |-> NoPin, hints |-> NoHints]]
  /\ found = [n \in RemoteTools |-> NoPin]
  /\ discovered = 0

(* The remote server changes a tool.                                       *)
RemoteChange(n) ==
  /\ edited < MaxRemoteEdits
  /\ \/ \E s \in RemoteSchemas \ {remote[n].schema} : remote' = [remote EXCEPT ![n].schema = s]
     \/ \E h \in HintSet \ {remote[n].hints} : remote' = [remote EXCEPT ![n].hints = h]
  /\ edited' = edited + 1
  /\ UNCHANGED <<policy, pins, catalog, adopted, found, discovered>>

(* MetadataPolicy.apply_name: "" stands for MCPMetadataError.              *)
ApplyName(n) ==
  IF \/ RemoteName[n] = "valid"
     \/ RemoteName[n] = "invalid" /\ policy.names = "sanitize"
  THEN CleanName[n] ELSE ""

RemoteContract(side, idem) ==
  [side |-> side, idem |-> idem, cache |-> FALSE, approval |-> FALSE]

SafetyFromAnnotations(h) ==
  LET side == IF h.destructive THEN DESTRUCTIVE
              ELSE IF h.readOnly THEN READ ELSE EXTERNAL
  IN  CASE policy.trust = "ignore" -> UnknownSafety
        [] policy.trust # "ignore" /\ ~h.given ->
             IF policy.trust = "cap" THEN RemoteContract(EXTERNAL, FALSE)
             ELSE UnknownSafety
        [] OTHER ->
             RemoteContract(side, IF h.idem = "unset" THEN side \in {NONE, READ}
                                  ELSE h.idem = "yes")

(* Variant: no fingerprint is compared.                                    *)
BuildFailsUnpinned(n) == ApplyName(n) = "" \/ remote[n].schema = "broken"

(* discover_tools raises before it returns any tool when one of the kept   *)
(* tools has a refused name, a schema that does not convert, or, under     *)
(* on_drift="error", a fingerprint that is not the pinned one.             *)
Drifted(n) == pins[n] # NoPin /\ pins[n] # remote[n].schema
BuildFails(n) == \/ ApplyName(n) = ""
                 \/ remote[n].schema = "broken"
                 \/ Drifted(n) /\ policy.drift = "error"

BuildTool(n) ==
  [from |-> n, schema |-> remote[n].schema, output |-> remote[n].output,
   safety |-> SafetyFromAnnotations(remote[n].hints)]

(* The caller registers what discovery returned, in order: of two tools    *)
(* with one local name the last one stays.                                 *)
LastNamed(kept, t) ==
  CHOOSE n \in kept : /\ ApplyName(n) = t
                      /\ \A k \in kept : ApplyName(k) = t => k <= n
Registered(kept) == {ApplyName(n) : n \in kept}

DiscoverTools(kept) ==
  /\ discovered < MaxDiscoveries
  /\ discovered' = discovered + 1
  /\ IF \E n \in kept : BuildFails(n)
     THEN UNCHANGED <<catalog, adopted, found>>
     ELSE /\ catalog' = [t \in LocalNames |->
                IF t \in Registered(kept) THEN BuildTool(LastNamed(kept, t)) ELSE catalog[t]]
          /\ adopted' = [t \in LocalNames |->
                IF t \in Registered(kept)
                THEN [pin |-> pins[LastNamed(kept, t)], hints |-> remote[LastNamed(kept, t)].hints]
                ELSE adopted[t]]
          /\ found' = [n \in RemoteTools |->
                IF n \in kept THEN remote[n].schema ELSE NoPin]
  /\ UNCHANGED <<remote, edited, policy, pins>>

(* build_pin_file on the tools of the last discovery, over the pin file.   *)
BuildPinFile ==
  /\ pins # found
  /\ pins' = found
  /\ UNCHANGED <<remote, edited, policy, catalog, adopted, found, discovered>>

(* One call of a wrapped tool: what the server sends back, and what the    *)
(* step receives.  Without an output schema the text is wrapped as it is.  *)
RemoteReplies ==
  {"isError", "structured", "jsonObject", "jsonOther", "text", "empty", "transport"}
Projected(t, k) ==
  CASE k \in {"isError", "transport"} -> "MCPToolInvocationError"
    [] k \notin {"isError", "transport"} /\ ~catalog[t].output -> "wrapped"
    [] k \in {"structured", "jsonObject"} /\ catalog[t].output -> "object"
    [] OTHER -> "MCPToolInvocationError"

ClientNext ==
  \/ \E n \in RemoteTools : RemoteChange(n)
  \/ \E kept \in KeepSets : DiscoverTools(kept)
  \/ BuildPinFile

ClientSpec == ClientInit /\ [][ClientNext]_clientVars

(* Under on_drift="error" no pinned tool is adopted with another schema    *)
(* than the pinned one, whatever the server did between two discoveries,   *)
(* and no adopted contract is looser than the tool's annotations: a tool   *)
(* that said destructive is never filed below DESTRUCTIVE, a tool that did *)
(* not say read-only never as read-only, and none as free of effects.      *)
AdoptionIsGuarded ==
  \A t \in LocalNames : LET c == catalog[t] IN LET a == adopted[t] IN
    c # NoTool =>
      /\ policy.drift = "error" /\ a.pin # NoPin => c.schema = a.pin
      /\ c.safety # UnknownSafety =>
           /\ c.safety.side >= READ /\ ~c.safety.cache
           /\ a.hints.destructive => c.safety.side = DESTRUCTIVE
           /\ c.safety.side = READ => a.hints.given /\ a.hints.readOnly
=============================================================================
