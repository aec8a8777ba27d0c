------------------------------ MODULE McpServer ------------------------------
(***************************************************************************)
(* FlowServer: the registry's flows published as MCP tools.  Which flows   *)
(* are published is decided once, when the server is built; every call     *)
(* then passes the request gate (authenticate, rate limit, authorize)      *)
(* before the executor runs the flow.  The executor's tools come from      *)
(* McpClient, so a flow may proxy a remote server's tools.                 *)
(*                                                                         *)
(* The gate and the start of a run share one event-loop step; the run's    *)
(* result arrives in a later one, after other calls, tool registrations    *)
(* and status changes.                                                     *)
(***************************************************************************)
EXTENDS McpClient

CONSTANTS
  Apps,            \* flow versions in the registry
  AppInfo,         \* their fields: name, rank, lifecycle, owner, declared, tools, snap
  ServerConfigs,   \* constructor arguments
  Callers,         \* identities the authenticator knows
  ServerCalls,     \* call ids, used in order: 1..N
  MaxCalls, WindowTicks, MaxTracked,  \* the rate limiter's arguments
  MaxTicks,
  MaxServerWork    \* remote changes, discoveries, calls and ticks together

Unset == <<>>    \* an argument not given; a given one is <<value>>
Details == {"full", "type_only", "generic"}

(* What the constructors of FlowServer, gate and limiter check, and        *)
(* the types of their arguments; a flow names tools of the executor.       *)
ASSUME ServerAssumption ==
  /\ MaxCalls \in Nat \ {0} /\ WindowTicks \in Nat \ {0} /\ MaxTicks \in Nat
  /\ \A a \in Apps : /\ AppInfo[a].tools \subseteq LocalNames
                     /\ AppInfo[a].declared \in Contracts \cup {UnknownSafety}
  /\ \A cfg \in ServerConfigs :
       /\ cfg.authn \in BOOLEAN /\ cfg.limiter \in BOOLEAN /\ cfg.authz \in BOOLEAN
       /\ cfg.detail = Unset \/ cfg.detail[1] \in Details
       /\ cfg.profile = Unset \/ cfg.profile[1] \in {"strict", "balanced", "trusted"}

NotExposed == [UnknownSafety EXCEPT !.side = -2]
Anonymous == "anonymous"

Profile(lifecycles, sides, approval, detail, hooks) ==
  [lifecycles |-> lifecycles, sides |-> sides, approval |-> approval, force |-> FALSE,
   detail |-> detail, hooks |-> hooks]
Profiles ==
  [strict   |-> Profile({"active"}, {NONE, READ}, FALSE, "generic", TRUE),
   balanced |-> Profile({"active"}, {NONE, READ}, FALSE, "type_only", FALSE),
   trusted  |-> Profile({"active", "reviewed"}, {NONE, READ, WRITE}, TRUE, "full", FALSE)]
DefaultProfile == Profile({"active"}, {NONE, READ}, FALSE, "full", FALSE)
NetworkProfile == Profile({"active"}, {NONE, READ}, FALSE, "type_only", TRUE)

(* An explicit argument wins over the profile, the profile over the        *)
(* fallback.                                                               *)
Resolve(cfg, attr) ==
  IF cfg[attr] # Unset THEN cfg[attr][1]
  ELSE IF cfg.profile # Unset THEN Profiles[cfg.profile[1]][attr]
  ELSE DefaultProfile[attr]

VARIABLES
  status,    \* FlowStatus of each flow version
  server,    \* the FlowServer: phase, arguments, error_detail, transport
  gateMode,  \* _error_detail of the gate every dispatcher closed over
  exposed,   \* safety bound into each flow's dispatcher
  built,     \* the executor's tools when the server was built
  readiness, \* codes of the findings logged before serving
  ticks,     \* the limiter's clock
  hits,      \* _hits: caller -> [start, count]
  grants,    \* permits given: <<caller, tick>>
  calls      \* the calls: pc, flow, audit trail, effects, reply

serverVars == <<clientVars, status, server, gateMode, exposed, built, readiness,
                ticks, hits, grants, calls>>

NoCall == [pc |-> "new", app |-> "none", trail |-> <<>>,
           sides |-> {}, fresh |-> TRUE, net |-> FALSE, reply |-> "none"]

ServerWork == edited + discovered + ticks
                + Cardinality({c \in ServerCalls : calls[c].pc # "new"})

ServerInit ==
  /\ ClientInit
  /\ status = [a \in Apps |-> "active"]
  /\ server = [phase |-> "none", cfg |-> Unset, detail |-> "full", net |-> FALSE]
  /\ gateMode = "full"
  /\ exposed = [a \in Apps |-> NotExposed]
  /\ built = catalog
  /\ readiness = {}
  /\ ticks = 0
  /\ hits = <<>>
  /\ grants = <<>>
  /\ calls = [c \in ServerCalls |-> NoCall]

------------------------------------------------------------------------------
(* Which flows are published.                                              *)

(* Variant: the least restrictive level wins.                              *)
MergeLeast(cs) ==
  [side     |-> CHOOSE l \in {c.side : c \in cs} : \A c \in cs : l <= c.side,
   idem     |-> \A c \in cs : c.idem,
   cache    |-> \A c \in cs : c.cache,
   approval |-> \E c \in cs : c.approval]

(* The most restrictive of several contracts.                              *)
MergeSafety(cs) ==
  [side     |-> CHOOSE l \in {c.side : c \in cs} : \A c \in cs : c.side <= l,
   idem     |-> \A c \in cs : c.idem,
   cache    |-> \A c \in cs : c.cache,
   approval |-> \E c \in cs : c.approval]
ResolveFlowSafety(a) ==
  LET cs == {catalog[t].safety : t \in AppInfo[a].tools}
  IN  IF AppInfo[a].declared # UnknownSafety THEN AppInfo[a].declared
      ELSE IF UnknownSafety \in cs \/ cs = {} THEN UnknownSafety
      ELSE MergeSafety(cs)

Excluded(cfg, a) ==
  LET s == ResolveFlowSafety(a)
  IN  \/ AppInfo[a].lifecycle \notin Resolve(cfg, "lifecycles")
      \/ cfg.owners # Unset /\ AppInfo[a].owner \notin cfg.owners[1]
      \/ s = UnknownSafety
      \/ s.side \notin Resolve(cfg, "sides")
      \/ s.approval /\ ~Resolve(cfg, "approval")

NewestOf(as) == {a \in as : \A b \in as : AppInfo[b].name = AppInfo[a].name
                                            => AppInfo[b].rank <= AppInfo[a].rank}
Forced(cfg) == cfg.names # Unset /\ Resolve(cfg, "force")
(* The flows registered, in the order of flow_names when they are named.   *)
Candidates(cfg) ==
  IF cfg.names = Unset THEN NewestOf({a \in Apps : status[a] = "active"})
  ELSE {a \in NewestOf(Apps) : \E i \in DOMAIN cfg.names[1] : cfg.names[1][i] = AppInfo[a].name}
Published(cfg) == {a \in Candidates(cfg) : Forced(cfg) \/ ~Excluded(cfg, a)}
NameCollision(cfg) ==
  /\ cfg.names # Unset
  /\ \E a \in Published(cfg) : \E i, j \in DOMAIN cfg.names[1] :
       i # j /\ cfg.names[1][i] = AppInfo[a].name /\ cfg.names[1][j] = AppInfo[a].name

(* _tool_annotations: the hints an MCP client reads for a flow.            *)
ToolAnnotations(safety) ==
  IF safety = UnknownSafety
  THEN [given |-> TRUE, readOnly |-> FALSE, destructive |-> TRUE, idem |-> "no"]
  ELSE [given |-> TRUE, readOnly |-> safety.side \in {NONE, READ},
        destructive |-> safety.side = DESTRUCTIVE, idem |-> IF safety.idem THEN "yes" ELSE "no"]

Construct(cfg) ==
  /\ server.phase = "none"
  /\ built' = catalog
  /\ IF NameCollision(cfg)
     THEN /\ server' = [server EXCEPT !.phase = "ValueError"]
          /\ UNCHANGED <<exposed, gateMode>>
     ELSE /\ server' = [phase |-> "built", cfg |-> cfg, detail |-> Resolve(cfg, "detail"),
                        net |-> FALSE]
          /\ gateMode' = Resolve(cfg, "detail")
          /\ exposed' = [a \in Apps |-> IF a \in Published(cfg) THEN ResolveFlowSafety(a)
                                        ELSE NotExposed]
  /\ UNCHANGED <<clientVars, status, readiness, ticks, hits, grants, calls>>

------------------------------------------------------------------------------
(* Serving.                                                                *)

EvaluateReadiness(p, cfg, detail) ==
  LET codes ==
        {x \in {"missing-authorizer"} : p.hooks /\ ~cfg.authz}
          \cup {x \in {"missing-authenticator"} : p.hooks /\ ~cfg.authn}
          \cup {x \in {"error-detail-relaxed"} : detail # p.detail}
          \cup {x \in {"side-effects-over-ceiling"} :
                  \E a \in Apps : exposed[a].side \in Level \ p.sides}
  IN  IF codes = {} THEN {"ready"} ELSE codes

(* serve / serve_async: a network transport is preceded by _preflight,     *)
(* which tightens an error_detail nobody chose on the gate the dispatchers *)
(* share.  serve returns when the transport stops; it may be called again. *)
Tightened(cfg, mode) ==
  IF cfg.detail = Unset /\ cfg.profile = Unset THEN "type_only" ELSE mode

Serve(net) ==
  /\ server.phase \in {"built", "stopped"}
  /\ LET cfg == server.cfg
         p == IF cfg.profile # Unset THEN Profiles[cfg.profile[1]] ELSE NetworkProfile
         d == IF net THEN Tightened(cfg, server.detail) ELSE server.detail
     IN  /\ server' = [server EXCEPT !.phase = "serving", !.net = net, !.detail = d]
         /\ gateMode' = IF net THEN Tightened(cfg, gateMode) ELSE gateMode
         /\ readiness' = IF net THEN EvaluateReadiness(p, cfg, d) ELSE readiness
  /\ UNCHANGED <<clientVars, status, exposed, built, ticks, hits, grants, calls>>

Stop ==
  /\ server.phase = "serving" /\ ~server.net
  /\ server' = [server EXCEPT !.phase = "stopped"]
  /\ UNCHANGED <<clientVars, status, gateMode, exposed, built, readiness, ticks, hits,
                 grants, calls>>

------------------------------------------------------------------------------
(* The gate.  A hook that raises denies, like one that refuses.            *)

(* FixedWindowRateLimiter.acquire: the caller's window, the permit and the *)
(* entries left after a new key swept the expired ones.                    *)
Expired(h) == ticks - h.start >= WindowTicks
WindowOf(id) ==
  IF id \notin DOMAIN hits \/ Expired(hits[id]) THEN [start |-> ticks, count |-> 0]
  ELSE hits[id]
Permitted(id) == WindowOf(id).count < MaxCalls
EvictExpired == {id \in DOMAIN hits : ~Expired(hits[id])}
Acquired(id) ==
  LET w == WindowOf(id)
      swept == id \notin DOMAIN hits /\ Cardinality(DOMAIN hits) >= MaxTracked
      left == IF swept /\ Permitted(id) THEN EvictExpired ELSE DOMAIN hits
  IN  [k \in left \cup {id} |->
         IF k # id THEN hits[k]
         ELSE IF Permitted(id) THEN [w EXCEPT !.count = @ + 1] ELSE w]

Authenticate(cfg, id) == ~cfg.authn \/ id \in Callers
RateLimit(cfg, id) == ~cfg.limiter \/ Permitted(id)
Authorize(cfg, verdict) == ~cfg.authz \/ verdict = "allow"
(* One audit event for each decision; a hook that is absent decides nothing. *)
Emit(hook, action, allowed) ==
  IF hook THEN <<<<action, IF allowed THEN "allow" ELSE "deny">>>> ELSE <<>>
(* The audit trail of one call: the first deny ends it.                    *)
Trail(cfg, id, verdict) ==
  LET known == Authenticate(cfg, id)
      rate == known /\ RateLimit(cfg, id)
  IN  Emit(cfg.authn, "authenticate", known)
        \o Emit(known /\ cfg.limiter, "rate_limit", rate)
        \o Emit(rate /\ cfg.authz, "authorize", Authorize(cfg, verdict))
Denied(trail) == trail # <<>> /\ trail[Len(trail)][2] = "deny"
UsesLimiter(trail) == \E i \in DOMAIN trail : trail[i][1] = "rate_limit"

(* The dispatcher up to its await: the gate, input validation and the      *)
(* executor's status check.  The caller's credentials are who; verdict is  *)
(* what the authorizer will say; valid whether the arguments parse.        *)
Dispatch(c, a, who, verdict, valid) ==
  /\ server.phase = "serving" /\ ServerWork < MaxServerWork
  /\ calls[c].pc = "new" /\ \A d \in ServerCalls : d < c => calls[d].pc # "new"
  /\ exposed[a] # NotExposed
  /\ LET cfg == server.cfg
         id == IF cfg.authn THEN who ELSE Anonymous
         trail == Trail(cfg, id, verdict)
         reply == CASE Denied(trail) -> "denied"
                    [] ~Denied(trail) /\ ~valid -> "ValidationError"
                    [] ~Denied(trail) /\ valid /\ status[a] # "active" -> "FlowStatusError"
                    [] OTHER -> "none"
     IN  /\ calls' = [calls EXCEPT ![c] =
              [@ EXCEPT !.pc = IF reply = "none" THEN "running" ELSE "done",
                        !.app = IF reply = "none" THEN a ELSE "none", !.trail = trail, !.reply = reply]]
         /\ IF UsesLimiter(trail)
            THEN /\ hits' = Acquired(id)
                 /\ grants' = IF Permitted(id) THEN Append(grants, <<id, ticks>>) ELSE grants
            ELSE UNCHANGED <<hits, grants>>
  /\ UNCHANGED <<clientVars, status, server, gateMode, exposed, built, readiness, ticks>>

(* The awaited run ends: its tools answered, and each answer was projected *)
(* for its step, looked up in the executor's tools as they are now.  A     *)
(* failure is rendered in the gate's mode; a result the output schema      *)
(* refuses raises outside the gate.                                        *)
Finish(c, k, valid) ==
  /\ calls[c].pc = "running"
  /\ LET ts == AppInfo[calls[c].app].tools
         failed == \E t \in ts : catalog[t] = NoTool
                                 \/ Projected(t, k) = "MCPToolInvocationError"
     IN  calls' = [calls EXCEPT ![c] =
           [@ EXCEPT !.pc = "done",
                     !.sides = {catalog[t].safety.side : t \in ts},
                     !.fresh = \A t \in ts : catalog[t] = built[t],
                     !.net = server.net,
                     !.reply = IF failed THEN gateMode
                               ELSE IF valid THEN "ok" ELSE "ValidationError"]]
  /\ UNCHANGED <<clientVars, status, server, gateMode, exposed, built, readiness, ticks,
                 hits, grants>>

Tick ==
  /\ ticks < MaxTicks /\ ServerWork < MaxServerWork
  /\ server.phase = "serving" /\ server.cfg.limiter
  /\ ticks' = ticks + 1
  /\ UNCHANGED <<clientVars, status, server, gateMode, exposed, built, readiness, hits,
                 grants, calls>>

(* Registering a discovered tool over one with another schema flags the    *)
(* flows that recorded a different hash for it.                            *)
HandleSchemaDrift ==
  status' = [a \in Apps |->
    IF \E t \in DOMAIN AppInfo[a].snap :
         /\ catalog[t] # NoTool /\ catalog'[t].schema # catalog[t].schema
         /\ AppInfo[a].snap[t] # catalog'[t].schema
    THEN "needs_review" ELSE status[a]]

Client ==
  /\ ServerWork < MaxServerWork
  /\ ClientNext
  /\ HandleSchemaDrift
  /\ UNCHANGED <<server, gateMode, exposed, built, readiness, ticks, hits, grants, calls>>

ServerNext ==
  \/ Client
  \/ \E cfg \in ServerConfigs : Construct(cfg)
  \/ \E net \in BOOLEAN : Serve(net)
  \/ Stop
  \/ \E c \in ServerCalls, a \in Apps, who \in Callers \cup {"unknown"},
        verdict \in {"allow", "deny"}, valid \in BOOLEAN : Dispatch(c, a, who, verdict, valid)
  \/ \E c \in ServerCalls, k \in RemoteReplies, valid \in BOOLEAN : Finish(c, k, valid)
  \/ Tick

ServerSpec == ServerInit /\ [][ServerNext]_serverVars

------------------------------------------------------------------------------
Ran(c) == calls[c].pc = "running" \/ calls[c].reply \in {"ok", "full", "type_only", "generic"}

(* What the gate records of a call it lets through.                        *)
Cleared(cfg) ==
  Emit(cfg.authn, "authenticate", TRUE) \o Emit(cfg.limiter, "rate_limit", TRUE)
    \o Emit(cfg.authz, "authorize", TRUE)

(* A call reaches a flow only after every configured hook allowed it, in   *)
(* the gate's order; on a server that was not forced, no step it runs goes *)
(* beyond the allowed side effects as long as the tools are the ones the   *)
(* server was built with and the flow declares no contract of its own; a   *)
(* ChainWeaver client that wraps the published tools reads no looser       *)
(* contract than the flow's; and nobody on a network reads the text of an  *)
(* error unless the operator asked for it.                                 *)
CallsAreCleared ==
  \A c \in ServerCalls : Ran(c) =>
    LET cfg == server.cfg
    IN  /\ calls[c].trail = Cleared(cfg)
        /\ /\ ~Forced(cfg) /\ calls[c].fresh
           /\ AppInfo[calls[c].app].declared = UnknownSafety
           => \A side \in calls[c].sides : \E l \in Resolve(cfg, "sides") : side <= l
        /\ \A a \in Apps : exposed[a] # NotExposed /\ policy.trust # "ignore" =>
             LET read == SafetyFromAnnotations(ToolAnnotations(exposed[a]))
             IN  read.side >= exposed[a].side /\ (read.idem => exposed[a].idem)
        /\ calls[c].reply = "full" /\ calls[c].net => {cfg.detail, cfg.profile} # {Unset}

(* The entry of a window counts every permit its caller was given since    *)
(* the window began, however often other callers made the limiter sweep    *)
(* its table meanwhile, and no more than the limit: so no span of one      *)
(* window length sees more than two windows' worth of permits.             *)
WindowLimit ==
  \A id \in DOMAIN hits :
    LET permits(from, to) == Cardinality({i \in DOMAIN grants : /\ grants[i][1] = id
                                                               /\ grants[i][2] \in from..to})
    IN  /\ hits[id].count = permits(hits[id].start, MaxTicks)
        /\ hits[id].count <= MaxCalls
        /\ \A s \in 0..MaxTicks : permits(s, s + WindowTicks - 1) <= 2 * MaxCalls

(* What GatewaySecurity lets through was cleared, and within the limit.    *)
ServedIsCleared == CallsAreCleared /\ WindowLimit
=============================================================================
