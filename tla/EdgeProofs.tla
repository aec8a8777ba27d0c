----------------------------- MODULE EdgeProofs -----------------------------
(***************************************************************************)
(* The system's edges.  The MCP adapter and the MCP server, for every      *)
(* remote server, policy, server configuration and number of calls: what   *)
(* the adapter adopts is guarded, and what the server runs was cleared and *)
(* within its limits.  The offline proposers, for every catalogue, budget  *)
(* and provider: what is proposed is grounded in what was shown.  The      *)
(* editor adapters, for every text of the user's: what the user wrote      *)
(* survives, and what a command reports is so.  The agent traces, for      *)
(* every file: drafts replay what was logged.                              *)
(***************************************************************************)
EXTENDS McpServer, Proposer, Editors, AgentTraces, FiniteSetTheorems, SequenceTheorems,
        WellFoundedInduction, TLAPS

-----------------------------------------------------------------------------
(* A set of numbers below a bound has a largest member.                    *)
LEMMA LargestOf ==
  ASSUME NEW m \in Nat, NEW T \in SUBSET (0 .. m), T # {}
  PROVE  \E v \in T : \A w \in T : w <= v
<1> DEFINE HasTop(U) == \E v \in U : \A w \in U : w <= v
           W == {U \in SUBSET (0 .. m) : U # {} /\ ~HasTop(U)}
<1>1. IsFiniteSet(0 .. m) /\ \A U \in SUBSET (0 .. m) : IsFiniteSet(U)
  <2>1. IsFiniteSet(0 .. m)
    BY FS_Interval
  <2> QED
    BY <2>1, FS_Subset
<1>2. W \subseteq FiniteSubsetsOf(0 .. m)
  BY <1>1 DEF FiniteSubsetsOf
<1>3. SUFFICES ASSUME W # {} PROVE FALSE
  OBVIOUS
<1>4. PICK U \in W : \A X \in W : <<X, U>> \notin StrictSubsetOrdering(0 .. m)
  <2> HIDE DEF W
  <2> QED
    BY <1>1, <1>2, <1>3, FS_StrictSubsetOrderingWellFounded, WFMin
<1>5. PICK x \in U : TRUE
  OBVIOUS
<1>6. U \ {x} \notin W
  BY <1>1, <1>4, <1>5 DEF StrictSubsetOrdering
<1>7. CASE U \ {x} = {}
  BY <1>5, <1>7
<1>8. CASE U \ {x} # {}
  <2>1. PICK y \in U \ {x} : \A w \in U \ {x} : w <= y
    BY <1>6, <1>8
  <2>2. x \in Nat /\ y \in Nat /\ \A w \in U : w \in Nat
    BY <1>5
  <2>3. (\A w \in U : w <= x) \/ (\A w \in U : w <= y)
    BY <2>1, <2>2
  <2> QED
    BY <2>1, <2>3, <1>5
<1> QED
  BY <1>7, <1>8

-----------------------------------------------------------------------------
(* The client.                                                             *)

Safety == Contracts \cup {UnknownSafety}
Hints == {h \in HintValues : ~h.given => h = NoHints}

(* No looser than the annotations h.                                       *)
AsStrictAs(c, h) ==
  c # UnknownSafety =>
    /\ c.side >= READ /\ ~c.cache
    /\ h.destructive => c.side = DESTRUCTIVE
    /\ c.side = READ => h.given /\ h.readOnly

ClientTyped ==
  /\ remote \in [RemoteTools -> [schema : RemoteSchemas, output : BOOLEAN, hints : Hints]]
  /\ \A t \in LocalNames : catalog[t].safety \in Safety

ClientInv == ClientTyped /\ AdoptionIsGuarded

(* What the annotations of a tool become.                                  *)
LEMMA AnnotationsMean ==
  ASSUME NEW h \in Hints
  PROVE  SafetyFromAnnotations(h) \in Safety /\ AsStrictAs(SafetyFromAnnotations(h), h)
<1> DEFINE side == IF h.destructive THEN DESTRUCTIVE ELSE IF h.readOnly THEN READ ELSE EXTERNAL
           idem == IF h.idem = "unset" THEN side \in {NONE, READ} ELSE h.idem = "yes"
           c == SafetyFromAnnotations(h)
<1>1. c \in {UnknownSafety, RemoteContract(EXTERNAL, FALSE), RemoteContract(side, idem)}
  BY DEF SafetyFromAnnotations
<1>2. CASE c = UnknownSafety
  BY <1>2 DEF Safety, AsStrictAs
<1>3. CASE policy.trust # "ignore" /\ ~h.given /\ c = RemoteContract(EXTERNAL, FALSE)
  <2>1. h = NoHints
    BY <1>3 DEF Hints
  <2>2. c = [side |-> 3, idem |-> FALSE, cache |-> FALSE, approval |-> FALSE]
    BY <1>3 DEF RemoteContract, EXTERNAL
  <2>3. c \in Contracts
    BY <2>2 DEF Contracts, Level, NONE, DESTRUCTIVE
  <2>4. c.side = 3 /\ c.cache = FALSE
    BY <2>2
  <2>5. h.destructive = FALSE
    BY <2>1 DEF NoHints
  <2> QED
    BY <2>3, <2>4, <2>5 DEF Safety, AsStrictAs, READ
<1>4. CASE h.given /\ c = RemoteContract(side, idem)
  <2>a. side \in Level
    BY DEF Level, NONE, READ, EXTERNAL, DESTRUCTIVE
  <2>b. idem \in BOOLEAN
    <3> HIDE DEF side
    <3>1. CASE h.idem = "unset"
      <4>1. idem = (side \in {NONE, READ})
        BY <3>1, Zenon
      <4>2. (side \in {NONE, READ}) \in BOOLEAN
        OBVIOUS
      <4> QED
        BY <4>1, <4>2, Zenon
    <3>2. CASE h.idem # "unset"
      BY <3>2, Zenon
    <3> QED
      BY <3>1, <3>2
  <2>1. side \in Level /\ idem \in BOOLEAN
    BY <2>a, <2>b
  <2>2. c = [side |-> side, idem |-> idem, cache |-> FALSE, approval |-> FALSE]
    BY <1>4 DEF RemoteContract
  <2>3. c \in Contracts
    BY <2>1, <2>2 DEF Contracts
  <2>4. c.side = side /\ c.cache = FALSE
    BY <2>2
  <2>5. h.destructive \in BOOLEAN /\ h.readOnly \in BOOLEAN
    BY DEF Hints, HintValues
  <2>6. /\ side >= READ
        /\ h.destructive => side = DESTRUCTIVE
        /\ side = READ => h.readOnly
    BY <2>5 DEF READ, EXTERNAL, DESTRUCTIVE
  <2> QED
    BY <1>4, <2>3, <2>4, <2>6 DEF Safety, AsStrictAs
<1>5. h.given \in BOOLEAN
  BY DEF Hints, HintValues
<1> QED
  BY <1>1, <1>2, <1>3, <1>4, <1>5 DEF SafetyFromAnnotations

(* Of several kept tools with one local name, one is the last.             *)
LEMMA LastIsKept ==
  ASSUME NEW keep \in KeepSets, NEW t \in Registered(keep)
  PROVE  LastNamed(keep, t) \in keep /\ LastNamed(keep, t) \in RemoteTools
<1> DEFINE m == Cardinality(RemoteTools)
           T == {n \in keep : ApplyName(n) = t}
<1>1. m \in Nat /\ RemoteTools = 1..m /\ keep \subseteq RemoteTools
  BY ClientAssumption, FS_CardinalityType
<1>2. T \in SUBSET (1..m) /\ T # {}
  BY <1>1 DEF Registered
<1> HIDE DEF m
<1>3. \E v \in T : \A w \in T : w <= v
  <2> HIDE DEF T
  <2>1. \A x \in 1..m : x \in 0 .. m
    BY <1>1
  <2>2. T \in SUBSET (0 .. m)
    BY <1>2, <2>1
  <2> QED
    BY <1>1, <1>2, <2>2, LargestOf
<1>4. \E n \in keep : ApplyName(n) = t /\ \A k \in keep : ApplyName(k) = t => k <= n
  BY <1>3
<1> QED
  BY <1>1, <1>4 DEF LastNamed

(* Whatever the server changes, a discovery adopts what the policy allows. *)
LEMMA ClientStep == ClientInv /\ [ClientNext]_clientVars => ClientInv'
<1> SUFFICES ASSUME ClientInv, [ClientNext]_clientVars PROVE ClientInv'
  OBVIOUS
<1>t. /\ remote \in [RemoteTools -> [schema : RemoteSchemas, output : BOOLEAN, hints : Hints]]
      /\ \A t \in LocalNames : catalog[t].safety \in Safety
  BY DEF ClientInv, ClientTyped
<1>h. HintSet \subseteq Hints
  BY ClientAssumption DEF Hints
<1>1. ASSUME NEW n \in RemoteTools, RemoteChange(n) PROVE ClientInv'
  <2>1. remote' \in [RemoteTools -> [schema : RemoteSchemas, output : BOOLEAN, hints : Hints]]
    BY <1>1, <1>t, <1>h DEF RemoteChange
  <2>2. UNCHANGED <<policy, pins, catalog, adopted>>
    BY <1>1 DEF RemoteChange
  <2> QED
    BY <2>1, <2>2 DEF ClientInv, ClientTyped, AdoptionIsGuarded
<1>2. ASSUME NEW keep \in KeepSets, DiscoverTools(keep) PROVE ClientInv'
  <2>1. CASE \E n \in keep : BuildFails(n)
    <3>1. UNCHANGED <<remote, policy, catalog, adopted>>
      BY <1>2, <2>1 DEF DiscoverTools
    <3> QED
      BY <3>1 DEF ClientInv, ClientTyped, AdoptionIsGuarded
  <2>2. CASE ~\E n \in keep : BuildFails(n)
    <3> DEFINE last(t) == LastNamed(keep, t)
    <3>1. /\ catalog' = [t \in LocalNames |->
                IF t \in Registered(keep) THEN BuildTool(last(t)) ELSE catalog[t]]
          /\ adopted' = [t \in LocalNames |->
                IF t \in Registered(keep)
                THEN [pin |-> pins[last(t)], hints |-> remote[last(t)].hints] ELSE adopted[t]]
          /\ UNCHANGED <<remote, policy>>
      BY <1>2, <2>2 DEF DiscoverTools
    <3> HIDE DEF last
    <3>2. ASSUME NEW t \in LocalNames, t \in Registered(keep)
          PROVE  /\ catalog'[t].safety \in Safety
                 /\ AsStrictAs(catalog'[t].safety, adopted'[t].hints)
                 /\ policy.drift = "error" /\ adopted'[t].pin # NoPin
                      => catalog'[t].schema = adopted'[t].pin
      <4> DEFINE n == last(t)
      <4>1. n \in keep /\ n \in RemoteTools
        BY <3>2, LastIsKept DEF last
      <4> HIDE DEF n
      <4>2. catalog'[t] = BuildTool(n) /\ adopted'[t] = [pin |-> pins[n], hints |-> remote[n].hints]
        BY <3>1, <3>2 DEF n
      <4>3. /\ catalog'[t].safety = SafetyFromAnnotations(remote[n].hints)
            /\ catalog'[t].schema = remote[n].schema
            /\ adopted'[t].pin = pins[n] /\ adopted'[t].hints = remote[n].hints
        BY <4>2 DEF BuildTool
      <4>4. remote[n].hints \in Hints
        BY <1>t, <4>1
      <4>5. policy.drift = "error" /\ pins[n] # NoPin => remote[n].schema = pins[n]
        BY <2>2, <4>1 DEF BuildFails, Drifted
      <4> QED
        BY <4>3, <4>4, <4>5, AnnotationsMean
    <3>3. ASSUME NEW t \in LocalNames, t \notin Registered(keep)
          PROVE  catalog'[t] = catalog[t] /\ adopted'[t] = adopted[t]
      BY <3>1, <3>3
    <3>4. ClientTyped'
      BY <1>t, <3>1, <3>2, <3>3 DEF ClientTyped
    <3>5. AdoptionIsGuarded'
      BY <3>1, <3>2, <3>3 DEF AdoptionIsGuarded, AsStrictAs, ClientInv
    <3> QED
      BY <3>4, <3>5 DEF ClientInv
  <2> QED
    BY <2>1, <2>2
<1>3. ASSUME BuildPinFile \/ UNCHANGED clientVars PROVE ClientInv'
  <2>1. UNCHANGED <<remote, policy, catalog, adopted>>
    BY <1>3 DEF BuildPinFile, clientVars
  <2> QED
    BY <2>1 DEF ClientInv, ClientTyped, AdoptionIsGuarded
<1> QED
  BY <1>1, <1>2, <1>3 DEF ClientNext

LEMMA ClientStarts == ClientInit => ClientInv
<1> SUFFICES ASSUME ClientInit PROVE ClientInv
  OBVIOUS
<1>1. NoHints \in Hints
  BY DEF Hints, HintValues, NoHints
<1>2. remote \in [RemoteTools -> [schema : RemoteSchemas, output : BOOLEAN, hints : Hints]]
  BY <1>1, ClientAssumption DEF ClientInit
<1>3. \A t \in LocalNames : catalog[t] = NoTool /\ catalog[t].safety \in Safety
  BY DEF ClientInit, NoTool, Safety
<1> QED
  BY <1>2, <1>3 DEF ClientInv, ClientTyped, AdoptionIsGuarded

(* Under on_drift="error" no pinned tool is adopted with another schema,   *)
(* and no contract is looser than the annotations it was derived from      *)
(* (discover_tools, build_pin_file, safety_from_annotations), whatever the *)
(* server does between two discoveries.                                    *)
THEOREM ClientAdopts == ClientSpec => []AdoptionIsGuarded
<1>1. ClientInv => AdoptionIsGuarded
  BY DEF ClientInv
<1> QED
  BY <1>1, ClientStarts, ClientStep, PTL DEF ClientSpec

-----------------------------------------------------------------------------
(* The rate limiter.                                                       *)

Ids == Callers \cup {"unknown", Anonymous}
Grant == Ids \X (0..MaxTicks)

(* The permits of gs that x was given between two ticks.                   *)
Given(gs, x, a, b) == {i \in DOMAIN gs : gs[i][1] = x /\ gs[i][2] \in a..b}
Permits(gs, x, a, b) == Cardinality(Given(gs, x, a, b))

Granted ==
  /\ ticks \in 0..MaxTicks /\ grants \in Seq(Grant)
  /\ \A i \in 1..Len(grants) : grants[i][2] <= ticks

(* An entry counts its window; the window before it gave its caller no     *)
(* more than the limit, and nothing was given after its end.               *)
Tracked ==
  /\ DOMAIN hits \subseteq Ids
  /\ \A x \in DOMAIN hits :
       /\ hits[x] = [start |-> hits[x].start, count |-> hits[x].count]
       /\ hits[x].start \in 0..ticks /\ hits[x].count \in 0..MaxCalls
       /\ hits[x].count = Permits(grants, x, hits[x].start, MaxTicks)
       /\ Permits(grants, x, hits[x].start - WindowTicks + 1, hits[x].start - 1) <= MaxCalls
       /\ Permits(grants, x, hits[x].start + WindowTicks, MaxTicks) = 0

(* A caller without an entry has none because its last window is over.     *)
Forgotten ==
  \A x \in Ids \ DOMAIN hits :
    /\ Permits(grants, x, ticks - WindowTicks + 1, MaxTicks) <= MaxCalls
    /\ Permits(grants, x, ticks, MaxTicks) = 0

Spans ==
  \A x \in Ids, s \in 0..MaxTicks :
    Permits(grants, x, s, s + WindowTicks - 1) <= 2 * MaxCalls

LimitInv == Granted /\ Tracked /\ Forgotten /\ Spans

(* Permits are finitely many, more in a longer time, and at most the sum   *)
(* of those of two times that cover it.                                    *)
LEMMA PermitsFinite ==
  ASSUME NEW gs \in Seq(Grant), NEW x, NEW a, NEW b
  PROVE  IsFiniteSet(Given(gs, x, a, b)) /\ Permits(gs, x, a, b) \in Nat
<1>0. Len(gs) \in Int /\ DOMAIN gs = 1..Len(gs)
  OBVIOUS
<1>1. IsFiniteSet(1..Len(gs)) /\ Given(gs, x, a, b) \subseteq 1..Len(gs)
  <2>1. IsFiniteSet(1..Len(gs))
    BY <1>0, FS_Interval
  <2>2. Given(gs, x, a, b) \subseteq 1..Len(gs)
    BY <1>0 DEF Given
  <2> QED
    BY <2>1, <2>2
<1> QED
  BY <1>1, FS_Subset, FS_CardinalityType DEF Permits

LEMMA PermitsGrow ==
  ASSUME NEW gs \in Seq(Grant), NEW x, NEW a, NEW b, NEW c, NEW d,
         \A i \in 1..Len(gs) : gs[i][2] \in a..b => gs[i][2] \in c..d
  PROVE  Permits(gs, x, a, b) <= Permits(gs, x, c, d)
<1>1. Given(gs, x, a, b) \subseteq Given(gs, x, c, d)
  BY DEF Given
<1> QED
  BY <1>1, PermitsFinite, FS_Subset DEF Permits

LEMMA PermitsSplit ==
  ASSUME NEW gs \in Seq(Grant), NEW x, NEW a \in Int, NEW b \in Int, NEW m \in Int
  PROVE  Permits(gs, x, a, b) <= Permits(gs, x, a, m - 1) + Permits(gs, x, m, b)
<1> DEFINE A == Given(gs, x, a, m - 1)
           B == Given(gs, x, m, b)
           C == Given(gs, x, a, b)
<1>1. C \subseteq A \cup B
  <2>1. \A i \in DOMAIN gs : gs[i][2] \in Int
    BY DEF Grant
  <2> QED
    BY <2>1 DEF Given
<1>2. IsFiniteSet(A) /\ IsFiniteSet(B) /\ IsFiniteSet(A \cup B)
  BY PermitsFinite, FS_Union
<1>f. IsFiniteSet(A \cap B)
  BY <1>2, FS_Intersection
<1>3. Cardinality(C) <= Cardinality(A \cup B)
  BY <1>1, <1>2, FS_Subset
<1>4. Cardinality(A \cup B) = Cardinality(A) + Cardinality(B) - Cardinality(A \cap B)
  BY <1>2, FS_Union
<1>5. /\ Cardinality(A) \in Nat /\ Cardinality(B) \in Nat /\ Cardinality(A \cap B) \in Nat
      /\ Cardinality(A \cup B) \in Nat /\ Cardinality(C) \in Nat
  BY <1>2, <1>f, PermitsFinite, FS_CardinalityType DEF Permits
<1> HIDE DEF A, B, C
<1>6. Cardinality(C) <= Cardinality(A) + Cardinality(B)
  BY <1>3, <1>4, <1>5
<1> QED
  BY <1>6 DEF A, B, C, Permits

(* One more permit.                                                        *)
LEMMA PermitsAppend ==
  ASSUME NEW gs \in Seq(Grant), NEW y \in Ids, NEW t \in 0..MaxTicks,
         NEW x, NEW a \in Int, NEW b \in Int
  PROVE  Permits(Append(gs, <<y, t>>), x, a, b) =
           IF x = y /\ t \in a..b THEN Permits(gs, x, a, b) + 1 ELSE Permits(gs, x, a, b)
<1> DEFINE g == <<y, t>>
           new == Append(gs, g)
           n == Len(gs) + 1
<1>1. g \in Grant /\ g[1] = y /\ g[2] = t
  BY DEF Grant
<1> HIDE DEF g
<1>2. /\ new \in Seq(Grant) /\ DOMAIN new = 1..n /\ DOMAIN gs = 1..Len(gs) /\ Len(gs) \in Nat
      /\ \A i \in 1..Len(gs) : new[i] = gs[i]
      /\ new[n] = g
  BY <1>1
<1> HIDE DEF new
<1>3. CASE x = y /\ t \in a..b
  <2>1. Given(new, x, a, b) = Given(gs, x, a, b) \cup {n} /\ n \notin Given(gs, x, a, b)
    BY <1>1, <1>2, <1>3 DEF Given
  <2>2. Permits(new, x, a, b) = Permits(gs, x, a, b) + 1
    BY <2>1, PermitsFinite, FS_AddElement DEF Permits
  <2> QED
    BY <1>3, <2>2 DEF new, g
<1>4. CASE ~(x = y /\ t \in a..b)
  <2>1. Given(new, x, a, b) = Given(gs, x, a, b)
    BY <1>1, <1>2, <1>4 DEF Given
  <2> QED
    BY <1>4, <2>1 DEF Permits, new, g
<1> QED
  BY <1>3, <1>4

(* The window a caller's next call is counted in.                          *)
LEMMA WindowMeans ==
  ASSUME LimitInv, NEW x \in Ids
  PROVE  /\ WindowOf(x) = [start |-> WindowOf(x).start, count |-> WindowOf(x).count]
         /\ WindowOf(x).start \in 0..ticks /\ ticks < WindowOf(x).start + WindowTicks
         /\ WindowOf(x).count \in 0..MaxCalls
         /\ WindowOf(x).count = Permits(grants, x, WindowOf(x).start, MaxTicks)
         /\ Permits(grants, x, WindowOf(x).start - WindowTicks + 1, WindowOf(x).start - 1)
              <= MaxCalls
<1>c. /\ MaxCalls \in Nat \ {0} /\ WindowTicks \in Nat \ {0} /\ MaxTicks \in Nat
      /\ ticks \in 0..MaxTicks /\ grants \in Seq(Grant)
      /\ \A i \in 1..Len(grants) : grants[i][2] <= ticks
  BY ServerAssumption DEF LimitInv, Granted
<1>i. \A i \in 1..Len(grants) : grants[i][2] \in 0..MaxTicks
  BY <1>c DEF Grant
<1>1. CASE x \in DOMAIN hits /\ ~Expired(hits[x])
  <2>1. WindowOf(x) = hits[x]
    BY <1>1 DEF WindowOf
  <2>2. ticks - hits[x].start < WindowTicks
    <3>1. hits[x].start \in 0..ticks
      BY <1>1 DEF LimitInv, Tracked
    <3> QED
      BY <1>c, <1>1, <3>1 DEF Expired
  <2>3. /\ hits[x] = [start |-> hits[x].start, count |-> hits[x].count]
        /\ hits[x].start \in 0..ticks /\ hits[x].count \in 0..MaxCalls
        /\ hits[x].count = Permits(grants, x, hits[x].start, MaxTicks)
        /\ Permits(grants, x, hits[x].start - WindowTicks + 1, hits[x].start - 1) <= MaxCalls
    BY <1>1 DEF LimitInv, Tracked
  <2>4. ticks < hits[x].start + WindowTicks
    BY <1>c, <2>2, <2>3
  <2> QED
    BY <2>1, <2>3, <2>4
<1>2. CASE x \notin DOMAIN hits \/ Expired(hits[x])
  <2>1. WindowOf(x) = [start |-> ticks, count |-> 0]
    BY <1>2 DEF WindowOf
  <2>2. Permits(grants, x, ticks, MaxTicks) = 0
        /\ Permits(grants, x, ticks - WindowTicks + 1, ticks - 1) <= MaxCalls
    <3>1. CASE x \notin DOMAIN hits
      <4>1. /\ Permits(grants, x, ticks - WindowTicks + 1, MaxTicks) <= MaxCalls
            /\ Permits(grants, x, ticks, MaxTicks) = 0
        BY <3>1 DEF LimitInv, Forgotten
      <4>2. Permits(grants, x, ticks - WindowTicks + 1, ticks - 1) <=
              Permits(grants, x, ticks - WindowTicks + 1, MaxTicks)
        <5>1. \A i \in 1..Len(grants) : grants[i][2] \in (ticks - WindowTicks + 1)..(ticks - 1)
                => grants[i][2] \in (ticks - WindowTicks + 1)..MaxTicks
          BY <1>c, <1>i
        <5> QED
          BY <1>c, <5>1, PermitsGrow
      <4> QED
        BY <1>c, <4>1, <4>2, PermitsFinite
    <3>2. CASE x \in DOMAIN hits /\ Expired(hits[x])
      <4> DEFINE s == hits[x].start
      <4>1. /\ s \in 0..ticks /\ hits[x].count \in 0..MaxCalls
            /\ hits[x].count = Permits(grants, x, s, MaxTicks)
            /\ Permits(grants, x, s + WindowTicks, MaxTicks) = 0
        BY <3>2 DEF LimitInv, Tracked
      <4>2. ticks - s >= WindowTicks
        BY <3>2 DEF Expired
      <4> HIDE DEF s
      <4>3. Permits(grants, x, ticks, MaxTicks) <= Permits(grants, x, s + WindowTicks, MaxTicks)
        <5>1. \A i \in 1..Len(grants) : grants[i][2] \in ticks..MaxTicks
                => grants[i][2] \in (s + WindowTicks)..MaxTicks
          BY <1>c, <1>i, <4>1, <4>2, SMTT(60)
        <5> QED
          BY <1>c, <5>1, PermitsGrow
      <4>4. Permits(grants, x, ticks - WindowTicks + 1, ticks - 1) <= Permits(grants, x, s, MaxTicks)
        <5>1. \A i \in 1..Len(grants) : grants[i][2] \in (ticks - WindowTicks + 1)..(ticks - 1)
                => grants[i][2] \in s..MaxTicks
          BY <1>c, <1>i, <4>1, <4>2, SMTT(60)
        <5> QED
          BY <1>c, <5>1, PermitsGrow
      <4>5. /\ Permits(grants, x, ticks, MaxTicks) \in Nat
            /\ Permits(grants, x, ticks - WindowTicks + 1, ticks - 1) \in Nat
        BY <1>c, PermitsFinite
      <4> QED
        BY <1>c, <4>1, <4>3, <4>4, <4>5
    <3> QED
      BY <1>2, <3>1, <3>2
  <2>3. ticks \in 0..ticks /\ ticks < ticks + WindowTicks /\ 0 \in 0..MaxCalls
    BY <1>c
  <2> QED
    BY <2>1, <2>2, <2>3
<1> QED
  BY <1>1, <1>2

(* A call whose rate is checked keeps the invariant: permitted, it joins   *)
(* its caller's window, and a span of one window length that contains it   *)
(* meets that window and the one before it only; entries swept are over.   *)
LEMMA AcquireStep ==
  ASSUME LimitInv, NEW id \in Ids, hits' = Acquired(id), ticks' = ticks,
         grants' = IF Permitted(id) THEN Append(grants, <<id, ticks>>) ELSE grants
  PROVE  LimitInv'
<1>c. /\ MaxCalls \in Nat \ {0} /\ WindowTicks \in Nat \ {0} /\ MaxTicks \in Nat
      /\ ticks \in 0..MaxTicks /\ grants \in Seq(Grant) /\ ticks \in Int
      /\ \A i \in 1..Len(grants) : grants[i][2] <= ticks
  BY ServerAssumption DEF LimitInv, Granted
<1>i. \A i \in 1..Len(grants) : grants[i][2] \in 0..MaxTicks
  BY <1>c DEF Grant
<1> DEFINE w == WindowOf(id)
           W == WindowTicks
<1>w. /\ w = [start |-> w.start, count |-> w.count]
      /\ w.start \in 0..ticks /\ ticks < w.start + W
      /\ w.count \in 0..MaxCalls
      /\ w.count = Permits(grants, id, w.start, MaxTicks)
      /\ Permits(grants, id, w.start - W + 1, w.start - 1) <= MaxCalls
  BY WindowMeans
<1>p. Permitted(id) <=> w.count < MaxCalls
  BY DEF Permitted
<1> HIDE DEF w
<1>1. CASE ~Permitted(id)
  <2>1. id \in DOMAIN hits /\ w = hits[id]
    BY <1>c, <1>1, <1>p DEF WindowOf, w
  <2>2. hits' = [k \in DOMAIN hits \cup {id} |-> IF k # id THEN hits[k] ELSE w]
    BY <1>1 DEF Acquired, w
  <2>3. DOMAIN hits' = DOMAIN hits /\ \A k \in DOMAIN hits : hits'[k] = hits[k]
    BY <2>1, <2>2
  <2>4. grants' = grants /\ ticks' = ticks
    BY <1>1
  <2> QED
    BY <2>3, <2>4 DEF LimitInv, Granted, Tracked, Forgotten, Spans
<1>2. CASE Permitted(id)
  <2> DEFINE left == DOMAIN hits' \ {id}
             new == Append(grants, <<id, ticks>>)
             h == [start |-> w.start, count |-> w.count + 1]
  <2>1. /\ id \in DOMAIN hits' /\ hits'[id] = [w EXCEPT !.count = @ + 1]
        /\ \A k \in left : k \in DOMAIN hits /\ hits'[k] = hits[k]
        /\ \A k \in DOMAIN hits \ DOMAIN hits' : Expired(hits[k])
    BY <1>2 DEF Acquired, EvictExpired, w
  <2>h. hits'[id] = h
    BY <1>w, <2>1
  <2>2. grants' = new
    BY <1>2
  <2> HIDE DEF left
  <2>3. \A x : \A a, b \in Int :
          Permits(grants', x, a, b) =
            IF x = id /\ ticks \in a..b THEN Permits(grants, x, a, b) + 1 ELSE Permits(grants, x, a, b)
    BY <1>c, <2>2, PermitsAppend
  <2>4. /\ grants' \in Seq(Grant)
        /\ \A i \in 1..Len(grants') : grants'[i][2] <= ticks
        /\ \A i \in 1..Len(grants') : grants'[i][2] \in 0..MaxTicks
    <3> DEFINE g == <<id, ticks>>
    <3>1. g \in Grant /\ g[2] = ticks
      BY <1>c DEF Grant
    <3> HIDE DEF g
    <3>2. /\ grants' \in Seq(Grant) /\ Len(grants') = Len(grants) + 1 /\ Len(grants) \in Nat
          /\ \A i \in 1..Len(grants) : grants'[i] = grants[i]
          /\ grants'[Len(grants) + 1] = g
      BY <1>c, <2>2, <3>1 DEF g
    <3>3. \A i \in 1..Len(grants') : grants'[i][2] <= ticks
      BY <1>c, <3>1, <3>2
    <3>4. \A i \in 1..Len(grants') : grants'[i] \in Grant
      BY <3>2
    <3> QED
      BY <3>2, <3>3, <3>4 DEF Grant
  <2>5. Granted'
    BY <1>c, <2>4 DEF Granted
  <2>6. /\ h.start = w.start /\ h.count = w.count + 1 /\ h.count \in 0..MaxCalls
        /\ h.count = Permits(grants', id, w.start, MaxTicks)
        /\ Permits(grants', id, w.start - W + 1, w.start - 1) <= MaxCalls
        /\ Permits(grants', id, w.start + W, MaxTicks) = 0
    <3>1. h.start = w.start /\ h.count = w.count + 1 /\ h.count \in 0..MaxCalls
      BY <1>c, <1>w, <1>p, <1>2
    <3>2. Permits(grants', id, w.start, MaxTicks) = Permits(grants, id, w.start, MaxTicks) + 1
      <4>1. w.start \in Int /\ MaxTicks \in Int /\ ticks \in w.start..MaxTicks
        BY <1>c, <1>w
      <4> QED
        BY <2>3, <4>1
    <3>3. Permits(grants', id, w.start - W + 1, w.start - 1)
            = Permits(grants, id, w.start - W + 1, w.start - 1)
      <4>1. ticks \notin (w.start - W + 1)..(w.start - 1)
            /\ w.start - W + 1 \in Int /\ w.start - 1 \in Int
        BY <1>c, <1>w, SMTT(60)
      <4> QED
        BY <2>3, <4>1
    <3>4. Permits(grants', id, w.start + W, MaxTicks) = 0
      <4>1. \A i \in 1..Len(grants') : grants'[i][2] \notin (w.start + W)..MaxTicks
        BY <1>c, <1>w, <2>4, SMTT(60)
      <4>2. Given(grants', id, w.start + W, MaxTicks) = {}
        BY <2>4, <4>1 DEF Given
      <4> QED
        BY <4>2, FS_EmptySet DEF Permits
    <3> QED
      BY <1>w, <3>1, <3>2, <3>3, <3>4
  <2>7. Tracked'
    <3>1. DOMAIN hits' \subseteq Ids
      BY <2>1 DEF LimitInv, Tracked, left
    <3>2. ASSUME NEW x \in left
          PROVE  /\ hits'[x] = [start |-> hits'[x].start, count |-> hits'[x].count]
                 /\ hits'[x].start \in 0..ticks' /\ hits'[x].count \in 0..MaxCalls
                 /\ hits'[x].count = Permits(grants', x, hits'[x].start, MaxTicks)
                 /\ Permits(grants', x, hits'[x].start - W + 1, hits'[x].start - 1) <= MaxCalls
                 /\ Permits(grants', x, hits'[x].start + W, MaxTicks) = 0
      <4>1. hits'[x] = hits[x] /\ x \in DOMAIN hits /\ x # id
        BY <2>1, <3>2 DEF left
      <4> DEFINE s == hits[x].start
      <4>2. /\ hits[x] = [start |-> s, count |-> hits[x].count]
            /\ s \in 0..ticks /\ hits[x].count \in 0..MaxCalls
            /\ hits[x].count = Permits(grants, x, s, MaxTicks)
            /\ Permits(grants, x, s - W + 1, s - 1) <= MaxCalls
            /\ Permits(grants, x, s + W, MaxTicks) = 0
        BY <4>1 DEF LimitInv, Tracked
      <4> HIDE DEF s
      <4>3. s \in Int /\ s - 1 \in Int /\ s - W + 1 \in Int /\ s + W \in Int /\ MaxTicks \in Int
        BY <1>c, <4>2
      <4>4. \A a, b \in Int : Permits(grants', x, a, b) = Permits(grants, x, a, b)
        BY <2>3, <4>1
      <4>5. /\ Permits(grants', x, s, MaxTicks) = Permits(grants, x, s, MaxTicks)
            /\ Permits(grants', x, s - W + 1, s - 1) = Permits(grants, x, s - W + 1, s - 1)
            /\ Permits(grants', x, s + W, MaxTicks) = Permits(grants, x, s + W, MaxTicks)
        BY <4>3, <4>4, Zenon
      <4>6. s \in 0..ticks'
        BY <1>c, <2>h, <4>2
      <4>7. hits'[x].start = s
        BY <4>1 DEF s
      <4> QED
        BY <4>1, <4>2, <4>5, <4>6, <4>7, Zenon
    <3>3. /\ hits'[id] = [start |-> hits'[id].start, count |-> hits'[id].count]
          /\ hits'[id].start \in 0..ticks' /\ hits'[id].count \in 0..MaxCalls
          /\ hits'[id].count = Permits(grants', id, hits'[id].start, MaxTicks)
          /\ Permits(grants', id, hits'[id].start - W + 1, hits'[id].start - 1) <= MaxCalls
          /\ Permits(grants', id, hits'[id].start + W, MaxTicks) = 0
      BY <1>w, <2>h, <2>6
    <3> QED
      BY <3>1, <3>2, <3>3 DEF Tracked, left
  <2>8. Forgotten'
    <3> SUFFICES ASSUME NEW x \in Ids, x \notin DOMAIN hits'
                 PROVE  /\ Permits(grants', x, ticks' - W + 1, MaxTicks) <= MaxCalls
                        /\ Permits(grants', x, ticks', MaxTicks) = 0
      BY DEF Forgotten
    <3>0. x # id
      BY <2>1
    <3>n. ticks - W + 1 \in Int /\ MaxTicks \in Int
      BY <1>c
    <3>e. /\ Permits(grants', x, ticks' - W + 1, MaxTicks) = Permits(grants, x, ticks - W + 1, MaxTicks)
          /\ Permits(grants', x, ticks', MaxTicks) = Permits(grants, x, ticks, MaxTicks)
      BY <1>c, <2>3, <3>0, <3>n
    <3>1. CASE x \notin DOMAIN hits
      BY <3>1, <3>e DEF LimitInv, Forgotten
    <3>2. CASE x \in DOMAIN hits
      <4> DEFINE s == hits[x].start
      <4>1. /\ s \in 0..ticks /\ hits[x].count \in 0..MaxCalls
            /\ hits[x].count = Permits(grants, x, s, MaxTicks)
            /\ Permits(grants, x, s + W, MaxTicks) = 0
        BY <3>2 DEF LimitInv, Tracked
      <4>2. ticks - s >= W
        BY <2>1, <3>2 DEF Expired
      <4> HIDE DEF s
      <4>3. Permits(grants, x, ticks, MaxTicks) <= Permits(grants, x, s + W, MaxTicks)
        <5>1. \A i \in 1..Len(grants) : grants[i][2] \in ticks..MaxTicks
                => grants[i][2] \in (s + W)..MaxTicks
          BY <1>c, <1>i, <4>1, <4>2, SMTT(60)
        <5> QED
          BY <1>c, <5>1, PermitsGrow
      <4>4. Permits(grants, x, ticks - W + 1, MaxTicks) <= Permits(grants, x, s, MaxTicks)
        <5>1. \A i \in 1..Len(grants) : grants[i][2] \in (ticks - W + 1)..MaxTicks
                => grants[i][2] \in s..MaxTicks
          BY <1>c, <1>i, <4>1, <4>2, SMTT(60)
        <5> QED
          BY <1>c, <5>1, PermitsGrow
      <4>5. /\ Permits(grants, x, ticks, MaxTicks) \in Nat
            /\ Permits(grants, x, ticks - W + 1, MaxTicks) \in Nat
        BY <1>c, PermitsFinite
      <4> QED
        BY <1>c, <4>1, <4>3, <4>4, <4>5, <3>e
    <3> QED
      BY <3>1, <3>2
  <2>9. Spans'
    <3> SUFFICES ASSUME NEW x \in Ids, NEW s \in 0..MaxTicks
                 PROVE  Permits(grants', x, s, s + W - 1) <= 2 * MaxCalls
      BY DEF Spans
    <3>0. s \in Int /\ s + W - 1 \in Int
      BY <1>c
    <3>1. CASE ~(x = id /\ ticks \in s..(s + W - 1))
      <4>1. Permits(grants', x, s, s + W - 1) = Permits(grants, x, s, s + W - 1)
        BY <2>3, <3>0, <3>1
      <4> QED
        BY <4>1 DEF LimitInv, Spans
    <3>2. CASE x = id /\ ticks \in s..(s + W - 1)
      <4>1. s >= w.start - W + 1
        BY <1>c, <1>w, <3>2
      <4>2. Permits(grants', id, s, s + W - 1) <=
              Permits(grants', id, s, w.start - 1) + Permits(grants', id, w.start, s + W - 1)
        <5>1. w.start \in Int
          BY <1>w
        <5> QED
          BY <3>0, <5>1, <2>4, PermitsSplit
      <4>3. Permits(grants', id, s, w.start - 1) <=
              Permits(grants', id, w.start - W + 1, w.start - 1)
        <5>1. \A i \in 1..Len(grants') : grants'[i][2] \in s..(w.start - 1)
                => grants'[i][2] \in (w.start - W + 1)..(w.start - 1)
          BY <1>c, <1>w, <2>4, <4>1, SMTT(60)
        <5> QED
          BY <2>4, <5>1, PermitsGrow
      <4>4. Permits(grants', id, w.start, s + W - 1) <= Permits(grants', id, w.start, MaxTicks)
        <5>1. \A i \in 1..Len(grants') : grants'[i][2] \in w.start..(s + W - 1)
                => grants'[i][2] \in w.start..MaxTicks
          <6>1. \A i \in 1..Len(grants') : grants'[i][2] \in 0..MaxTicks
            BY <2>4
          <6>2. w.start \in Int /\ MaxTicks \in Int
            BY <1>c, <1>w
          <6> QED
            BY <6>1, <6>2
        <5> QED
          BY <2>4, <5>1, PermitsGrow
      <4>5. /\ Permits(grants', id, s, s + W - 1) \in Nat
            /\ Permits(grants', id, s, w.start - 1) \in Nat
            /\ Permits(grants', id, w.start, s + W - 1) \in Nat
            /\ Permits(grants', id, w.start - W + 1, w.start - 1) \in Nat
            /\ Permits(grants', id, w.start, MaxTicks) \in Nat
        BY <2>4, PermitsFinite
      <4>6. /\ Permits(grants', id, w.start, MaxTicks) <= MaxCalls
            /\ Permits(grants', id, w.start - W + 1, w.start - 1) <= MaxCalls
        BY <1>c, <2>6
      <4>7. Permits(grants', id, s, s + W - 1) <= 2 * MaxCalls
        BY <1>c, <4>2, <4>3, <4>4, <4>5, <4>6
      <4> QED
        BY <3>2, <4>7
    <3> QED
      BY <3>1, <3>2
  <2> QED
    BY <2>5, <2>7, <2>8, <2>9 DEF LimitInv
<1> QED
  BY <1>1, <1>2

LEMMA TickStep ==
  ASSUME LimitInv, ticks < MaxTicks, ticks' = ticks + 1, UNCHANGED <<hits, grants>>
  PROVE  LimitInv'
<1>c. /\ WindowTicks \in Nat \ {0} /\ MaxTicks \in Nat /\ MaxCalls \in Nat
      /\ ticks \in 0..MaxTicks /\ grants \in Seq(Grant)
      /\ \A i \in 1..Len(grants) : grants[i][2] <= ticks
  BY ServerAssumption DEF LimitInv, Granted
<1>i. \A i \in 1..Len(grants) : grants[i][2] \in 0..MaxTicks
  BY <1>c DEF Grant
<1>1. Granted'
  BY <1>c, <1>i DEF Granted
<1>2. Tracked'
  <2>1. \A x \in DOMAIN hits : hits[x].start \in 0..(ticks + 1)
    BY <1>c DEF LimitInv, Tracked
  <2> QED
    BY <2>1 DEF LimitInv, Tracked
<1>3. Forgotten'
  <2> SUFFICES ASSUME NEW x \in Ids, x \notin DOMAIN hits'
               PROVE  /\ Permits(grants', x, ticks' - WindowTicks + 1, MaxTicks) <= MaxCalls
                      /\ Permits(grants', x, ticks', MaxTicks) = 0
    BY DEF Forgotten
  <2>0. hits' = hits /\ grants' = grants /\ ticks' = ticks + 1
    OBVIOUS
  <2>1. /\ Permits(grants, x, ticks - WindowTicks + 1, MaxTicks) <= MaxCalls
        /\ Permits(grants, x, ticks, MaxTicks) = 0
    BY DEF LimitInv, Forgotten
  <2>2. Permits(grants, x, ticks + 1 - WindowTicks + 1, MaxTicks) <=
          Permits(grants, x, ticks - WindowTicks + 1, MaxTicks)
    <3>1. \A i \in 1..Len(grants) : grants[i][2] \in (ticks + 1 - WindowTicks + 1)..MaxTicks
            => grants[i][2] \in (ticks - WindowTicks + 1)..MaxTicks
      BY <1>c, <1>i
    <3> QED
      BY <1>c, <3>1, PermitsGrow
  <2>3. Permits(grants, x, ticks + 1, MaxTicks) <= Permits(grants, x, ticks, MaxTicks)
    <3>1. \A i \in 1..Len(grants) : grants[i][2] \in (ticks + 1)..MaxTicks
            => grants[i][2] \in ticks..MaxTicks
      BY <1>c, <1>i
    <3> QED
      BY <1>c, <3>1, PermitsGrow
  <2>4. /\ Permits(grants, x, ticks + 1, MaxTicks) \in Nat
        /\ Permits(grants, x, ticks + 1 - WindowTicks + 1, MaxTicks) \in Nat
        /\ Permits(grants, x, ticks - WindowTicks + 1, MaxTicks) \in Nat
    BY <1>c, PermitsFinite
  <2> QED
    BY <1>c, <2>0, <2>1, <2>2, <2>3, <2>4
<1>4. Spans'
  BY DEF LimitInv, Spans
<1> QED
  BY <1>1, <1>2, <1>3, <1>4 DEF LimitInv

LEMMA LimitStep == LimitInv /\ [ServerNext]_serverVars => LimitInv'
<1> SUFFICES ASSUME LimitInv, [ServerNext]_serverVars PROVE LimitInv'
  OBVIOUS
<1>1. ASSUME UNCHANGED <<ticks, hits, grants>> PROVE LimitInv'
  BY <1>1 DEF LimitInv, Granted, Tracked, Forgotten, Spans
<1>2. ASSUME NEW c \in ServerCalls, NEW a \in Apps, NEW who \in Callers \cup {"unknown"},
             NEW verdict \in {"allow", "deny"}, NEW valid \in BOOLEAN,
             Dispatch(c, a, who, verdict, valid)
      PROVE  LimitInv'
  <2> DEFINE id == IF server.cfg.authn THEN who ELSE Anonymous
  <2>1. id \in Ids
    BY DEF Ids
  <2>2. \/ UNCHANGED <<hits, grants>>
        \/ /\ hits' = Acquired(id)
           /\ grants' = IF Permitted(id) THEN Append(grants, <<id, ticks>>) ELSE grants
    BY <1>2 DEF Dispatch
  <2>3. ticks' = ticks
    BY <1>2 DEF Dispatch
  <2> HIDE DEF id
  <2> QED
    BY <1>1, <2>1, <2>2, <2>3, AcquireStep
<1>3. ASSUME Tick PROVE LimitInv'
  BY <1>3, TickStep DEF Tick
<1>4. ASSUME \/ Client
             \/ \E cfg \in ServerConfigs : Construct(cfg)
             \/ \E net \in BOOLEAN : Serve(net)
             \/ Stop
             \/ \E c \in ServerCalls, k \in RemoteReplies, valid \in BOOLEAN : Finish(c, k, valid)
             \/ UNCHANGED serverVars
      PROVE  LimitInv'
  BY <1>1, <1>4 DEF Client, Construct, Serve, Stop, Finish, serverVars
<1> QED
  BY <1>2, <1>3, <1>4 DEF ServerNext

LEMMA LimitStarts == ServerInit => LimitInv
<1> SUFFICES ASSUME ServerInit PROVE LimitInv
  OBVIOUS
<1>c. WindowTicks \in Nat \ {0} /\ MaxTicks \in Nat /\ MaxCalls \in Nat
  BY ServerAssumption
<1>1. /\ ticks = 0 /\ hits = <<>> /\ DOMAIN hits = {} /\ grants = <<>> /\ Len(grants) = 0
      /\ DOMAIN grants = {}
  BY DEF ServerInit
<1>2. \A x, a, b : Permits(grants, x, a, b) = 0
  BY <1>1, FS_EmptySet DEF Permits, Given
<1>3. Granted
  BY <1>c, <1>1 DEF Granted
<1> QED
  BY <1>c, <1>1, <1>2, <1>3 DEF LimitInv, Tracked, Forgotten, Spans

LEMMA LimitMeans == LimitInv => WindowLimit
<1> SUFFICES ASSUME LimitInv, NEW id \in DOMAIN hits
             PROVE  /\ hits[id].count = Permits(grants, id, hits[id].start, MaxTicks)
                    /\ hits[id].count <= MaxCalls
                    /\ \A s \in 0..MaxTicks :
                         Permits(grants, id, s, s + WindowTicks - 1) <= 2 * MaxCalls
  BY Zenon DEF WindowLimit, Permits, Given
<1> QED
  BY ServerAssumption DEF LimitInv, Tracked, Spans

-----------------------------------------------------------------------------
(* The calls.                                                              *)

Constructed == server.phase \in {"built", "serving", "stopped"}

Shaped ==
  /\ server = [phase |-> server.phase, cfg |-> server.cfg, detail |-> server.detail,
               net |-> server.net]
  /\ calls = [c \in ServerCalls |->
       [pc |-> calls[c].pc, app |-> calls[c].app, trail |-> calls[c].trail,
        sides |-> calls[c].sides, fresh |-> calls[c].fresh, net |-> calls[c].net,
        reply |-> calls[c].reply]]

(* Before the server is built nothing is exposed and nobody has called.    *)
BuiltFirst ==
  /\ Constructed => server.cfg \in ServerConfigs
  /\ ~Constructed => /\ \A a \in Apps : exposed[a] = NotExposed
                     /\ \A c \in ServerCalls : calls[c] = NoCall
  /\ \A a \in Apps : exposed[a] \in Safety \cup {NotExposed}

(* A step of a flow that was let in for its tools stays below a level that *)
(* the server allows.                                                      *)
ExposedWithin ==
  Constructed /\ ~Forced(server.cfg) =>
    \A a \in Apps : exposed[a] # NotExposed /\ AppInfo[a].declared = UnknownSafety =>
      \A t \in AppInfo[a].tools :
        \E l \in Resolve(server.cfg, "sides") : built[t].safety.side <= l

(* On a network the gate hides the error text nobody asked for.            *)
ModeTightened ==
  Constructed /\ server.net /\ server.cfg.detail = Unset /\ server.cfg.profile = Unset
    => gateMode # "full"

Sound(call) ==
  /\ call.app \in Apps /\ exposed[call.app] # NotExposed
  /\ call.trail = Cleared(server.cfg)
  /\ /\ ~Forced(server.cfg) /\ call.fresh
     /\ AppInfo[call.app].declared = UnknownSafety
     => \A side \in call.sides : \E l \in Resolve(server.cfg, "sides") : side <= l
  /\ call.reply = "full" /\ call.net => {server.cfg.detail, server.cfg.profile} # {Unset}

CallInv ==
  \A c \in ServerCalls :
    /\ calls[c].pc # "done" => calls[c].reply = "none" /\ calls[c].sides = {}
    /\ Ran(c) => Constructed /\ Sound(calls[c])

ServerInv == ClientInv /\ Shaped /\ BuiltFirst /\ ExposedWithin /\ ModeTightened /\ CallInv

(* What the gate let through without a deny, it cleared with every hook.   *)
LEMMA ClearedUnlessDenied ==
  ASSUME NEW cfg \in ServerConfigs, NEW id, NEW verdict, ~Denied(Trail(cfg, id, verdict))
  PROVE  Trail(cfg, id, verdict) = Cleared(cfg)
<1> DEFINE known == Authenticate(cfg, id)
           rate == known /\ RateLimit(cfg, id)
           allowed == Authorize(cfg, verdict)
           A == Emit(cfg.authn, "authenticate", known)
           B == Emit(known /\ cfg.limiter, "rate_limit", rate)
           C == Emit(rate /\ cfg.authz, "authorize", allowed)
<1>b. cfg.authn \in BOOLEAN /\ cfg.limiter \in BOOLEAN /\ cfg.authz \in BOOLEAN
  BY ServerAssumption
<1>1. Trail(cfg, id, verdict) = (A \o B) \o C
  BY Zenon DEF Trail
<1>2. CASE ~known
  <2>1. cfg.authn = TRUE
    BY <1>b, <1>2 DEF Authenticate
  <2>2. A = <<<<"authenticate", "deny">>>> /\ B = <<>> /\ C = <<>>
    BY <1>2, <2>1 DEF Emit
  <2> HIDE DEF A, B, C
  <2>3. (A \o B) \o C = <<<<"authenticate", "deny">>>>
    BY <2>2
  <2>4. Denied((A \o B) \o C)
    BY <2>3 DEF Denied
  <2> QED
    BY <1>1, <2>4
<1>3. CASE known /\ ~rate
  <2>1. cfg.limiter = TRUE
    BY <1>b, <1>3 DEF RateLimit
  <2>2. B = <<<<"rate_limit", "deny">>>> /\ C = <<>>
    BY <1>3, <2>1 DEF Emit
  <2>3. A \in {<<>>, <<<<"authenticate", "allow">>>>}
    BY <1>3 DEF Emit
  <2>4. Denied((A \o B) \o C)
    BY <2>2, <2>3 DEF Denied
  <2> QED
    BY <1>1, <2>4
<1>4. CASE known /\ rate /\ ~allowed
  <2>1. cfg.authz = TRUE
    BY <1>b, <1>4 DEF Authorize
  <2>2. C = <<<<"authorize", "deny">>>>
    BY <1>4, <2>1 DEF Emit
  <2>3. /\ A \in {<<>>, <<<<"authenticate", "allow">>>>}
        /\ B \in {<<>>, <<<<"rate_limit", "allow">>>>}
    BY <1>4 DEF Emit
  <2>4. Denied((A \o B) \o C)
    BY <2>2, <2>3 DEF Denied
  <2> QED
    BY <1>1, <2>4
<1>5. CASE known /\ rate /\ allowed
  <2>1. /\ A = Emit(cfg.authn, "authenticate", TRUE)
        /\ B = Emit(cfg.limiter, "rate_limit", TRUE)
        /\ C = Emit(cfg.authz, "authorize", TRUE)
    BY <1>b, <1>5 DEF Emit
  <2> QED
    BY <1>1, <2>1 DEF Cleared
<1> QED
  BY <1>2, <1>3, <1>4, <1>5

(* A client that reads the hints a flow is published with files it under a *)
(* contract no looser than the flow's.                                     *)
LEMMA HintsRoundTrip ==
  ASSUME NEW s \in Safety, policy.trust # "ignore"
  PROVE  LET read == SafetyFromAnnotations(ToolAnnotations(s))
         IN  read.side >= s.side /\ (read.idem => s.idem)
<1> DEFINE h == ToolAnnotations(s)
           side == IF h.destructive THEN DESTRUCTIVE ELSE IF h.readOnly THEN READ ELSE EXTERNAL
           read == SafetyFromAnnotations(h)
<1>1. h.given = TRUE /\ h.idem \in {"yes", "no"}
  BY DEF ToolAnnotations
<1>2. read = RemoteContract(side, h.idem = "yes")
  BY <1>1 DEF SafetyFromAnnotations
<1>3. read.side = side /\ read.idem = (h.idem = "yes")
  BY <1>2 DEF RemoteContract
<1>4. CASE s = UnknownSafety
  <2>1. h.destructive = TRUE /\ h.idem = "no"
    BY <1>4 DEF ToolAnnotations
  <2>2. s.side = -1
    BY <1>4 DEF UnknownSafety
  <2>3. side = 4
    BY <2>1 DEF DESTRUCTIVE
  <2> HIDE DEF side, h, read
  <2>i. ~(h.idem = "yes")
    BY <2>1
  <2>j. read.side = 4 /\ ~read.idem
    BY <1>3, <2>3, <2>i
  <2>4. read.side >= s.side /\ (read.idem => s.idem)
    BY <2>2, <2>j
  <2> QED
    BY <2>4 DEF read, h
<1>5. CASE s # UnknownSafety
  <2>1. s.side \in 0..4 /\ s.idem \in BOOLEAN
    BY <1>5 DEF Safety, Contracts, Level, NONE, DESTRUCTIVE
  <2>2. /\ h.readOnly <=> s.side \in {NONE, READ}
        /\ h.destructive <=> s.side = DESTRUCTIVE
        /\ h.idem = IF s.idem THEN "yes" ELSE "no"
    BY <1>5 DEF ToolAnnotations
  <2>a. side = IF h.destructive THEN DESTRUCTIVE ELSE IF h.readOnly THEN READ ELSE EXTERNAL
    BY Zenon
  <2> HIDE DEF side, h, read
  <2>3. side >= s.side
    BY <2>a, <2>1, <2>2 DEF NONE, READ, EXTERNAL, DESTRUCTIVE
  <2>4. h.idem = "yes" => s.idem
    BY <2>1, <2>2
  <2>5. read.side >= s.side /\ (read.idem => s.idem)
    BY <1>3, <2>3, <2>4
  <2> QED
    BY <2>5 DEF h, read
<1> QED
  BY <1>4, <1>5

(* A nonempty set of levels has a highest one.                             *)
LEMMA HighestLevel ==
  ASSUME NEW T \in SUBSET Level, T # {}
  PROVE  \E l \in T : \A m \in T : m <= l
<1>1. \A l \in T : l \in {0, 1, 2, 3, 4}
  BY DEF Level, NONE, DESTRUCTIVE
<1>2. CASE 4 \in T
  BY <1>1, <1>2
<1>3. CASE 4 \notin T /\ 3 \in T
  BY <1>1, <1>3
<1>4. CASE 4 \notin T /\ 3 \notin T /\ 2 \in T
  BY <1>1, <1>4
<1>5. CASE 4 \notin T /\ 3 \notin T /\ 2 \notin T /\ 1 \in T
  BY <1>1, <1>5
<1>6. CASE 4 \notin T /\ 3 \notin T /\ 2 \notin T /\ 1 \notin T
  BY <1>1, <1>6
<1> QED
  BY <1>2, <1>3, <1>4, <1>5, <1>6

(* The contract of a flow that declares none is at least as severe as each *)
(* of its tools'.                                                          *)
LEMMA FlowIsAsSevere ==
  ASSUME NEW a \in Apps, \A t \in LocalNames : catalog[t].safety \in Safety
  PROVE  /\ ResolveFlowSafety(a) \in Safety
         /\ AppInfo[a].declared = UnknownSafety /\ ResolveFlowSafety(a) # UnknownSafety
              => \A t \in AppInfo[a].tools : catalog[t].safety.side <= ResolveFlowSafety(a).side
<1> DEFINE cs == {catalog[t].safety : t \in AppInfo[a].tools}
           s == ResolveFlowSafety(a)
<1>0. AppInfo[a].tools \subseteq LocalNames /\ AppInfo[a].declared \in Safety
  BY ServerAssumption DEF Safety
<1>1. CASE AppInfo[a].declared # UnknownSafety
  BY <1>0, <1>1 DEF ResolveFlowSafety
<1>2. CASE AppInfo[a].declared = UnknownSafety /\ (UnknownSafety \in cs \/ cs = {})
  BY <1>2 DEF ResolveFlowSafety, Safety
<1>3. CASE AppInfo[a].declared = UnknownSafety /\ UnknownSafety \notin cs /\ cs # {}
  <2>1. s = MergeSafety(cs)
    BY <1>3 DEF ResolveFlowSafety
  <2>2. cs \subseteq Contracts
    BY <1>0, <1>3 DEF Safety
  <2>t. \A t \in AppInfo[a].tools : catalog[t].safety \in cs
    OBVIOUS
  <2> HIDE DEF cs
  <2> DEFINE T == {c.side : c \in cs}
             top == CHOOSE l \in T : \A c \in cs : c.side <= l
  <2>3. \A c \in cs : c.side \in Level /\ c.side \in T
    BY <2>2 DEF Contracts
  <2>4. T \in SUBSET Level /\ T # {}
    BY <1>3, <2>3
  <2>5. \E l \in T : \A m \in T : m <= l
    BY <2>4, HighestLevel
  <2>6. \E l \in T : \A c \in cs : c.side <= l
    BY <2>3, <2>5
  <2>7. top \in T /\ \A c \in cs : c.side <= top
    BY <2>6
  <2>8. s = [side |-> top, idem |-> \A c \in cs : c.idem, cache |-> \A c \in cs : c.cache,
             approval |-> \E c \in cs : c.approval]
    BY <2>1 DEF MergeSafety
  <2>9. top \in Level
    BY <2>4, <2>7
  <2> HIDE DEF top, s
  <2>10. s \in Contracts /\ s.side = top
    BY <2>8, <2>9 DEF Contracts
  <2>11. \A t \in AppInfo[a].tools : catalog[t].safety.side <= s.side
    BY <2>t, <2>7, <2>10
  <2> QED
    BY <2>10, <2>11 DEF s, Safety
<1> QED
  BY <1>1, <1>2, <1>3

(* Building the server exposes what its arguments allow.                   *)
LEMMA ConstructStep ==
  ASSUME ServerInv, NEW cfg \in ServerConfigs, Construct(cfg)
  PROVE  ServerInv'
<1>u. UNCHANGED <<clientVars, calls>> /\ built' = catalog /\ server.phase = "none"
  BY DEF Construct
<1>t. \A t \in LocalNames : catalog[t].safety \in Safety
  BY DEF ServerInv, ClientInv, ClientTyped
<1>n. /\ \A a \in Apps : exposed[a] = NotExposed
      /\ \A c \in ServerCalls : calls[c] = NoCall
  BY <1>u DEF ServerInv, BuiltFirst, Constructed
<1>r. \A c \in ServerCalls : calls[c].pc = "new" /\ calls[c].reply = "none" /\ calls[c].sides = {}
  BY <1>n DEF NoCall
<1>1. ClientInv'
  BY <1>u DEF ServerInv, ClientInv, ClientTyped, AdoptionIsGuarded, clientVars
<1>2. CallInv'
  BY <1>u, <1>r DEF CallInv, Ran
<1>3. CASE NameCollision(cfg)
  <2>1. server' = [server EXCEPT !.phase = "ValueError"] /\ UNCHANGED exposed
    BY <1>3 DEF Construct
  <2>2. /\ server'.phase = "ValueError"
        /\ server' = [phase |-> server'.phase, cfg |-> server'.cfg, detail |-> server'.detail,
                      net |-> server'.net]
    BY <2>1 DEF ServerInv, Shaped
  <2>3. ~Constructed'
    BY <2>2 DEF Constructed
  <2>4. Shaped'
    BY <1>u, <2>2 DEF ServerInv, Shaped
  <2>5. BuiltFirst' /\ ExposedWithin' /\ ModeTightened'
    BY <1>u, <1>n, <2>1, <2>3 DEF BuiltFirst, ExposedWithin, ModeTightened
  <2> QED
    BY <1>1, <1>2, <2>4, <2>5 DEF ServerInv
<1>4. CASE ~NameCollision(cfg)
  <2>1. /\ server' = [phase |-> "built", cfg |-> cfg, detail |-> Resolve(cfg, "detail"),
                      net |-> FALSE]
        /\ exposed' = [a \in Apps |-> IF a \in Published(cfg) THEN ResolveFlowSafety(a)
                                      ELSE NotExposed]
    BY <1>4 DEF Construct
  <2>2. server'.phase = "built" /\ server'.cfg = cfg /\ server'.net = FALSE
    BY <2>1
  <2>3. Constructed'
    BY <2>2 DEF Constructed
  <2>4. Shaped'
    BY <1>u, <2>1 DEF ServerInv, Shaped
  <2>5. \A a \in Apps : exposed'[a] \in Safety \cup {NotExposed}
    BY <1>t, <2>1, FlowIsAsSevere
  <2>6. BuiltFirst' /\ ModeTightened'
    BY <2>2, <2>3, <2>5 DEF BuiltFirst, ModeTightened
  <2>7. ASSUME ~Forced(cfg), NEW a \in Apps, exposed'[a] # NotExposed,
               AppInfo[a].declared = UnknownSafety, NEW t \in AppInfo[a].tools
        PROVE  \E l \in Resolve(cfg, "sides") : built'[t].safety.side <= l
    <3>1. a \in Published(cfg)
      BY <2>1, <2>7
    <3>2. ResolveFlowSafety(a) # UnknownSafety /\ ResolveFlowSafety(a).side \in Resolve(cfg, "sides")
      BY <2>7, <3>1 DEF Published, Excluded
    <3>3. catalog[t].safety.side <= ResolveFlowSafety(a).side
      BY <1>t, <2>7, <3>2, FlowIsAsSevere
    <3> QED
      BY <1>u, <3>2, <3>3
  <2>8. ExposedWithin'
    BY <2>2, <2>7 DEF ExposedWithin
  <2> QED
    BY <1>1, <1>2, <2>4, <2>6, <2>8 DEF ServerInv
<1> QED
  BY <1>3, <1>4

(* Serving and stopping change the phase, the transport and the mode.      *)
LEMMA ServeStep ==
  ASSUME ServerInv, (\E net \in BOOLEAN : Serve(net)) \/ Stop
  PROVE  ServerInv'
<1> DEFINE Moved ==
      /\ UNCHANGED <<clientVars, exposed, built, calls>>
      /\ Constructed /\ Constructed' /\ server'.cfg = server.cfg
      /\ server' = [phase |-> server'.phase, cfg |-> server'.cfg, detail |-> server'.detail,
                    net |-> server'.net]
      /\ ~server'.net \/ gateMode' = Tightened(server.cfg, gateMode)
<1>u. Moved
  <2>s. server = [phase |-> server.phase, cfg |-> server.cfg, detail |-> server.detail,
                  net |-> server.net]
    BY DEF ServerInv, Shaped
  <2>1. ASSUME NEW net \in BOOLEAN, Serve(net)
        PROVE  Moved
    <3> DEFINE d == IF net THEN Tightened(server.cfg, server.detail) ELSE server.detail
    <3>1. /\ server.phase \in {"built", "stopped"}
          /\ server' = [server EXCEPT !.phase = "serving", !.net = net, !.detail = d]
          /\ gateMode' = IF net THEN Tightened(server.cfg, gateMode) ELSE gateMode
          /\ UNCHANGED <<clientVars, exposed, built, calls>>
      BY <2>1 DEF Serve
    <3> HIDE DEF d
    <3>2. server' = [phase |-> "serving", cfg |-> server.cfg, detail |-> d, net |-> net]
      BY <2>s, <3>1
    <3>3. server'.phase = "serving" /\ server'.cfg = server.cfg /\ server'.net = net
      BY <3>2
    <3> QED
      BY <3>1, <3>2, <3>3 DEF Constructed
  <2>2. ASSUME Stop
        PROVE  Moved
    <3>1. /\ server.phase = "serving" /\ ~server.net
          /\ server' = [server EXCEPT !.phase = "stopped"]
          /\ UNCHANGED <<clientVars, exposed, built, calls>>
      BY <2>2 DEF Stop
    <3>2. server' = [phase |-> "stopped", cfg |-> server.cfg, detail |-> server.detail,
                     net |-> server.net]
      BY <2>s, <3>1
    <3>3. server'.phase = "stopped" /\ server'.cfg = server.cfg /\ server'.net = server.net
      BY <3>2
    <3> QED
      BY <3>1, <3>2, <3>3 DEF Constructed
  <2> QED
    BY <2>1, <2>2
<1>1. ClientInv'
  BY <1>u DEF ServerInv, ClientInv, ClientTyped, AdoptionIsGuarded, clientVars
<1>2. Shaped' /\ BuiltFirst' /\ ExposedWithin'
  BY <1>u DEF ServerInv, Shaped, BuiltFirst, ExposedWithin
<1>3. ModeTightened'
  BY <1>u DEF ServerInv, ModeTightened, Tightened
<1>4. CallInv'
  BY <1>u DEF ServerInv, CallInv, Ran, Sound
<1> QED
  BY <1>1, <1>2, <1>3, <1>4 DEF ServerInv

(* The record of a call is determined by its fields.                       *)
LEMMA CallOf ==
  ASSUME NEW call, call = [x \in DOMAIN call |-> call[x]],
         DOMAIN call = {"pc", "app", "trail", "sides", "fresh", "net", "reply"}
  PROVE  call = [pc |-> call.pc, app |-> call.app, trail |-> call.trail, sides |-> call.sides,
                 fresh |-> call.fresh, net |-> call.net, reply |-> call.reply]
OBVIOUS

(* One call changes, and what it ran under is what the server was built    *)
(* with.                                                                   *)
LEMMA CallStep ==
  ASSUME ServerInv, NEW c \in ServerCalls, NEW call,
         calls' = [calls EXCEPT ![c] = call],
         call = [pc |-> call.pc, app |-> call.app, trail |-> call.trail, sides |-> call.sides,
                 fresh |-> call.fresh, net |-> call.net, reply |-> call.reply],
         UNCHANGED <<clientVars, server, gateMode, exposed, built>>,
         Constructed,
         call.pc # "done" => call.reply = "none" /\ call.sides = {},
         call.pc = "running" \/ call.reply \in {"ok", "full", "type_only", "generic"}
           => Sound(call)
  PROVE  ServerInv'
<1>1. ClientInv'
  BY DEF ServerInv, ClientInv, ClientTyped, AdoptionIsGuarded, clientVars
<1>2. calls'[c] = call /\ \A d \in ServerCalls \ {c} : calls'[d] = calls[d]
  BY DEF ServerInv, Shaped
<1>3. Shaped'
  <2>1. calls' = [d \in ServerCalls |-> IF d = c THEN call ELSE calls[d]]
    BY DEF ServerInv, Shaped
  <2>2. \A d \in ServerCalls \ {c} : calls[d] =
          [pc |-> calls[d].pc, app |-> calls[d].app, trail |-> calls[d].trail,
           sides |-> calls[d].sides, fresh |-> calls[d].fresh, net |-> calls[d].net,
           reply |-> calls[d].reply]
    BY DEF ServerInv, Shaped
  <2>3. \A d \in ServerCalls : calls'[d] =
          [pc |-> calls'[d].pc, app |-> calls'[d].app, trail |-> calls'[d].trail,
           sides |-> calls'[d].sides, fresh |-> calls'[d].fresh, net |-> calls'[d].net,
           reply |-> calls'[d].reply]
    BY <1>2, <2>2
  <2>4. calls' = [d \in ServerCalls |-> calls'[d]]
    BY <2>1
  <2>5. calls' = [d \in ServerCalls |->
          [pc |-> calls'[d].pc, app |-> calls'[d].app, trail |-> calls'[d].trail,
           sides |-> calls'[d].sides, fresh |-> calls'[d].fresh, net |-> calls'[d].net,
           reply |-> calls'[d].reply]]
    BY <2>3, <2>4
  <2>6. server' = [phase |-> server'.phase, cfg |-> server'.cfg, detail |-> server'.detail,
                   net |-> server'.net]
    BY DEF ServerInv, Shaped
  <2> QED
    BY <2>5, <2>6 DEF Shaped
<1>4. BuiltFirst' /\ ExposedWithin' /\ ModeTightened'
  BY DEF ServerInv, BuiltFirst, ExposedWithin, ModeTightened, Constructed
<1>5. CallInv'
  <2>1. ASSUME NEW d \in ServerCalls
        PROVE  /\ calls'[d].pc # "done" => calls'[d].reply = "none" /\ calls'[d].sides = {}
               /\ \/ calls'[d].pc = "running"
                  \/ calls'[d].reply \in {"ok", "full", "type_only", "generic"}
                 => Sound(calls'[d])
    <3>1. CASE d = c
      BY <1>2, <3>1
    <3>2. CASE d # c
      BY <1>2, <3>2 DEF ServerInv, CallInv, Ran
    <3> QED
      BY <3>1, <3>2
  <2>2. Constructed'
    BY DEF Constructed
  <2> QED
    BY <2>1, <2>2 DEF CallInv, Ran, Sound
<1> QED
  BY <1>1, <1>3, <1>4, <1>5 DEF ServerInv

(* The gate.                                                               *)
LEMMA DispatchStep ==
  ASSUME ServerInv, NEW c \in ServerCalls, NEW a \in Apps, NEW who, NEW verdict,
         NEW valid \in BOOLEAN, Dispatch(c, a, who, verdict, valid)
  PROVE  ServerInv'
<1> DEFINE cfg == server.cfg
           id == IF cfg.authn THEN who ELSE Anonymous
           trail == Trail(cfg, id, verdict)
           reply == CASE Denied(trail) -> "denied"
                      [] ~Denied(trail) /\ ~valid -> "ValidationError"
                      [] ~Denied(trail) /\ valid /\ status[a] # "active" -> "FlowStatusError"
                      [] OTHER -> "none"
           call == [calls[c] EXCEPT !.pc = IF reply = "none" THEN "running" ELSE "done",
                                    !.app = IF reply = "none" THEN a ELSE "none",
                                    !.trail = trail, !.reply = reply]
<1>1. /\ calls' = [calls EXCEPT ![c] = call]
      /\ UNCHANGED <<clientVars, server, gateMode, exposed, built>>
      /\ calls[c].pc = "new" /\ server.phase = "serving" /\ exposed[a] # NotExposed
  BY DEF Dispatch
<1>2. Constructed /\ cfg \in ServerConfigs
  BY <1>1 DEF Constructed, ServerInv, BuiltFirst
<1>3. /\ reply \in {"denied", "ValidationError", "FlowStatusError", "none"}
      /\ reply = "none" => ~Denied(trail)
  <2> HIDE DEF trail
  <2> QED
    OBVIOUS
<1>4. reply = "none" => trail = Cleared(cfg)
  <2> HIDE DEF cfg, id, reply
  <2> QED
    BY <1>2, <1>3, ClearedUnlessDenied
<1> HIDE DEF cfg, id, trail, reply
<1>o. calls[c] = [pc |-> calls[c].pc, app |-> calls[c].app, trail |-> calls[c].trail,
                  sides |-> calls[c].sides, fresh |-> calls[c].fresh, net |-> calls[c].net,
                  reply |-> calls[c].reply]
  BY DEF ServerInv, Shaped
<1>5. /\ DOMAIN calls[c] = {"pc", "app", "trail", "sides", "fresh", "net", "reply"}
      /\ calls[c].sides = {} /\ calls[c].reply = "none"
  BY <1>o, <1>1 DEF ServerInv, CallInv
<1>6. /\ DOMAIN call = DOMAIN calls[c]
      /\ call = [x \in DOMAIN call |-> call[x]]
  OBVIOUS
<1>7. /\ call.pc = IF reply = "none" THEN "running" ELSE "done"
      /\ call.app = IF reply = "none" THEN a ELSE "none"
      /\ call.trail = trail /\ call.sides = {} /\ call.reply = reply
  BY <1>5
<1> HIDE DEF call
<1>8. call = [pc |-> call.pc, app |-> call.app, trail |-> call.trail, sides |-> call.sides,
              fresh |-> call.fresh, net |-> call.net, reply |-> call.reply]
  BY <1>5, <1>6, CallOf
<1>9. call.pc = "running" \/ call.reply \in {"ok", "full", "type_only", "generic"}
        => Sound(call)
  <2> SUFFICES ASSUME reply = "none" PROVE Sound(call)
    BY <1>3, <1>7
  <2>1. call.app = a /\ call.trail = Cleared(server.cfg) /\ call.sides = {} /\ call.reply = "none"
    BY <1>4, <1>7 DEF cfg
  <2> QED
    BY <1>1, <2>1 DEF Sound
<1> QED
  BY <1>1, <1>2, <1>3, <1>7, <1>8, <1>9, CallStep

(* The end of a run: its effects are those of the tools it was built with. *)
LEMMA FinishStep ==
  ASSUME ServerInv, NEW c \in ServerCalls, NEW k, NEW valid \in BOOLEAN, Finish(c, k, valid)
  PROVE  ServerInv'
<1> DEFINE ts == AppInfo[calls[c].app].tools
           failed == \E t \in ts : catalog[t] = NoTool \/ Projected(t, k) = "MCPToolInvocationError"
           reply == IF failed THEN gateMode ELSE IF valid THEN "ok" ELSE "ValidationError"
           sides == {catalog[t].safety.side : t \in ts}
           fresh == \A t \in ts : catalog[t] = built[t]
           call == [calls[c] EXCEPT !.pc = "done", !.sides = sides, !.fresh = fresh,
                                    !.net = server.net, !.reply = reply]
<1>1. /\ calls' = [calls EXCEPT ![c] = call]
      /\ UNCHANGED <<clientVars, server, gateMode, exposed, built>>
      /\ calls[c].pc = "running"
  BY DEF Finish
<1>2. /\ Constructed
      /\ calls[c].app \in Apps /\ exposed[calls[c].app] # NotExposed
      /\ calls[c].trail = Cleared(server.cfg)
  BY <1>1 DEF ServerInv, CallInv, Ran, Sound
<1>3. reply = "full" => gateMode = "full"
  <2> HIDE DEF failed
  <2> QED
    OBVIOUS
<1>4. ~Forced(server.cfg) /\ fresh /\ AppInfo[calls[c].app].declared = UnknownSafety
        => \A side \in sides : \E l \in Resolve(server.cfg, "sides") : side <= l
  BY <1>2 DEF ServerInv, ExposedWithin
<1> HIDE DEF reply, sides, fresh
<1>o. calls[c] = [pc |-> calls[c].pc, app |-> calls[c].app, trail |-> calls[c].trail,
                  sides |-> calls[c].sides, fresh |-> calls[c].fresh, net |-> calls[c].net,
                  reply |-> calls[c].reply]
  BY DEF ServerInv, Shaped
<1>d. DOMAIN calls[c] = {"pc", "app", "trail", "sides", "fresh", "net", "reply"}
  BY <1>o
<1>5. /\ DOMAIN call = DOMAIN calls[c]
      /\ call = [x \in DOMAIN call |-> call[x]]
  OBVIOUS
<1>6. /\ call.pc = "done" /\ call.app = calls[c].app /\ call.trail = calls[c].trail
      /\ call.sides = sides /\ call.fresh = fresh /\ call.net = server.net /\ call.reply = reply
  BY <1>d
<1> HIDE DEF call
<1>7. call = [pc |-> call.pc, app |-> call.app, trail |-> call.trail, sides |-> call.sides,
              fresh |-> call.fresh, net |-> call.net, reply |-> call.reply]
  BY <1>d, <1>5, CallOf
<1>8. call.reply = "full" /\ call.net => {server.cfg.detail, server.cfg.profile} # {Unset}
  BY <1>2, <1>3, <1>6 DEF ServerInv, ModeTightened
<1>9. Sound(call)
  BY <1>2, <1>4, <1>6, <1>8 DEF Sound
<1> QED
  BY <1>1, <1>2, <1>6, <1>7, <1>9, CallStep

LEMMA ServerStep == ServerInv /\ [ServerNext]_serverVars => ServerInv'
<1> SUFFICES ASSUME ServerInv, [ServerNext]_serverVars PROVE ServerInv'
  OBVIOUS
<1>1. ASSUME Client \/ Tick \/ UNCHANGED serverVars PROVE ServerInv'
  <2>1. ClientInv'
    BY <1>1, ClientStep DEF ServerInv, Client, Tick, serverVars
  <2>2. UNCHANGED <<server, gateMode, exposed, built, calls>>
    BY <1>1 DEF Client, Tick, serverVars
  <2> QED
    BY <2>1, <2>2 DEF ServerInv, Shaped, BuiltFirst, ExposedWithin, ModeTightened, CallInv,
                      Constructed, Ran, Sound
<1> QED
  BY <1>1, ConstructStep, ServeStep, DispatchStep, FinishStep DEF ServerNext

LEMMA ServerStarts == ServerInit => ServerInv
<1> SUFFICES ASSUME ServerInit PROVE ServerInv
  OBVIOUS
<1>1. /\ server = [phase |-> "none", cfg |-> Unset, detail |-> "full", net |-> FALSE]
      /\ calls = [c \in ServerCalls |-> NoCall] /\ \A a \in Apps : exposed[a] = NotExposed
  BY DEF ServerInit
<1>2. ClientInv
  BY ClientStarts DEF ServerInit
<1>3. ~Constructed
  BY <1>1 DEF Constructed
<1>4. Shaped
  BY <1>1 DEF Shaped, NoCall
<1> QED
  BY <1>1, <1>2, <1>3, <1>4 DEF ServerInv, BuiltFirst, ExposedWithin, ModeTightened, CallInv,
                                Ran, NoCall

LEMMA ServerMeans == ServerInv => CallsAreCleared
<1> SUFFICES ASSUME ServerInv, NEW c \in ServerCalls, Ran(c),
                    NEW a \in Apps, exposed[a] # NotExposed, policy.trust # "ignore"
             PROVE  LET read == SafetyFromAnnotations(ToolAnnotations(exposed[a]))
                    IN  read.side >= exposed[a].side /\ (read.idem => exposed[a].idem)
  BY DEF ServerInv, CallInv, CallsAreCleared, Sound
<1>1. exposed[a] \in Safety
  BY DEF ServerInv, BuiltFirst
<1> QED
  BY <1>1, HintsRoundTrip

(* Every call that reached a flow passed every configured hook, a run of a *)
(* server that was not forced stays below an allowed level, published      *)
(* hints read back no looser than the flow's contract, error texts stay    *)
(* off the network unless asked for, and the limiter keeps its limit       *)
(* (FlowServer, GatewaySecurity, FixedWindowRateLimiter).                  *)
THEOREM ServerCleared == ServerSpec => []ServedIsCleared
<1>1. ServerInv /\ LimitInv => ServedIsCleared
  BY ServerMeans, LimitMeans DEF ServedIsCleared
<1> QED
  BY <1>1, ServerStarts, ServerStep, LimitStarts, LimitStep, PTL DEF ServerSpec

(* A server adopts the remote tools it proxies under the client's policy,  *)
(* however calls, registrations and discoveries interleave.                *)
THEOREM ServerAdopts == ServerSpec => []AdoptionIsGuarded
<1>1. ServerInv => AdoptionIsGuarded
  BY DEF ServerInv, ClientInv
<1> QED
  BY <1>1, ServerStarts, ServerStep, PTL DEF ServerSpec

-----------------------------------------------------------------------------
(* The offline proposers: numbers and sequences.                           *)

(* What holds of 0 and of the next holds of all.                           *)
LEMMA UpTo ==
  ASSUME NEW m \in Nat, NEW S \in SUBSET (0 .. m), 0 \in S,
         \A n \in S : n < m => n + 1 \in S
  PROVE  S = 0 .. m
<1> SUFFICES ASSUME NEW n \in 0 .. m, n \notin S PROVE FALSE
  OBVIOUS
<1> DEFINE T == {i \in S : i <= n}
<1>1. T \in SUBSET (0 .. m) /\ 0 \in T
  <2>1. 0 <= n
    OBVIOUS
  <2> QED
    BY <2>1
<1>2. PICK v \in T : \A w \in T : w <= v
  BY <1>1, LargestOf
<1>3. v \in S /\ v \in 0 .. m /\ v <= n /\ v # n
  BY <1>2
<1>4. v < m /\ v + 1 <= n /\ ~(v + 1 <= v)
  BY <1>3
<1>5. v + 1 \in T
  BY <1>3, <1>4
<1> QED
  BY <1>2, <1>4, <1>5

(* Sequences taken apart at their last element.                            *)
LEMMA LastTaken ==
  ASSUME NEW T, NEW s \in Seq(T), s # <<>>
  PROVE  /\ Len(s) \in Nat \ {0} /\ s[Len(s)] \in T
         /\ Front(s) \in Seq(T) /\ Len(Front(s)) = Len(s) - 1
         /\ \A i \in 1 .. Len(s) - 1 : Front(s)[i] = s[i]
         /\ s = Append(Front(s), s[Len(s)])
<1>1. Len(s) \in Nat \ {0} /\ s[Len(s)] \in T /\ DOMAIN s = 1 .. Len(s)
  OBVIOUS
<1>2. Front(s) = SubSeq(s, 1, Len(s) - 1)
  BY DEF Front
<1>3. /\ Front(s) \in Seq(T) /\ Len(Front(s)) = Len(s) - 1
      /\ \A i \in 1 .. Len(s) - 1 : Front(s)[i] = s[i]
  BY <1>1, <1>2
<1>4. PICK f : f = Front(s)
  OBVIOUS
<1>5. s = Append(f, s[Len(s)])
  <2>1. Append(f, s[Len(s)]) \in Seq(T) /\ Len(Append(f, s[Len(s)])) = Len(s)
    <3>1. PICK x \in T : x = s[Len(s)]
      BY <1>1
    <3>2. f \in Seq(T) /\ Len(f) = Len(s) - 1
      BY <1>3, <1>4, Zenon
    <3>3. Len(f) + 1 = Len(s)
      BY <1>1, <3>2
    <3> QED
      BY <3>1, <3>2, <3>3, AppendProperties
  <2>2. \A i \in 1 .. Len(s) : Append(f, s[Len(s)])[i] = s[i]
    BY <1>1, <1>3, <1>4, AppendProperties
  <2> QED
    BY <1>1, <2>1, <2>2, SeqEqual
<1> QED
  BY <1>1, <1>3, <1>4, <1>5

LEMMA FrontOfAppend ==
  ASSUME NEW T, NEW s \in Seq(T), NEW x \in T
  PROVE  Front(Append(s, x)) = s /\ Append(s, x) # <<>> /\ Append(s, x) \in Seq(T)
         /\ Len(Append(s, x)) = Len(s) + 1 /\ Append(s, x)[Len(s) + 1] = x
         /\ \A i \in 1 .. Len(s) : Append(s, x)[i] = s[i]
<1>1. /\ Append(s, x) \in Seq(T) /\ Len(Append(s, x)) = Len(s) + 1 /\ Len(s) \in Nat
      /\ Append(s, x)[Len(s) + 1] = x /\ \A i \in 1 .. Len(s) : Append(s, x)[i] = s[i]
  OBVIOUS
<1>2. PICK a : a = Append(s, x)
  OBVIOUS
<1>3. SubSeq(a, 1, Len(a) - 1) \in Seq(T) /\ Len(SubSeq(a, 1, Len(a) - 1)) = Len(s)
      /\ \A i \in 1 .. Len(s) : SubSeq(a, 1, Len(a) - 1)[i] = s[i]
  BY <1>1, <1>2
<1>4. SubSeq(a, 1, Len(a) - 1) = s
  BY <1>1, <1>3, SeqEqual
<1> QED
  BY <1>1, <1>2, <1>4 DEF Front


-----------------------------------------------------------------------------
(* Recursive functions.                                                    *)

(* f takes step n of g from b on, and no step of g leaves D.               *)
Iterates(f, b, g, m) == f[0] = b /\ \A n \in 1 .. m : f[n] = g[n][f[n - 1]]
StaysIn(g, m, D) == DOMAIN g = 1 .. m /\ \A n \in 1 .. m : \A x \in D : g[n][x] \in D

LEMMA RecursionExists ==
  ASSUME NEW m \in Nat, NEW D, NEW b \in D, NEW g, StaysIn(g, m, D)
  PROVE  \E f \in [0 .. m -> D] : Iterates(f, b, g, m)
<1> DEFINE S == {n \in 0 .. m : \E f \in [0 .. n -> D] : Iterates(f, b, g, n)}
<1>1. 0 \in S
  <2>1. PICK f : f = [n \in 0 .. 0 |-> b]
    OBVIOUS
  <2>2. f \in [0 .. 0 -> D] /\ Iterates(f, b, g, 0) /\ 0 \in 0 .. m
    BY <2>1 DEF Iterates
  <2> QED
    BY <2>2
<1>2. ASSUME NEW n \in S, n < m PROVE n + 1 \in S
  <2>1. PICK f \in [0 .. n -> D] : Iterates(f, b, g, n)
    OBVIOUS
  <2>2. n \in Nat /\ n + 1 \in 0 .. m /\ n + 1 \in 1 .. m /\ f[n] \in D
    BY <1>2
  <2>3. PICK x \in D : x = g[n + 1][f[n]]
    BY <2>2 DEF StaysIn
  <2>4. PICK h : h = [k \in 0 .. n + 1 |-> IF k = n + 1 THEN x ELSE f[k]]
    OBVIOUS
  <2>5. h \in [0 .. n + 1 -> D] /\ h[n + 1] = x /\ \A k \in 0 .. n : h[k] = f[k]
    BY <2>2, <2>4
  <2>6. ASSUME NEW k \in 1 .. n + 1 PROVE h[k] = g[k][h[k - 1]]
    <3>1. CASE k = n + 1
      <4>1. k - 1 = n /\ n \in 0 .. n
        BY <2>2, <3>1
      <4> QED
        BY <2>3, <2>5, <3>1, <4>1
    <3>2. CASE k # n + 1
      <4>1. k \in 1 .. n /\ k \in 0 .. n /\ k - 1 \in 0 .. n
        BY <2>2, <3>2
      <4> QED
        BY <2>1, <2>5, <4>1 DEF Iterates
    <3> QED
      BY <3>1, <3>2
  <2>7. h[0] = b
    BY <2>1, <2>2, <2>5 DEF Iterates
  <2>8. Iterates(h, b, g, n + 1)
    BY <2>6, <2>7 DEF Iterates
  <2> QED
    BY <2>2, <2>5, <2>8
<1>3. S = 0 .. m
  <2>1. S \in SUBSET (0 .. m)
    OBVIOUS
  <2> HIDE DEF S
  <2> QED
    BY <1>1, <1>2, <2>1, UpTo
<1>4. m \in S
  <2> HIDE DEF S
  <2> QED
    BY <1>3
<1> QED
  BY <1>4

-----------------------------------------------------------------------------
(* What a prompt is estimated to cost.                                     *)

ToolNames == DOMAIN PCost

(* A tool adds a number of tokens.                                         *)
LEMMA CostType ==
  ASSUME NEW t \in ToolNames, NEW cap \in BOOLEAN
  PROVE  Cost(t, cap) \in Nat
BY ProposerAssumption DEF Cost, ToolNames

(* The recursion of EstimateTokens, step by step.                          *)
LEMMA EstimateUnfolds ==
  ASSUME NEW ts \in Seq(ToolNames), NEW cap \in BOOLEAN
  PROVE  \E f : /\ f[0] = TemplateCost /\ \A n \in 1 .. Len(ts) : f[n] = f[n - 1] + Cost(ts[n], cap)
                /\ \A n \in 0 .. Len(ts) : f[n] \in Nat
                /\ EstimateTokens(ts, cap) = f[Len(ts)]
<1> DEFINE Step(x, n) == x + Cost(ts[n], cap)
           m == Len(ts)
           h == CHOOSE f :
                  f = [n \in 0 .. Len(ts) |-> IF n = 0 THEN TemplateCost ELSE Step(f[n - 1], n)]
<1>1. /\ m \in Nat /\ TemplateCost \in Nat
      /\ \A n \in 1 .. m : \A x \in Nat : Step(x, n) \in Nat
  <2>1. Len(ts) \in Nat /\ \A n \in 1 .. Len(ts) : ts[n] \in ToolNames
    OBVIOUS
  <2>2. \A n \in 1 .. Len(ts) : Cost(ts[n], cap) \in Nat
    BY <2>1, CostType
  <2> QED
    BY <2>1, <2>2, ProposerAssumption
<1>2. EstimateTokens(ts, cap) = h[m]
  BY Zenon DEF EstimateTokens
<1> HIDE DEF Step
<1>3. \E f : f = [n \in 0 .. m |-> IF n = 0 THEN TemplateCost ELSE Step(f[n - 1], n)]
  <2> HIDE DEF m
  <2>1. PICK D : D = Nat
    OBVIOUS
  <2>2. PICK b : b = TemplateCost
    OBVIOUS
  <2>3. PICK g : g = [n \in 1 .. m |-> [x \in D |-> Step(x, n)]]
    OBVIOUS
  <2>4. b \in D /\ \A n \in 1 .. m : \A x \in D : Step(x, n) \in D
    BY <1>1, <2>1, <2>2
  <2>5. StaysIn(g, m, D)
    BY <2>3, <2>4 DEF StaysIn
  <2>6. PICK f \in [0 .. m -> D] : Iterates(f, b, g, m)
    BY <1>1, <2>4, <2>5, RecursionExists
  <2>7. ASSUME NEW n \in 1 .. m PROVE f[n] = Step(f[n - 1], n)
    <3>1. n - 1 \in 0 .. m
      BY <1>1
    <3> QED
      BY <2>3, <2>6, <3>1 DEF Iterates
  <2>8. f = [n \in 0 .. m |-> IF n = 0 THEN b ELSE Step(f[n - 1], n)]
    BY <1>1, <2>6, <2>7 DEF Iterates
  <2> QED
    BY <2>2, <2>8, Zenon
<1>4. h = [n \in 0 .. m |-> IF n = 0 THEN TemplateCost ELSE Step(h[n - 1], n)]
  BY <1>3, Zenon
<1> HIDE DEF h, m
<1>5. h[0] = TemplateCost /\ \A n \in 1 .. m : h[n] = Step(h[n - 1], n)
  <2>1. 0 \in 0 .. m /\ \A n \in 1 .. m : n \in 0 .. m /\ n # 0
    BY <1>1
  <2> QED
    BY <1>4, <2>1
<1> DEFINE S == {n \in 0 .. m : h[n] \in Nat}
<1>6. 0 \in S
  <2>1. 0 \in 0 .. m
    BY <1>1
  <2>2. h[0] \in Nat
    BY <1>1, <1>5, Zenon
  <2> QED
    BY <2>1, <2>2
<1>7. ASSUME NEW n \in S, n < m PROVE n + 1 \in S
  <2>1. n + 1 \in 1 .. m /\ n + 1 \in 0 .. m /\ n + 1 - 1 = n
    BY <1>1, <1>7
  <2>2. h[n + 1] = Step(h[n], n + 1) /\ h[n] \in Nat
    BY <1>5, <2>1
  <2> QED
    BY <1>1, <2>1, <2>2
<1>8. S = 0 .. m
  <2>1. S \in SUBSET (0 .. m)
    OBVIOUS
  <2> HIDE DEF S
  <2> QED
    BY <1>1, <1>6, <1>7, <2>1, UpTo
<1>9. \A n \in 0 .. m : h[n] \in Nat
  BY <1>8
<1>10. \E f : /\ f[0] = TemplateCost /\ \A n \in 1 .. m : f[n] = Step(f[n - 1], n)
              /\ \A n \in 0 .. m : f[n] \in Nat
              /\ EstimateTokens(ts, cap) = f[m]
  BY <1>2, <1>5, <1>9
<1> QED
  BY <1>10 DEF Step, m

(* A prompt is estimated at a number of tokens.                            *)
LEMMA EstimateType ==
  ASSUME NEW ts \in Seq(ToolNames), NEW cap \in BOOLEAN
  PROVE  EstimateTokens(ts, cap) \in Nat
<1>1. PICK f : (\A n \in 0 .. Len(ts) : f[n] \in Nat) /\ EstimateTokens(ts, cap) = f[Len(ts)]
  BY EstimateUnfolds
<1>2. Len(ts) \in 0 .. Len(ts)
  OBVIOUS
<1> QED
  BY <1>1, <1>2

-----------------------------------------------------------------------------
(* Batches, and the tools they show.                                       *)

(* The recursion of Concat, step by step.                                  *)
LEMMA ConcatUnfolds ==
  ASSUME NEW T, NEW bs \in Seq(Seq(T))
  PROVE  \E f : /\ f[0] = <<>> /\ \A n \in 1 .. Len(bs) : f[n] = f[n - 1] \o bs[n]
                /\ \A n \in 0 .. Len(bs) : f[n] \in Seq(T)
                /\ Concat(bs) = f[Len(bs)]
<1> DEFINE Step(x, n) == x \o bs[n]
           m == Len(bs)
           h == CHOOSE f :
                  f = [n \in 0 .. Len(bs) |-> IF n = 0 THEN <<>> ELSE Step(f[n - 1], n)]
<1>1. /\ m \in Nat /\ <<>> \in Seq(T)
      /\ \A n \in 1 .. m : \A x \in Seq(T) : Step(x, n) \in Seq(T)
  <2>1. Len(bs) \in Nat /\ \A n \in 1 .. Len(bs) : bs[n] \in Seq(T)
    OBVIOUS
  <2>2. \A s, t \in Seq(T) : s \o t \in Seq(T)
    OBVIOUS
  <2>3. <<>> \in Seq(T)
    BY EmptySeq
  <2> QED
    BY <2>1, <2>2, <2>3
<1>2. Concat(bs) = h[m]
  BY Zenon DEF Concat
<1> HIDE DEF Step
<1>3. \E f : f = [n \in 0 .. m |-> IF n = 0 THEN <<>> ELSE Step(f[n - 1], n)]
  <2> HIDE DEF m
  <2>1. PICK D : D = Seq(T)
    OBVIOUS
  <2>2. PICK b : b = <<>>
    OBVIOUS
  <2>3. PICK g : g = [n \in 1 .. m |-> [x \in D |-> Step(x, n)]]
    OBVIOUS
  <2>4. b \in D /\ \A n \in 1 .. m : \A x \in D : Step(x, n) \in D
    BY <1>1, <2>1, <2>2
  <2>5. StaysIn(g, m, D)
    BY <2>3, <2>4 DEF StaysIn
  <2>6. PICK f \in [0 .. m -> D] : Iterates(f, b, g, m)
    BY <1>1, <2>4, <2>5, RecursionExists
  <2>7. ASSUME NEW n \in 1 .. m PROVE f[n] = Step(f[n - 1], n)
    <3>1. n - 1 \in 0 .. m
      BY <1>1
    <3> QED
      BY <2>3, <2>6, <3>1 DEF Iterates
  <2>8. f = [n \in 0 .. m |-> IF n = 0 THEN b ELSE Step(f[n - 1], n)]
    BY <1>1, <2>6, <2>7 DEF Iterates
  <2> QED
    BY <2>2, <2>8, Zenon
<1>4. h = [n \in 0 .. m |-> IF n = 0 THEN <<>> ELSE Step(h[n - 1], n)]
  BY <1>3, Zenon
<1> HIDE DEF h, m
<1>5. h[0] = <<>> /\ \A n \in 1 .. m : h[n] = Step(h[n - 1], n)
  <2>1. 0 \in 0 .. m /\ \A n \in 1 .. m : n \in 0 .. m /\ n # 0
    BY <1>1
  <2> QED
    BY <1>4, <2>1
<1> DEFINE S == {n \in 0 .. m : h[n] \in Seq(T)}
<1>6. 0 \in S
  <2>1. 0 \in 0 .. m
    BY <1>1
  <2>2. h[0] \in Seq(T)
    BY <1>1, <1>5, Zenon
  <2> QED
    BY <2>1, <2>2
<1>7. ASSUME NEW n \in S, n < m PROVE n + 1 \in S
  <2>1. n + 1 \in 1 .. m /\ n + 1 \in 0 .. m /\ n + 1 - 1 = n
    BY <1>1, <1>7
  <2>2. h[n + 1] = Step(h[n], n + 1) /\ h[n] \in Seq(T)
    BY <1>5, <2>1
  <2> QED
    BY <1>1, <2>1, <2>2
<1>8. S = 0 .. m
  <2>1. S \in SUBSET (0 .. m)
    OBVIOUS
  <2> HIDE DEF S
  <2> QED
    BY <1>1, <1>6, <1>7, <2>1, UpTo
<1>9. \A n \in 0 .. m : h[n] \in Seq(T)
  BY <1>8
<1>10. \E f : /\ f[0] = <<>> /\ \A n \in 1 .. m : f[n] = Step(f[n - 1], n)
              /\ \A n \in 0 .. m : f[n] \in Seq(T)
              /\ Concat(bs) = f[m]
  BY <1>2, <1>5, <1>9
<1> QED
  BY <1>10 DEF Step, m

(* Nothing is put end to end.                                              *)
LEMMA ConcatNothing == Concat(<<>>) = <<>>
<1>1. PICK U : U = Seq({})
  OBVIOUS
<1>2. PICK bs \in Seq(U) : bs = <<>>
  BY EmptySeq
<1>3. bs \in Seq(Seq({})) /\ Len(bs) = 0
  BY <1>1, <1>2
<1>4. PICK f : f[0] = <<>> /\ Concat(bs) = f[Len(bs)]
  BY <1>3, ConcatUnfolds
<1> QED
  BY <1>2, <1>3, <1>4, Zenon

(* A sequence more is put at the end.                                      *)
LEMMA ConcatGrows ==
  ASSUME NEW T, NEW bs \in Seq(Seq(T)), NEW b \in Seq(T)
  PROVE  Concat(bs) \in Seq(T) /\ Concat(Append(bs, b)) = Concat(bs) \o b
<1> DEFINE n == Len(bs)
<1>1. PICK cs : cs = Append(bs, b)
  OBVIOUS
<1>2. PICK U : U = Seq(T)
  OBVIOUS
<1>3. /\ n \in Nat /\ cs \in Seq(Seq(T)) /\ Len(cs) = n + 1 /\ cs[n + 1] = b
      /\ \A i \in 1 .. n : cs[i] = bs[i]
  <2>1. bs \in Seq(U) /\ b \in U
    BY <1>2
  <2>2. cs \in Seq(U) /\ Len(cs) = Len(bs) + 1 /\ Len(bs) \in Nat /\ cs[Len(bs) + 1] = b
        /\ \A i \in 1 .. Len(bs) : cs[i] = bs[i]
    BY <1>1, <2>1, FrontOfAppend, LenProperties
  <2> QED
    BY <1>2, <2>2
<1>4. PICK f : /\ f[0] = <<>> /\ \A k \in 1 .. n : f[k] = f[k - 1] \o bs[k]
               /\ \A k \in 0 .. n : f[k] \in Seq(T)
               /\ Concat(bs) = f[n]
  BY ConcatUnfolds
<1>5. PICK g : /\ g[0] = <<>> /\ \A k \in 1 .. n + 1 : g[k] = g[k - 1] \o cs[k]
               /\ Concat(cs) = g[n + 1]
  <2>1. PICK g : /\ g[0] = <<>> /\ \A k \in 1 .. Len(cs) : g[k] = g[k - 1] \o cs[k]
                 /\ Concat(cs) = g[Len(cs)]
    BY <1>3, ConcatUnfolds
  <2>2. Len(cs) = n + 1
    BY <1>3
  <2> QED
    BY <2>1, <2>2
<1> DEFINE S == {k \in 0 .. n : g[k] = f[k]}
<1> HIDE DEF n
<1>6. 0 \in S
  BY <1>3, <1>4, <1>5
<1>7. ASSUME NEW k \in S, k < n PROVE k + 1 \in S
  <2>1. k + 1 \in 1 .. n /\ k + 1 \in 0 .. n /\ k + 1 - 1 = k /\ k + 1 \in 1 .. n + 1 /\ g[k] = f[k]
    BY <1>3, <1>7
  <2>2. PICK j : j = k + 1
    OBVIOUS
  <2>3. j \in 1 .. n /\ j \in 1 .. n + 1 /\ j - 1 = k
    BY <2>1, <2>2
  <2>4. g[j] = g[j - 1] \o cs[j] /\ f[j] = f[j - 1] \o bs[j] /\ cs[j] = bs[j]
    BY <1>3, <1>4, <1>5, <2>3, Zenon
  <2>5. g[j - 1] = f[j - 1]
    BY <2>1, <2>3
  <2>6. g[j] = f[j]
    BY <2>4, <2>5, Zenon
  <2> QED
    BY <2>1, <2>2, <2>6
<1>8. S = 0 .. n
  <2>1. S \in SUBSET (0 .. n)
    OBVIOUS
  <2> HIDE DEF S
  <2> QED
    BY <1>3, <1>6, <1>7, <2>1, UpTo
<1>9. g[n] = f[n] /\ f[n] \in Seq(T) /\ n + 1 \in 1 .. n + 1 /\ n + 1 - 1 = n
  <2>1. n \in 0 .. n /\ n + 1 \in 1 .. n + 1 /\ n + 1 - 1 = n
    BY <1>3
  <2>2. g[n] = f[n]
    BY <1>8, <2>1
  <2>3. f[n] \in Seq(T)
    BY <1>4, <2>1, Zenon
  <2> QED
    BY <2>1, <2>2, <2>3
<1>10. PICK k : k = n + 1
  OBVIOUS
<1>11. Concat(cs) = f[n] \o b
  <2>1. k \in 1 .. n + 1 /\ k - 1 = n
    <3>1. n \in Nat
      BY <1>3
    <3> QED
      BY <1>10, <3>1
  <2>2. g[k] = g[k - 1] \o cs[k]
    BY <1>5, <2>1, Zenon
  <2>3. g[k - 1] = f[n] /\ cs[k] = b
    BY <1>3, <1>9, <1>10, <2>1
  <2>4. Concat(cs) = g[k]
    BY <1>5, <1>10, Zenon
  <2> QED
    BY <2>2, <2>3, <2>4, Zenon
<1> QED
  BY <1>1, <1>4, <1>9, <1>11, Zenon

(* The tools shown are the batches end to end.                             *)
LEMMA ShownNothing == ShownTools(<<>>) = <<>>
BY ConcatNothing DEF ShownTools

LEMMA ShownGrows ==
  ASSUME NEW T, NEW bs \in Seq(Seq(T)), NEW b \in Seq(T)
  PROVE  ShownTools(bs) \in Seq(T) /\ ShownTools(Append(bs, b)) = ShownTools(bs) \o b
BY ConcatGrows DEF ShownTools

(* One of finitely many estimates is the largest.                          *)
LEMMA LargestAmong ==
  ASSUME NEW m \in Nat, m # 0, NEW E, \A i \in 1 .. m : E[i] \in Nat
  PROVE  \E i \in 1 .. m : \A j \in 1 .. m : E[j] <= E[i]
<1> DEFINE S == {n \in 0 .. m : n = 0 \/ \E i \in 1 .. n : \A j \in 1 .. n : E[j] <= E[i]}
<1>1. 0 \in S
  OBVIOUS
<1>2. ASSUME NEW n \in S, n < m PROVE n + 1 \in S
  <2>1. n \in Nat /\ n + 1 \in 0 .. m /\ n + 1 \in 1 .. n + 1 /\ E[n + 1] \in Nat
        /\ (\A j \in 1 .. n : j \in 1 .. n + 1 /\ E[j] \in Nat)
        /\ (\A j \in 1 .. n + 1 : j \in 1 .. n \/ j = n + 1)
    BY <1>2
  <2>2. CASE n = 0
    <3>1. \A j \in 1 .. n + 1 : j = n + 1
      BY <2>2
    <3> QED
      BY <2>1, <3>1
  <2>3. CASE n # 0
    <3>1. PICK i \in 1 .. n : \A j \in 1 .. n : E[j] <= E[i]
      BY <2>3
    <3>2. CASE E[n + 1] <= E[i]
      <4>1. \A j \in 1 .. n + 1 : E[j] <= E[i]
        BY <2>1, <3>1, <3>2
      <4> QED
        BY <2>1, <4>1
    <3>3. CASE ~(E[n + 1] <= E[i])
      <4>1. \A j \in 1 .. n + 1 : E[j] <= E[n + 1]
        BY <2>1, <3>1, <3>3
      <4> QED
        BY <2>1, <4>1
    <3> QED
      BY <3>2, <3>3
  <2> QED
    BY <2>2, <2>3
<1>3. S = 0 .. m
  <2>1. S \in SUBSET (0 .. m)
    OBVIOUS
  <2> HIDE DEF S
  <2> QED
    BY <1>1, <1>2, <2>1, UpTo
<1>4. m \in S
  <2> HIDE DEF S
  <2> QED
    BY <1>3
<1> QED
  BY <1>4

(* Adding to the last part is adding to the whole.                         *)
LEMMA AppendLater ==
  ASSUME NEW T, NEW s \in Seq(T), NEW l \in Seq(T), NEW t \in T
  PROVE  s \o <<t>> = Append(s, t) /\ s \o Append(l, t) = Append(s \o l, t)
<1>1. s \o <<t>> = Append(s, t)
  OBVIOUS
<1>2. PICK a, b, c : a = Append(l, t) /\ b = s \o l /\ c = s \o a
  OBVIOUS
<1>3. /\ a \in Seq(T) /\ Len(a) = Len(l) + 1 /\ a[Len(l) + 1] = t
      /\ \A i \in 1 .. Len(l) : a[i] = l[i]
  BY <1>2
<1>4. /\ b \in Seq(T) /\ Len(b) = Len(s) + Len(l)
      /\ \A i \in 1 .. Len(b) : b[i] = IF i <= Len(s) THEN s[i] ELSE l[i - Len(s)]
  BY <1>2
<1>5. /\ c \in Seq(T) /\ Len(c) = Len(s) + Len(a)
      /\ \A i \in 1 .. Len(c) : c[i] = IF i <= Len(s) THEN s[i] ELSE a[i - Len(s)]
  <2>1. a \in Seq(T)
    BY <1>3
  <2> QED
    BY <1>2, <2>1, ConcatProperties
<1>6. PICK d : d = Append(b, t)
  OBVIOUS
<1>7. /\ d \in Seq(T) /\ Len(d) = Len(b) + 1 /\ d[Len(b) + 1] = t
      /\ \A i \in 1 .. Len(b) : d[i] = b[i]
  BY <1>4, <1>6
<1>8. PICK m \in Nat, n \in Nat : m = Len(s) /\ n = Len(l)
  OBVIOUS
<1>9. Len(a) = n + 1 /\ Len(b) = m + n /\ Len(c) = m + n + 1 /\ Len(d) = m + n + 1
  BY <1>3, <1>4, <1>5, <1>7, <1>8
<1>10. ASSUME NEW i \in 1 .. m + n + 1 PROVE c[i] = d[i]
  <2>1. CASE i <= m
    <3>1. i \in 1 .. m + n /\ i \in 1 .. m + n + 1
      BY <1>8, <2>1
    <3>2. c[i] = s[i] /\ b[i] = s[i] /\ d[i] = b[i]
      BY <1>4, <1>5, <1>7, <1>8, <1>9, <2>1, <3>1
    <3> QED
      BY <3>2
  <2>2. CASE i > m /\ i <= m + n
    <3>1. i \in 1 .. m + n /\ i \in 1 .. m + n + 1 /\ i - m \in 1 .. n /\ ~(i <= m)
      BY <1>8, <2>2
    <3>2. c[i] = a[i - m] /\ b[i] = l[i - m] /\ d[i] = b[i]
      BY <1>4, <1>5, <1>7, <1>8, <1>9, <3>1
    <3>3. a[i - m] = l[i - m]
      BY <1>3, <1>8, <3>1
    <3> QED
      BY <3>2, <3>3
  <2>3. CASE i > m + n
    <3>1. i = m + n + 1 /\ i \in 1 .. m + n + 1 /\ i - m = n + 1 /\ ~(i <= m)
      BY <1>8, <2>3
    <3>2. c[i] = a[n + 1] /\ d[i] = t
      BY <1>5, <1>7, <1>8, <1>9, <3>1
    <3>3. a[n + 1] = t
      BY <1>3, <1>8
    <3> QED
      BY <3>2, <3>3
  <2> QED
    BY <1>8, <2>1, <2>2, <2>3
<1>11. c = d
  BY <1>5, <1>7, <1>9, <1>10, SeqEqual
<1> QED
  BY <1>1, <1>2, <1>6, <1>11

(* A prefix grows by the next element.                                     *)
LEMMA TakenGrows ==
  ASSUME NEW T, NEW s \in Seq(T), NEW n \in Nat, n < Len(s)
  PROVE  SubSeq(s, 1, n + 1) = Append(SubSeq(s, 1, n), s[n + 1])
<1>1. PICK a, b : a = SubSeq(s, 1, n) /\ b = SubSeq(s, 1, n + 1)
  OBVIOUS
<1>2. /\ Len(s) \in Nat /\ n + 1 \in 1 .. Len(s) /\ s[n + 1] \in T
      /\ \A i \in 1 .. n + 1 : i \in 1 .. n \/ i = n + 1
  OBVIOUS
<1>3. a \in Seq(T) /\ Len(a) = n /\ \A i \in 1 .. n : a[i] = s[i]
  BY <1>1, <1>2
<1>4. b \in Seq(T) /\ Len(b) = n + 1 /\ \A i \in 1 .. n + 1 : b[i] = s[i]
  BY <1>1, <1>2
<1>5. PICK c : c = Append(a, s[n + 1])
  OBVIOUS
<1>6. c \in Seq(T) /\ Len(c) = n + 1 /\ c[n + 1] = s[n + 1] /\ \A i \in 1 .. n : c[i] = a[i]
  BY <1>2, <1>3, <1>5
<1>7. \A i \in 1 .. n + 1 : c[i] = b[i]
  BY <1>2, <1>3, <1>4, <1>6
<1>8. c = b
  BY <1>4, <1>6, <1>7, SeqEqual
<1> QED
  BY <1>1, <1>5, <1>8

(* What is a prefix of a sequence.                                         *)
LEMMA PrefixFacts ==
  ASSUME NEW T, NEW s \in Seq(T)
  PROVE  /\ IsPrefix(s, s) /\ IsPrefix(<<>>, s)
         /\ \A n \in 1 .. Len(s) : SubSeq(s, 1, n) \in Seq(T) /\ IsPrefix(SubSeq(s, 1, n), s)
<1>1. Len(s) \in Nat
  OBVIOUS
<1>2. IsPrefix(s, s)
  BY <1>1 DEF IsPrefix
<1>3. IsPrefix(<<>>, s)
  <2>1. PICK e \in Seq(T) : e = <<>>
    BY EmptySeq
  <2>2. Len(e) = 0 /\ SubSeq(e, 1, 0) \in Seq(T) /\ Len(SubSeq(e, 1, 0)) = 0
        /\ SubSeq(s, 1, 0) \in Seq(T) /\ Len(SubSeq(s, 1, 0)) = 0
    BY <2>1
  <2>3. SubSeq(e, 1, 0) = SubSeq(s, 1, 0)
    BY <2>2, SeqEqual
  <2> QED
    BY <1>1, <2>1, <2>2, <2>3 DEF IsPrefix
<1>4. ASSUME NEW n \in 1 .. Len(s) PROVE SubSeq(s, 1, n) \in Seq(T) /\ IsPrefix(SubSeq(s, 1, n), s)
  <2>1. PICK a : a = SubSeq(s, 1, n)
    OBVIOUS
  <2>2. a \in Seq(T) /\ Len(a) = n
    BY <1>1, <2>1
  <2>3. SubSeq(a, 1, n) = a
    BY <2>2
  <2> QED
    BY <1>1, <2>1, <2>2, <2>3 DEF IsPrefix
<1> QED
  BY <1>2, <1>3, <1>4

(* A single batch shows its tools.                                         *)
LEMMA ShownOne ==
  ASSUME NEW T, NEW s \in Seq(T)
  PROVE  <<s>> \in Seq(Seq(T)) /\ Len(<<s>>) = 1 /\ <<s>>[1] = s /\ ShownTools(<<s>>) = s
<1>1. PICK U : U = Seq(T)
  OBVIOUS
<1>2. PICK e \in Seq(U) : e = <<>>
  BY EmptySeq
<1>3. Append(e, s) = <<s>> /\ <<s>> \in Seq(U) /\ Len(<<s>>) = 1 /\ <<s>>[1] = s
  BY <1>1, <1>2
<1>4. e \in Seq(Seq(T))
  BY <1>1, <1>2
<1>5. ShownTools(Append(e, s)) = ShownTools(e) \o s
  BY <1>4, ShownGrows
<1>6. ShownTools(e) = <<>>
  BY <1>2, ShownNothing, Zenon
<1>7. <<>> \o s = s
  OBVIOUS
<1> QED
  BY <1>1, <1>3, <1>5, <1>6, <1>7, Zenon

(* The catalogue names tools, one at least.                                *)
LEMMA CatalogueType ==
  /\ PTools \in Seq(ToolNames) /\ PTools # <<>> /\ Len(PTools) \in Nat \ {0}
  /\ \A n \in 1 .. Len(PTools) : PTools[n] \in ToolNames
<1>1. PTools \in Seq(ToolNames) /\ PTools # <<>>
  BY ProposerAssumption DEF ToolNames
<1> QED
  BY <1>1

(* The recursion of Picked, step by step.                                  *)
LEMMA PickedUnfolds ==
  ASSUME NEW a
  PROVE  \E f : /\ f[0] = <<>> /\ \A n \in 1 .. Len(PTools) : f[n] = Picks(a, f[n - 1], PTools[n])
                /\ \A n \in 0 .. Len(PTools) : f[n] \in Seq(ToolNames)
                /\ Picked(a) = f[Len(PTools)]
<1> DEFINE Step(x, n) == Picks(a, x, PTools[n])
           m == Len(PTools)
           h == CHOOSE f :
                  f = [n \in 0 .. Len(PTools) |-> IF n = 0 THEN <<>> ELSE Step(f[n - 1], n)]
<1>1. /\ m \in Nat /\ <<>> \in Seq(ToolNames)
      /\ \A n \in 1 .. m : \A x \in Seq(ToolNames) : Step(x, n) \in Seq(ToolNames)
  <2>1. Len(PTools) \in Nat /\ \A n \in 1 .. Len(PTools) : PTools[n] \in ToolNames
    BY CatalogueType
  <2>2. \A s \in Seq(ToolNames), t \in ToolNames : Picks(a, s, t) \in Seq(ToolNames)
    BY DEF Picks
  <2>3. <<>> \in Seq(ToolNames)
    BY EmptySeq
  <2> QED
    BY <2>1, <2>2, <2>3
<1>2. Picked(a) = h[m]
  BY Zenon DEF Picked
<1> HIDE DEF Step
<1>3. \E f : f = [n \in 0 .. m |-> IF n = 0 THEN <<>> ELSE Step(f[n - 1], n)]
  <2> HIDE DEF m
  <2>1. PICK D : D = Seq(ToolNames)
    OBVIOUS
  <2>2. PICK b : b = <<>>
    OBVIOUS
  <2>3. PICK g : g = [n \in 1 .. m |-> [x \in D |-> Step(x, n)]]
    OBVIOUS
  <2>4. b \in D /\ \A n \in 1 .. m : \A x \in D : Step(x, n) \in D
    BY <1>1, <2>1, <2>2
  <2>5. StaysIn(g, m, D)
    BY <2>3, <2>4 DEF StaysIn
  <2>6. PICK f \in [0 .. m -> D] : Iterates(f, b, g, m)
    BY <1>1, <2>4, <2>5, RecursionExists
  <2>7. ASSUME NEW n \in 1 .. m PROVE f[n] = Step(f[n - 1], n)
    <3>1. n - 1 \in 0 .. m
      BY <1>1
    <3> QED
      BY <2>3, <2>6, <3>1 DEF Iterates
  <2>8. f = [n \in 0 .. m |-> IF n = 0 THEN b ELSE Step(f[n - 1], n)]
    BY <1>1, <2>6, <2>7 DEF Iterates
  <2> QED
    BY <2>2, <2>8, Zenon
<1>4. h = [n \in 0 .. m |-> IF n = 0 THEN <<>> ELSE Step(h[n - 1], n)]
  BY <1>3, Zenon
<1> HIDE DEF h, m
<1>5. h[0] = <<>> /\ \A n \in 1 .. m : h[n] = Step(h[n - 1], n)
  <2>1. 0 \in 0 .. m /\ \A n \in 1 .. m : n \in 0 .. m /\ n # 0
    BY <1>1
  <2> QED
    BY <1>4, <2>1
<1> DEFINE S == {n \in 0 .. m : h[n] \in Seq(ToolNames)}
<1>6. 0 \in S
  <2>1. 0 \in 0 .. m
    BY <1>1
  <2>2. h[0] \in Seq(ToolNames)
    BY <1>1, <1>5, Zenon
  <2> QED
    BY <2>1, <2>2
<1>7. ASSUME NEW n \in S, n < m PROVE n + 1 \in S
  <2>1. n + 1 \in 1 .. m /\ n + 1 \in 0 .. m /\ n + 1 - 1 = n
    BY <1>1, <1>7
  <2>2. h[n + 1] = Step(h[n], n + 1) /\ h[n] \in Seq(ToolNames)
    BY <1>5, <2>1
  <2> QED
    BY <1>1, <2>1, <2>2
<1>8. S = 0 .. m
  <2>1. S \in SUBSET (0 .. m)
    OBVIOUS
  <2> HIDE DEF S
  <2> QED
    BY <1>1, <1>6, <1>7, <2>1, UpTo
<1>9. \A n \in 0 .. m : h[n] \in Seq(ToolNames)
  BY <1>8
<1>10. \E f : /\ f[0] = <<>> /\ \A n \in 1 .. m : f[n] = Step(f[n - 1], n)
              /\ \A n \in 0 .. m : f[n] \in Seq(ToolNames)
              /\ Picked(a) = f[m]
  BY <1>2, <1>5, <1>9
<1> QED
  BY <1>10 DEF Step, m

(* The selected tools are tools of the catalogue.                          *)
LEMMA SelectedType == \A a : Selected(a) \in Seq(ToolNames)
<1> SUFFICES ASSUME NEW a PROVE Selected(a) \in Seq(ToolNames)
  OBVIOUS
<1>1. PICK f : (\A n \in 0 .. Len(PTools) : f[n] \in Seq(ToolNames)) /\ Picked(a) = f[Len(PTools)]
  BY PickedUnfolds
<1>2. Len(PTools) \in 0 .. Len(PTools)
  BY CatalogueType
<1> QED
  BY <1>1, <1>2, CatalogueType DEF Selected

(* A tool that is packed is shown next.                                    *)
LEMMA PacksMeans ==
  ASSUME NEW a, NEW bs \in Seq(Seq(ToolNames)), NEW t \in ToolNames
  PROVE  /\ Packs(a, bs, t) \in Seq(Seq(ToolNames)) /\ Packs(a, bs, t) # <<>>
         /\ ShownTools(Packs(a, bs, t)) = Append(ShownTools(bs), t)
<1>1. PICK U : U = Seq(ToolNames)
  OBVIOUS
<1>2. PICK cs : cs = Packs(a, bs, t)
  OBVIOUS
<1>3. bs \in Seq(U) /\ ShownTools(bs) \in U
  <2>1. PICK e \in Seq(ToolNames) : e = <<>>
    BY EmptySeq
  <2>2. ShownTools(bs) \in Seq(ToolNames)
    BY <2>1, ShownGrows
  <2> QED
    BY <1>1, <2>2
<1>4. CASE cs = Append(bs, <<t>>)
  <2>1. PICK b \in U : b = <<t>>
    <3>1. <<t>> \in Seq(ToolNames)
      OBVIOUS
    <3> QED
      BY <1>1, <3>1, Zenon
  <2>2. Append(bs, b) \in Seq(U) /\ Append(bs, b) # <<>>
    BY <1>3, <2>1, FrontOfAppend
  <2>3. ShownTools(Append(bs, b)) = ShownTools(bs) \o b
    BY <1>1, <2>1, ShownGrows
  <2>4. ShownTools(bs) \o <<t>> = Append(ShownTools(bs), t)
    BY <1>1, <1>3, AppendLater
  <2> QED
    BY <1>1, <1>2, <1>4, <2>1, <2>2, <2>3, <2>4, Zenon
<1>5. CASE bs # <<>> /\ cs = Append(Front(bs), Append(Last(bs), t))
  <2>1. PICK f, l : f = Front(bs) /\ l = bs[Len(bs)]
    OBVIOUS
  <2>2. f \in Seq(U) /\ l \in U /\ bs = Append(f, l)
    BY <1>3, <1>5, <2>1, LastTaken
  <2>3. PICK k : k = Append(l, t)
    OBVIOUS
  <2>4. k \in U
    BY <1>1, <2>2, <2>3
  <2>5. cs = Append(f, k)
    BY <1>5, <2>1, <2>3 DEF Last
  <2>6. Append(f, k) \in Seq(U) /\ Append(f, k) # <<>>
    BY <2>2, <2>4, FrontOfAppend
  <2>7. /\ ShownTools(f) \in Seq(ToolNames)
        /\ ShownTools(Append(f, k)) = ShownTools(f) \o k
        /\ ShownTools(Append(f, l)) = ShownTools(f) \o l
    <3>1. f \in Seq(Seq(ToolNames)) /\ l \in Seq(ToolNames) /\ k \in Seq(ToolNames)
      BY <1>1, <2>2, <2>4
    <3>2. /\ ShownTools(f) \in Seq(ToolNames)
          /\ ShownTools(Append(f, k)) = ShownTools(f) \o k
      BY <3>1, ShownGrows
    <3>3. ShownTools(Append(f, l)) = ShownTools(f) \o l
      BY <3>1, ShownGrows
    <3> QED
      BY <3>2, <3>3
  <2>8. ShownTools(f) \o k = Append(ShownTools(f) \o l, t)
    <3>1. PICK s \in Seq(ToolNames) : s = ShownTools(f)
      BY <2>7
    <3>2. l \in Seq(ToolNames)
      BY <1>1, <2>2
    <3>3. s \o Append(l, t) = Append(s \o l, t)
      BY <3>2, AppendLater
    <3> QED
      BY <2>3, <3>1, <3>3, Zenon
  <2> QED
    BY <1>1, <1>2, <2>2, <2>5, <2>6, <2>7, <2>8, Zenon
<1>6. cs = Append(bs, <<t>>) \/ (bs # <<>> /\ cs = Append(Front(bs), Append(Last(bs), t)))
  BY <1>2 DEF Packs
<1> QED
  BY <1>4, <1>5, <1>6

(* The recursion of Packed, step by step.                                  *)
LEMMA PackedUnfolds ==
  ASSUME NEW a
  PROVE  \E f : /\ f[0] = <<>> /\ \A n \in 1 .. Len(PTools) : f[n] = Packs(a, f[n - 1], PTools[n])
                /\ \A n \in 0 .. Len(PTools) : f[n] \in Seq(Seq(ToolNames))
                /\ Packed(a) = f[Len(PTools)]
<1> DEFINE Step(x, n) == Packs(a, x, PTools[n])
           m == Len(PTools)
           h == CHOOSE f :
                  f = [n \in 0 .. Len(PTools) |-> IF n = 0 THEN <<>> ELSE Step(f[n - 1], n)]
<1>1. /\ m \in Nat /\ <<>> \in Seq(Seq(ToolNames))
      /\ \A n \in 1 .. m : \A x \in Seq(Seq(ToolNames)) : Step(x, n) \in Seq(Seq(ToolNames))
  <2>1. Len(PTools) \in Nat /\ \A n \in 1 .. Len(PTools) : PTools[n] \in ToolNames
    BY CatalogueType
  <2>2. \A s \in Seq(Seq(ToolNames)), t \in ToolNames : Packs(a, s, t) \in Seq(Seq(ToolNames))
    BY PacksMeans
  <2>3. <<>> \in Seq(Seq(ToolNames))
    BY EmptySeq
  <2> QED
    BY <2>1, <2>2, <2>3
<1>2. Packed(a) = h[m]
  BY Zenon DEF Packed
<1> HIDE DEF Step
<1>3. \E f : f = [n \in 0 .. m |-> IF n = 0 THEN <<>> ELSE Step(f[n - 1], n)]
  <2> HIDE DEF m
  <2>1. PICK D : D = Seq(Seq(ToolNames))
    OBVIOUS
  <2>2. PICK b : b = <<>>
    OBVIOUS
  <2>3. PICK g : g = [n \in 1 .. m |-> [x \in D |-> Step(x, n)]]
    OBVIOUS
  <2>4. b \in D /\ \A n \in 1 .. m : \A x \in D : Step(x, n) \in D
    BY <1>1, <2>1, <2>2
  <2>5. StaysIn(g, m, D)
    BY <2>3, <2>4 DEF StaysIn
  <2>6. PICK f \in [0 .. m -> D] : Iterates(f, b, g, m)
    BY <1>1, <2>4, <2>5, RecursionExists
  <2>7. ASSUME NEW n \in 1 .. m PROVE f[n] = Step(f[n - 1], n)
    <3>1. n - 1 \in 0 .. m
      BY <1>1
    <3> QED
      BY <2>3, <2>6, <3>1 DEF Iterates
  <2>8. f = [n \in 0 .. m |-> IF n = 0 THEN b ELSE Step(f[n - 1], n)]
    BY <1>1, <2>6, <2>7 DEF Iterates
  <2> QED
    BY <2>2, <2>8, Zenon
<1>4. h = [n \in 0 .. m |-> IF n = 0 THEN <<>> ELSE Step(h[n - 1], n)]
  BY <1>3, Zenon
<1> HIDE DEF h, m
<1>5. h[0] = <<>> /\ \A n \in 1 .. m : h[n] = Step(h[n - 1], n)
  <2>1. 0 \in 0 .. m /\ \A n \in 1 .. m : n \in 0 .. m /\ n # 0
    BY <1>1
  <2> QED
    BY <1>4, <2>1
<1> DEFINE S == {n \in 0 .. m : h[n] \in Seq(Seq(ToolNames))}
<1>6. 0 \in S
  <2>1. 0 \in 0 .. m
    BY <1>1
  <2>2. h[0] \in Seq(Seq(ToolNames))
    BY <1>1, <1>5, Zenon
  <2> QED
    BY <2>1, <2>2
<1>7. ASSUME NEW n \in S, n < m PROVE n + 1 \in S
  <2>1. n + 1 \in 1 .. m /\ n + 1 \in 0 .. m /\ n + 1 - 1 = n
    BY <1>1, <1>7
  <2>2. h[n + 1] = Step(h[n], n + 1) /\ h[n] \in Seq(Seq(ToolNames))
    BY <1>5, <2>1
  <2> QED
    BY <1>1, <2>1, <2>2
<1>8. S = 0 .. m
  <2>1. S \in SUBSET (0 .. m)
    OBVIOUS
  <2> HIDE DEF S
  <2> QED
    BY <1>1, <1>6, <1>7, <2>1, UpTo
<1>9. \A n \in 0 .. m : h[n] \in Seq(Seq(ToolNames))
  BY <1>8
<1>10. \E f : /\ f[0] = <<>> /\ \A n \in 1 .. m : f[n] = Step(f[n - 1], n)
              /\ \A n \in 0 .. m : f[n] \in Seq(Seq(ToolNames))
              /\ Packed(a) = f[m]
  BY <1>2, <1>5, <1>9
<1> QED
  BY <1>10 DEF Step, m

(* The batches show every tool of the catalogue once, in order.            *)
LEMMA PackedMeans ==
  ASSUME NEW a
  PROVE  /\ Packed(a) \in Seq(Seq(ToolNames)) /\ Packed(a) # <<>>
         /\ ShownTools(Packed(a)) = PTools
<1>1. PICK m : m = Len(PTools)
  OBVIOUS
<1>2. PICK f : /\ f[0] = <<>> /\ \A n \in 1 .. m : f[n] = Packs(a, f[n - 1], PTools[n])
               /\ \A n \in 0 .. m : f[n] \in Seq(Seq(ToolNames))
               /\ Packed(a) = f[m]
  BY <1>1, PackedUnfolds
<1>3. /\ PTools \in Seq(ToolNames) /\ m \in Nat /\ m # 0
      /\ \A n \in 1 .. m : PTools[n] \in ToolNames
  BY <1>1, CatalogueType
<1> DEFINE S == {n \in 0 .. m : /\ ShownTools(f[n]) = SubSeq(PTools, 1, n)
                                /\ n = 0 \/ f[n] # <<>>}
<1>4. 0 \in S
  <2>1. SubSeq(PTools, 1, 0) \in Seq(ToolNames) /\ Len(SubSeq(PTools, 1, 0)) = 0
    BY <1>3
  <2>2. SubSeq(PTools, 1, 0) = <<>>
    BY <2>1
  <2>3. 0 \in 0 .. m
    BY <1>3
  <2> QED
    BY <1>2, <2>2, <2>3, ShownNothing, Zenon
<1>5. ASSUME NEW n \in S, n < m PROVE n + 1 \in S
  <2>1. PICK k : k = n + 1
    OBVIOUS
  <2>2. k \in 1 .. m /\ k \in 0 .. m /\ k - 1 = n /\ n \in Nat /\ n \in 0 .. m
    BY <1>3, <1>5, <2>1
  <2>3. f[k] = Packs(a, f[k - 1], PTools[k]) /\ PTools[k] \in ToolNames
    BY <1>2, <1>3, <2>2, Zenon
  <2>4. f[k - 1] \in Seq(Seq(ToolNames)) /\ ShownTools(f[k - 1]) = SubSeq(PTools, 1, n)
    BY <1>2, <2>2
  <2>5. ShownTools(f[k]) = Append(SubSeq(PTools, 1, n), PTools[k]) /\ f[k] # <<>>
    <3>1. PICK g : g = f[k - 1]
      OBVIOUS
    <3>2. PICK t : t = PTools[k]
      OBVIOUS
    <3>3. g \in Seq(Seq(ToolNames)) /\ t \in ToolNames
      BY <2>3, <2>4, <3>1, <3>2
    <3>4. Packs(a, g, t) # <<>> /\ ShownTools(Packs(a, g, t)) = Append(ShownTools(g), t)
      BY <3>3, PacksMeans
    <3> QED
      BY <2>3, <2>4, <3>1, <3>2, <3>4, Zenon
  <2>6. SubSeq(PTools, 1, n + 1) = Append(SubSeq(PTools, 1, n), PTools[n + 1])
    BY <1>1, <1>3, <1>5, <2>2, TakenGrows
  <2> QED
    BY <2>1, <2>2, <2>5, <2>6, Zenon
<1>6. S = 0 .. m
  <2>1. S \in SUBSET (0 .. m)
    OBVIOUS
  <2> HIDE DEF S
  <2> QED
    BY <1>3, <1>4, <1>5, <2>1, UpTo
<1>7. m \in S /\ m \in 0 .. m
  <2> HIDE DEF S
  <2> QED
    BY <1>3, <1>6
<1>8. SubSeq(PTools, 1, m) = PTools
  BY <1>1, <1>3
<1>9. f[m] # <<>> /\ ShownTools(f[m]) = SubSeq(PTools, 1, m) /\ f[m] \in Seq(Seq(ToolNames))
  BY <1>2, <1>3, <1>7
<1> QED
  BY <1>2, <1>8, <1>9, Zenon

(* The longest prefix that fits is there to choose.                        *)
LEMMA TruncatedType ==
  ASSUME NEW a \in Asks
  PROVE  TruncatedTo(a) \in 1 .. Len(PTools)
<1>1. PICK m : m = Len(PTools)
  OBVIOUS
<1>2. m \in Nat /\ m # 0 /\ PTools \in Seq(ToolNames) /\ a.max \in Nat
  BY <1>1, CatalogueType, ProposerAssumption
<1>3. PICK e : e = [n \in 1 .. m |-> EstimateTokens(SubSeq(PTools, 1, n), TRUE)]
  OBVIOUS
<1>4. \A n \in 1 .. m : e[n] \in Nat
  <2>1. ASSUME NEW n \in 1 .. m PROVE e[n] \in Nat
    <3>1. PICK t : t = SubSeq(PTools, 1, n)
      OBVIOUS
    <3>2. t \in Seq(ToolNames)
      BY <1>1, <1>2, <3>1, PrefixFacts
    <3> QED
      BY <1>3, <3>1, <3>2, EstimateType
  <2> QED
    BY <2>1
<1> DEFINE Fits(n) == n = 1 \/ e[n] <= a.max
           F == {n \in 1 .. m : Fits(n)}
<1>5. PICK v \in F : \A w \in F : w <= v
  <2>1. F \in SUBSET (0 .. m) /\ F # {}
    <3>1. 1 \in F
      BY <1>2
    <3> QED
      BY <3>1
  <2> HIDE DEF F
  <2> QED
    BY <1>2, <2>1, LargestOf
<1>6. v \in 1 .. m /\ (v = 1 \/ e[v] <= a.max)
  BY <1>5
<1>7. ASSUME NEW k \in (v + 1) .. m PROVE e[k] > a.max
  <2>1. k \in 1 .. m /\ k # 1 /\ ~(k <= v)
    BY <1>6
  <2>2. k \notin F
    BY <1>5, <2>1
  <2>3. ~(e[k] <= a.max) /\ e[k] \in Nat
    BY <1>4, <2>1, <2>2
  <2> QED
    BY <1>2, <2>3
<1>8. /\ v = 1 \/ EstimateTokens(SubSeq(PTools, 1, v), TRUE) <= a.max
      /\ \A k \in (v + 1) .. m : EstimateTokens(SubSeq(PTools, 1, k), TRUE) > a.max
  <2>1. \A k \in (v + 1) .. m : k \in 1 .. m
    BY <1>6
  <2> QED
    BY <1>3, <1>6, <1>7, <2>1
<1>9. \E n \in 1 .. Len(PTools) :
        /\ n = 1 \/ EstimateTokens(SubSeq(PTools, 1, n), TRUE) <= a.max
        /\ \A k \in (n + 1) .. Len(PTools) : EstimateTokens(SubSeq(PTools, 1, k), TRUE) > a.max
  BY <1>1, <1>6, <1>8
<1> QED
  BY <1>9, Zenon DEF TruncatedTo

(* A call that does not overflow prompts within its budget.                *)
LEMMA WithinBudget ==
  ASSUME NEW a \in Asks, NEW bs \in Seq(Seq(ToolNames)), bs = PlannedBatches(a),
         NEW cap \in BOOLEAN, cap = (a.overflow = "truncate"),
         a.overflow \in {"error", "truncate", "batch"}, ~Overflows(a)
  PROVE  \A i \in 1 .. Len(bs) : EstimateTokens(bs[i], cap) <= a.max
<1>1. PICK m : m = Len(bs)
  OBVIOUS
<1>2. m \in Nat /\ a.max \in Nat /\ \A i \in 1 .. m : bs[i] \in Seq(ToolNames)
  BY <1>1, ProposerAssumption
<1>3. PICK e : e = [i \in 1 .. m |-> EstimateTokens(bs[i], cap)]
  OBVIOUS
<1>4. \A i \in 1 .. m : e[i] = EstimateTokens(bs[i], cap) /\ e[i] \in Nat
  <2>1. \A i \in 1 .. m : e[i] = EstimateTokens(bs[i], cap)
    BY <1>3
  <2>2. \A i \in 1 .. m : EstimateTokens(bs[i], cap) \in Nat
    BY <1>2, EstimateType
  <2> QED
    BY <2>1, <2>2
<1>5. CASE m = 0
  BY <1>1, <1>5
<1>6. CASE m # 0
  <2>1. PICK i \in 1 .. m : \A j \in 1 .. m : e[j] <= e[i]
    BY <1>2, <1>4, <1>6, LargestAmong
  <2>2. PICK ests : ests = {EstimateTokens(b, cap) : b \in ToSet(bs)}
    OBVIOUS
  <2>3. ests = {e[j] : j \in 1 .. m}
    <3>1. ToSet(bs) = {bs[j] : j \in 1 .. m}
      <4>1. DOMAIN bs = 1 .. m
        BY <1>1
      <4> QED
        BY <4>1 DEF ToSet
    <3>2. ests = {EstimateTokens(b, cap) : b \in {bs[j] : j \in 1 .. m}}
      BY <2>2, <3>1, Zenon
    <3>3. \A x : x \in ests <=> \E j \in 1 .. m : x = EstimateTokens(bs[j], cap)
      BY <3>2
    <3> QED
      BY <1>4, <3>3
  <2>4. PICK top : top = CHOOSE x \in ests : \A y \in ests : y <= x
    OBVIOUS
  <2>5. top \in ests /\ \A y \in ests : y <= top
    <3>1. e[i] \in ests /\ \A y \in ests : y <= e[i]
      BY <2>1, <2>3
    <3> QED
      BY <2>4, <3>1, Zenon
  <2>6. PlannedTokens(a) = top
    <3>1. ests = {EstimateTokens(b, a.overflow = "truncate") : b \in ToSet(PlannedBatches(a))}
      BY <2>2, Zenon
    <3>2. a.overflow # "select"
      OBVIOUS
    <3> QED
      BY <2>4, <3>1, <3>2, Zenon DEF PlannedTokens
  <2>7. top \in Nat
    BY <1>4, <2>3, <2>5
  <2>8. ~(top > a.max)
    <3>1. a.overflow # "none"
      OBVIOUS
    <3> QED
      BY <2>6, <3>1, Zenon DEF Overflows
  <2>9. \A j \in 1 .. m : e[j] <= top /\ e[j] \in Nat
    BY <1>4, <2>3, <2>5
  <2>10. top <= a.max
    BY <1>2, <2>7, <2>8
  <2>11. \A j \in 1 .. m : e[j] <= a.max
    BY <1>2, <2>7, <2>9, <2>10
  <2> QED
    BY <1>1, <1>4, <2>11
<1> QED
  BY <1>5, <1>6

(* What a planned call shows, and at what cost.                            *)
BudgetKept(a, bs) ==
  a.overflow # "none" =>
    \A i \in DOMAIN bs : EstimateTokens(bs[i], a.overflow = "truncate") <= a.max

(* A planned call shows what it selected, in order and within the budget.  *)
LEMMA PlannedMeans ==
  ASSUME NEW a \in Asks
  PROVE  /\ PlannedBatches(a) \in Seq(Seq(ToolNames))
         /\ IsPrefix(ShownTools(PlannedBatches(a)), Selected(a))
         /\ a.overflow # "truncate" /\ PlannedBatches(a) # <<>> =>
              ShownTools(PlannedBatches(a)) = Selected(a)
         /\ ~Overflows(a) => BudgetKept(a, PlannedBatches(a))
         /\ a.kind = "new" => Len(PlannedBatches(a)) = 1
<1>1. PICK bs : bs = PlannedBatches(a)
  OBVIOUS
<1>2. PICK sel : sel = Selected(a)
  OBVIOUS
<1>3. sel \in Seq(ToolNames) /\ PTools \in Seq(ToolNames)
  BY <1>2, SelectedType, CatalogueType
<1>4. a.kind = "new" => a.overflow = "none"
  BY ProposerAssumption
<1>5. CASE a.overflow = "truncate"
  <2>1. PICK n : n = TruncatedTo(a)
    OBVIOUS
  <2>2. PICK t : t = SubSeq(PTools, 1, n)
    OBVIOUS
  <2>3. t \in Seq(ToolNames) /\ IsPrefix(t, PTools)
    BY <1>3, <2>1, <2>2, TruncatedType, PrefixFacts
  <2>4. bs = <<t>> /\ sel = PTools
    BY <1>1, <1>2, <1>5, <2>1, <2>2 DEF PlannedBatches, Selected
  <2>5. bs \in Seq(Seq(ToolNames)) /\ ShownTools(bs) = t
    BY <2>3, <2>4, ShownOne
  <2>6. ~Overflows(a) => BudgetKept(a, bs)
    <3>1. SUFFICES ASSUME ~Overflows(a) PROVE BudgetKept(a, bs)
      OBVIOUS
    <3>2. \A i \in 1 .. Len(bs) : EstimateTokens(bs[i], TRUE) <= a.max
      BY <1>1, <1>5, <2>5, <3>1, WithinBudget
    <3>3. DOMAIN bs = 1 .. Len(bs) /\ (a.overflow = "truncate") = TRUE
      BY <1>5, <2>5
    <3> QED
      BY <3>2, <3>3, Zenon DEF BudgetKept
  <2> QED
    BY <1>1, <1>2, <1>4, <1>5, <2>3, <2>4, <2>5, <2>6, Zenon
<1>6. CASE a.overflow \in {"none", "error", "batch"}
  <2>1. bs = (IF a.overflow = "batch" THEN Packed(a) ELSE <<PTools>>) /\ sel = PTools
    BY <1>1, <1>2, <1>6 DEF PlannedBatches, Selected
  <2>2. bs \in Seq(Seq(ToolNames)) /\ ShownTools(bs) = PTools
        /\ (a.overflow = "none" => Len(bs) = 1)
    <3>1. CASE a.overflow = "batch"
      BY <2>1, <3>1, PackedMeans
    <3>2. CASE a.overflow # "batch"
      <4>1. PICK p \in Seq(ToolNames) : p = PTools
        BY <1>3
      <4>2. bs = <<p>>
        BY <2>1, <3>2, <4>1
      <4> QED
        BY <4>1, <4>2, ShownOne
    <3> QED
      BY <3>1, <3>2
  <2>3. IsPrefix(PTools, PTools)
    BY <1>3, PrefixFacts
  <2>4. ~Overflows(a) => BudgetKept(a, bs)
    <3>1. SUFFICES ASSUME ~Overflows(a), a.overflow # "none" PROVE BudgetKept(a, bs)
      BY DEF BudgetKept
    <3>2. a.overflow # "truncate" /\ a.overflow \in {"error", "truncate", "batch"}
      BY <1>6, <3>1
    <3>3. \A i \in 1 .. Len(bs) : EstimateTokens(bs[i], FALSE) <= a.max
      BY <1>1, <2>2, <3>1, <3>2, WithinBudget
    <3>4. DOMAIN bs = 1 .. Len(bs) /\ (a.overflow = "truncate") = FALSE
      BY <2>2, <3>2
    <3> QED
      BY <3>3, <3>4, Zenon DEF BudgetKept
  <2> QED
    BY <1>1, <1>2, <1>4, <2>1, <2>2, <2>3, <2>4, Zenon
<1>7. CASE a.overflow = "select"
  <2>1. bs = IF sel = <<>> THEN <<>> ELSE <<sel>>
    BY <1>1, <1>2, <1>7 DEF PlannedBatches
  <2>2. CASE sel = <<>>
    <3>1. bs = <<>> /\ <<>> \in Seq(Seq(ToolNames))
      BY <2>1, <2>2, EmptySeq
    <3>2. IsPrefix(<<>>, sel)
      BY <1>3, PrefixFacts
    <3>3. BudgetKept(a, bs)
      BY <3>1 DEF BudgetKept
    <3> QED
      BY <1>1, <1>2, <1>4, <1>7, <3>1, <3>2, <3>3, ShownNothing, Zenon
  <2>3. CASE sel # <<>>
    <3>1. bs = <<sel>>
      BY <2>1, <2>3
    <3>2. bs \in Seq(Seq(ToolNames)) /\ Len(bs) = 1 /\ bs[1] = sel /\ ShownTools(bs) = sel
      BY <1>3, <3>1, ShownOne
    <3>3. IsPrefix(sel, sel)
      BY <1>3, PrefixFacts
    <3>4. ~Overflows(a) => BudgetKept(a, bs)
      <4>1. SUFFICES ASSUME ~Overflows(a) PROVE BudgetKept(a, bs)
        OBVIOUS
      <4>2. PlannedTokens(a) = EstimateTokens(sel, FALSE)
        BY <1>2, <1>7 DEF PlannedTokens
      <4>3. EstimateTokens(sel, FALSE) \in Nat /\ a.max \in Nat
        BY <1>3, EstimateType, ProposerAssumption
      <4>4. ~(EstimateTokens(sel, FALSE) > a.max)
        <5>1. a.overflow # "none"
          BY <1>7
        <5> QED
          BY <4>1, <4>2, <5>1, Zenon DEF Overflows
      <4>5. EstimateTokens(sel, FALSE) <= a.max
        <5>1. PICK e \in Nat : e = EstimateTokens(sel, FALSE)
          BY <4>3
        <5>2. PICK x \in Nat : x = a.max
          BY <4>3
        <5>3. e <= x
          <6>1. ~(e > x)
            BY <4>4, <5>1, <5>2, Zenon
          <6> QED
            BY <6>1
        <5> QED
          BY <5>1, <5>2, <5>3, Zenon
      <4>6. \A i \in DOMAIN bs : bs[i] = sel
        BY <3>2
      <4>7. (a.overflow = "truncate") = FALSE
        BY <1>7
      <4> QED
        BY <4>5, <4>6, <4>7, Zenon DEF BudgetKept
    <3> QED
      BY <1>1, <1>2, <1>4, <1>7, <3>2, <3>3, <3>4
  <2> QED
    BY <2>2, <2>3
<1> QED
  BY <1>5, <1>6, <1>7, ProposerAssumption

-----------------------------------------------------------------------------
(* The inductive invariant.                                                *)

(* What the provider may name, and what is kept of it.                     *)
Answers == UNION {Range(c) : c \in Completions}
Keepables ==
  [name : {p.name : p \in Answers}, uses : {p.uses : p \in Answers} \cup {{p.name} : p \in Answers},
   others : {p.others : p \in Answers}, safe : {p.safe : p \in Answers}, batch : Nat]
EachPrompt == (MaxRepairs + 1) * (MaxRetries + 1)

ProposerTypes ==
  /\ ask \in Asks \cup {NoAsk} /\ phase \in {"idle", "send", "parse", "write"}
  /\ at \in Nat /\ sent \in Nat /\ usage \in Nat
  /\ completion \in Completions \cup {<<>>} /\ kept \in Seq(Keepables)
  /\ tries \in 0 .. MaxRetries /\ repairs \in (0 .. MaxRepairs) \X Nat

(* The batches are those planned for the call, which fit its budget.       *)
Planned ==
  batches = <<>> \/ (ask \in Asks /\ batches = PlannedBatches(ask) /\ ~Overflows(ask))

InTurn ==
  /\ phase \in {"send", "parse"} => ask \in Asks /\ at \in 1 .. Len(batches)
  /\ phase = "write" => ask \in Asks

(* A proposal belongs to the prompt it answered; the first of a name stays. *)
Grounded(ps) ==
  /\ \A i \in 1 .. Len(ps) :
       /\ ps[i].batch \in 1 .. at /\ ps[i].batch \in 1 .. Len(batches)
       /\ ask.kind # "new" => ps[i].uses \subseteq ToSet(batches[ps[i].batch])
  /\ ask.kind # "new" => \A i, j \in 1 .. Len(ps) : i # j => ps[i].name # ps[j].name

(* What the prompts before cost, and this one so far.                      *)
Attempts ==
  /\ phase = "send" =>
       sent <= (at - 1) * EachPrompt + repairs[1] * (MaxRetries + 1) + tries
  /\ phase = "parse" =>
       tries = 0 /\ sent <= (at - 1) * EachPrompt + (repairs[1] + 1) * (MaxRetries + 1)
  /\ sent <= at * EachPrompt
  /\ usage <= MaxLlmCalls /\ (phase = "send" /\ tries > 0 => usage < MaxLlmCalls)

Indexed == drafts.index \subseteq drafts.flows /\ drafts.flows = drafts.provenance

ProposerInv == ProposerTypes /\ Planned /\ InTurn /\ Grounded(kept) /\ Attempts /\ Indexed

(* Proposals that may be kept while prompt "at" is in progress.            *)
Keeps == {ps \in Seq(Keepables) : Grounded(ps)}
(* An answer of the provider that its prompt allows.                       *)
Answered(p) == p \in Answers /\ Uses(p) \subseteq BatchNames

-----------------------------------------------------------------------------
(* How many attempts the prompts so far may have taken.                    *)

(* Natural numbers are closed under multiplication.                        *)
LEMMA NatTimes == \A x, y \in Nat : x * y \in Nat
OBVIOUS

(* What one more prompt and one more repair allow.                         *)
LEMMA AttemptsAdd ==
  ASSUME NEW n \in Nat, n # 0, NEW k \in 0 .. MaxRepairs
  PROVE  /\ EachPrompt \in Nat /\ n * EachPrompt \in Nat /\ (n - 1) * EachPrompt \in Nat
         /\ k * (MaxRetries + 1) \in Nat
         /\ (k + 1) * (MaxRetries + 1) = k * (MaxRetries + 1) + (MaxRetries + 1)
         /\ (k + 1) * (MaxRetries + 1) <= EachPrompt
         /\ n * EachPrompt = (n - 1) * EachPrompt + EachPrompt
<1>1. PICK r \in Nat : r = MaxRetries + 1
  BY ProposerAssumption
<1>2. PICK d \in Nat : d = MaxRepairs - k
  BY ProposerAssumption
<1>3. MaxRepairs \in Nat /\ k \in Nat /\ MaxRepairs + 1 = (k + 1) + d /\ k + 1 \in Nat
  BY <1>2, ProposerAssumption
<1>4. PICK e \in Nat : e = (MaxRepairs + 1) * r
  BY <1>1, <1>3, NatTimes
<1>5. k * r \in Nat /\ d * r \in Nat /\ (k + 1) * r \in Nat
  BY <1>1, <1>2, <1>3, NatTimes
<1>6. e = (k + 1) * r + d * r
  <2>1. \A x, y, z \in Nat : (x + y) * z = x * z + y * z
    OBVIOUS
  <2> QED
    BY <1>3, <1>4, <2>1
<1>7. (k + 1) * r = k * r + r
  BY <1>3
<1>8. (k + 1) * r <= e
  BY <1>5, <1>6
<1>9. n - 1 \in Nat /\ n * e \in Nat /\ (n - 1) * e \in Nat /\ n * e = (n - 1) * e + e
  <2>1. n - 1 \in Nat
    OBVIOUS
  <2>2. n * e \in Nat /\ (n - 1) * e \in Nat
    BY <2>1, NatTimes
  <2>3. n * e = (n - 1) * e + e
    OBVIOUS
  <2> QED
    BY <2>1, <2>2, <2>3
<1>10. EachPrompt = e
  BY <1>1, <1>4 DEF EachPrompt
<1> QED
  BY <1>1, <1>5, <1>7, <1>8, <1>9, <1>10

-----------------------------------------------------------------------------
(* Merging keeps the proposals grounded.                                   *)

(* A proposal that is merged keeps the others grounded, and is grounded.   *)
LEMMA MergesMeans ==
  ASSUME NEW ps \in Keeps, NEW p, Answered(p), at \in 1 .. Len(batches), ask \in Asks
  PROVE  Merges(ps, p) \in Keeps
<1>1. ps \in Seq(Keepables) /\ Grounded(ps)
  BY DEF Keeps
<1>2. CASE Merges(ps, p) = ps
  BY <1>2
<1>3. CASE Merges(ps, p) # ps
  <2>1. PICK r : r = [name |-> p.name, uses |-> Uses(p), others |-> p.others, safe |-> p.safe,
                      batch |-> at]
    OBVIOUS
  <2>2. PICK qs : qs = Append(ps, r)
    OBVIOUS
  <2>3. /\ Merges(ps, p) = qs
        /\ ask.kind # "new" => \A i \in DOMAIN ps : ps[i].name # p.name
    BY <1>3, <2>1, <2>2 DEF Merges
  <2>4. /\ r.name = p.name /\ r.uses = Uses(p) /\ r.batch = at
        /\ p \in Answers /\ r.uses \subseteq BatchNames
    BY <2>1 DEF Answered
  <2>5. r \in Keepables
    <3>1. /\ p.name \in {x.name : x \in Answers} /\ p.others \in {x.others : x \in Answers}
          /\ p.safe \in {x.safe : x \in Answers} /\ at \in Nat
      BY <2>4
    <3>2. Uses(p) \in {x.uses : x \in Answers} \cup {{x.name} : x \in Answers}
      BY <2>4 DEF Uses
    <3> QED
      BY <2>1, <3>1, <3>2, Zenon DEF Keepables
  <2>6. /\ qs \in Seq(Keepables) /\ Len(qs) = Len(ps) + 1 /\ Len(ps) \in Nat
        /\ qs[Len(ps) + 1] = r /\ \A i \in 1 .. Len(ps) : qs[i] = ps[i]
    BY <1>1, <2>2, <2>5, FrontOfAppend, LenProperties
  <2>7. DOMAIN ps = 1 .. Len(ps) /\ \A i \in 1 .. Len(qs) : i \in 1 .. Len(ps) \/ i = Len(ps) + 1
    BY <1>1, <2>6
  <2>8. ASSUME NEW i \in 1 .. Len(qs)
        PROVE  /\ qs[i].batch \in 1 .. at /\ qs[i].batch \in 1 .. Len(batches)
               /\ ask.kind # "new" => qs[i].uses \subseteq ToSet(batches[qs[i].batch])
    <3>1. CASE i \in 1 .. Len(ps)
      BY <1>1, <2>6, <3>1 DEF Grounded
    <3>2. CASE i = Len(ps) + 1
      <4>1. at \in 1 .. at
        OBVIOUS
      <4>2. ask.kind # "new" => r.uses \subseteq ToSet(batches[at])
        BY <2>4 DEF BatchNames
      <4> QED
        BY <2>4, <2>6, <3>2, <4>1, <4>2
    <3> QED
      BY <2>7, <3>1, <3>2
  <2>9. ASSUME ask.kind # "new", NEW i \in 1 .. Len(qs), NEW j \in 1 .. Len(qs), i # j
        PROVE  qs[i].name # qs[j].name
    <3>1. CASE i \in 1 .. Len(ps) /\ j \in 1 .. Len(ps)
      BY <1>1, <2>6, <2>9, <3>1 DEF Grounded
    <3>2. CASE i \in 1 .. Len(ps) /\ j = Len(ps) + 1
      BY <2>3, <2>4, <2>6, <2>7, <2>9, <3>2
    <3>3. CASE i = Len(ps) + 1 /\ j \in 1 .. Len(ps)
      BY <2>3, <2>4, <2>6, <2>7, <2>9, <3>3
    <3> QED
      BY <2>7, <2>9, <3>1, <3>2, <3>3
  <2>10. Grounded(qs)
    BY <2>8, <2>9 DEF Grounded
  <2> QED
    BY <2>3, <2>6, <2>10 DEF Keeps
<1> QED
  BY <1>2, <1>3

(* The recursion of Merged, step by step.                                  *)
LEMMA MergedUnfolds ==
  ASSUME kept \in Keeps, NEW c, Len(c) \in Nat, \A n \in 1 .. Len(c) : Answered(c[n]),
         at \in 1 .. Len(batches), ask \in Asks
  PROVE  \E f : /\ f[0] = kept /\ \A n \in 1 .. Len(c) : f[n] = Merges(f[n - 1], c[n])
                /\ \A n \in 0 .. Len(c) : f[n] \in Keeps
                /\ Merged(c) = f[Len(c)]
<1> DEFINE Step(x, n) == Merges(x, c[n])
           m == Len(c)
           h == CHOOSE f :
                  f = [n \in 0 .. Len(c) |-> IF n = 0 THEN kept ELSE Step(f[n - 1], n)]
<1>1. /\ m \in Nat /\ kept \in Keeps
      /\ \A n \in 1 .. m : \A x \in Keeps : Step(x, n) \in Keeps
  <2>1. \A n \in 1 .. m : \A x \in Keeps : Merges(x, c[n]) \in Keeps
    BY MergesMeans
  <2> QED
    BY <2>1
<1>2. Merged(c) = h[m]
  BY Zenon DEF Merged
<1> HIDE DEF Step
<1>3. \E f : f = [n \in 0 .. m |-> IF n = 0 THEN kept ELSE Step(f[n - 1], n)]
  <2> HIDE DEF m
  <2>1. PICK D : D = Keeps
    OBVIOUS
  <2>2. PICK b : b = kept
    OBVIOUS
  <2>3. PICK g : g = [n \in 1 .. m |-> [x \in D |-> Step(x, n)]]
    OBVIOUS
  <2>4. b \in D /\ \A n \in 1 .. m : \A x \in D : Step(x, n) \in D
    BY <1>1, <2>1, <2>2
  <2>5. StaysIn(g, m, D)
    BY <2>3, <2>4 DEF StaysIn
  <2>6. PICK f \in [0 .. m -> D] : Iterates(f, b, g, m)
    BY <1>1, <2>4, <2>5, RecursionExists
  <2>7. ASSUME NEW n \in 1 .. m PROVE f[n] = Step(f[n - 1], n)
    <3>1. n - 1 \in 0 .. m
      BY <1>1
    <3> QED
      BY <2>3, <2>6, <3>1 DEF Iterates
  <2>8. f = [n \in 0 .. m |-> IF n = 0 THEN b ELSE Step(f[n - 1], n)]
    BY <1>1, <2>6, <2>7 DEF Iterates
  <2> QED
    BY <2>2, <2>8, Zenon
<1>4. h = [n \in 0 .. m |-> IF n = 0 THEN kept ELSE Step(h[n - 1], n)]
  BY <1>3, Zenon
<1> HIDE DEF h, m
<1>5. h[0] = kept /\ \A n \in 1 .. m : h[n] = Step(h[n - 1], n)
  <2>1. 0 \in 0 .. m /\ \A n \in 1 .. m : n \in 0 .. m /\ n # 0
    BY <1>1
  <2> QED
    BY <1>4, <2>1
<1> DEFINE S == {n \in 0 .. m : h[n] \in Keeps}
<1>6. 0 \in S
  <2>1. 0 \in 0 .. m
    BY <1>1
  <2>2. h[0] \in Keeps
    BY <1>1, <1>5, Zenon
  <2> QED
    BY <2>1, <2>2
<1>7. ASSUME NEW n \in S, n < m PROVE n + 1 \in S
  <2>1. n + 1 \in 1 .. m /\ n + 1 \in 0 .. m /\ n + 1 - 1 = n
    BY <1>1, <1>7
  <2>2. h[n + 1] = Step(h[n], n + 1) /\ h[n] \in Keeps
    BY <1>5, <2>1
  <2> QED
    BY <1>1, <2>1, <2>2
<1>8. S = 0 .. m
  <2>1. S \in SUBSET (0 .. m)
    OBVIOUS
  <2> HIDE DEF S
  <2> QED
    BY <1>1, <1>6, <1>7, <2>1, UpTo
<1>9. \A n \in 0 .. m : h[n] \in Keeps
  BY <1>8
<1>10. \E f : /\ f[0] = kept /\ \A n \in 1 .. m : f[n] = Step(f[n - 1], n)
              /\ \A n \in 0 .. m : f[n] \in Keeps
              /\ Merged(c) = f[m]
  BY <1>2, <1>5, <1>9
<1> QED
  BY <1>10 DEF Step, m

(* All that a completion proposes is merged like that.                     *)
LEMMA MergedKeeps ==
  ASSUME ProposerInv, phase = "parse", Parses(completion)
  PROVE  Merged(completion) \in Keeps
<1>1. PICK c : c = completion
  OBVIOUS
<1>2. c \in Completions \cup {<<>>} /\ kept \in Keeps /\ at \in 1 .. Len(batches) /\ ask \in Asks
  BY <1>1 DEF ProposerInv, ProposerTypes, InTurn, Keeps
<1>3. Len(c) \in Nat /\ DOMAIN c = 1 .. Len(c)
  <2>1. CASE c = <<>>
    BY <2>1
  <2>2. CASE c \in Completions
    <3>1. PICK R : R = Range(c)
      OBVIOUS
    <3>2. c \in Seq(R)
      BY <2>2, <3>1, ProposerAssumption
    <3> QED
      BY <3>2
  <2> QED
    BY <1>2, <2>1, <2>2
<1>4. ASSUME NEW n \in 1 .. Len(c) PROVE Answered(c[n])
  <2>1. c \in Completions
    <3>1. c # <<>>
      BY <1>4
    <3> QED
      BY <1>2, <3>1
  <2>2. c[n] \in Answers
    <3>1. c[n] \in Range(c)
      BY <1>3 DEF Range
    <3> QED
      BY <2>1, <3>1 DEF Answers
  <2>3. Uses(c[n]) \subseteq BatchNames
    BY <1>1, <1>3 DEF Parses
  <2> QED
    BY <2>2, <2>3 DEF Answered
<1>5. PICK f : (\A n \in 0 .. Len(c) : f[n] \in Keeps) /\ Merged(c) = f[Len(c)]
  BY <1>2, <1>3, <1>4, MergedUnfolds
<1>6. Len(c) \in 0 .. Len(c)
  BY <1>3
<1> QED
  BY <1>1, <1>5, <1>6

(* No proposals are grounded proposals.                                    *)
LEMMA NoneKept == <<>> \in Seq(Keepables) /\ Grounded(<<>>)
<1>1. <<>> \in Seq(Keepables)
  BY EmptySeq
<1>2. Len(<<>>) = 0 /\ 1 .. 0 = {}
  OBVIOUS
<1> QED
  BY <1>1, <1>2 DEF Grounded

-----------------------------------------------------------------------------
(* The invariant holds initially and is kept by every step.                *)

(* Before any call the invariant holds.                                    *)
LEMMA ProposerInitially == ProposerInit => ProposerInv
<1> SUFFICES ASSUME ProposerInit PROVE ProposerInv
  OBVIOUS
<1>1. /\ ask = NoAsk /\ phase = "idle" /\ batches = <<>> /\ at = 0 /\ completion = <<>>
      /\ tries = 0 /\ repairs = <<0, 0>> /\ kept = <<>> /\ usage = 0 /\ sent = 0
      /\ drafts = [flows |-> {}, provenance |-> {}, index |-> {}]
  BY DEF ProposerInit
<1>2. MaxRetries \in Nat /\ MaxRepairs \in Nat /\ MaxLlmCalls \in Nat
  BY ProposerAssumption
<1>3. ProposerTypes
  <2>1. 0 \in 0 .. MaxRetries /\ <<0, 0>> \in (0 .. MaxRepairs) \X Nat
    BY <1>2
  <2> QED
    BY <1>1, <2>1, NoneKept DEF ProposerTypes
<1>4. Planned /\ InTurn /\ Indexed
  BY <1>1 DEF Planned, InTurn, Indexed
<1>5. Grounded(kept)
  BY <1>1, NoneKept
<1>6. Attempts
  <2>1. EachPrompt \in Nat
    BY <1>2, NatTimes DEF EachPrompt
  <2>2. 0 * EachPrompt = 0
    BY <2>1
  <2> QED
    BY <1>1, <1>2, <2>2 DEF Attempts
<1> QED
  BY <1>3, <1>4, <1>5, <1>6 DEF ProposerInv

(* What the invariant says of the numbers of the call.                     *)
LEMMA CallNumbers ==
  ASSUME ProposerInv
  PROVE  /\ at \in Nat /\ sent \in Nat /\ usage \in Nat /\ tries \in Nat /\ repairs[1] \in Nat
         /\ tries <= MaxRetries /\ repairs[1] <= MaxRepairs /\ repairs[2] \in Nat
         /\ repairs = <<repairs[1], repairs[2]>>
         /\ usage <= MaxLlmCalls /\ sent <= at * EachPrompt
         /\ MaxRetries \in Nat /\ MaxRepairs \in Nat /\ MaxLlmCalls \in Nat
         /\ phase \in {"send", "parse"} =>
              ask \in Asks /\ at \in 1 .. Len(batches) /\ at # 0
         /\ phase = "send" /\ tries > 0 => usage < MaxLlmCalls
         /\ phase = "send" => sent <= (at - 1) * EachPrompt + repairs[1] * (MaxRetries + 1) + tries
         /\ phase = "parse" =>
              tries = 0 /\ sent <= (at - 1) * EachPrompt + (repairs[1] + 1) * (MaxRetries + 1)
<1>1. ProposerTypes /\ InTurn /\ Attempts
  BY DEF ProposerInv
<1>2. MaxRetries \in Nat /\ MaxRepairs \in Nat /\ MaxLlmCalls \in Nat
  BY ProposerAssumption
<1>3. at \in Nat /\ sent \in Nat /\ usage \in Nat /\ tries \in 0 .. MaxRetries
      /\ repairs \in (0 .. MaxRepairs) \X Nat
  BY <1>1 DEF ProposerTypes
<1>4. /\ repairs[1] \in Nat /\ repairs[1] <= MaxRepairs /\ repairs[2] \in Nat
      /\ repairs = <<repairs[1], repairs[2]>>
  BY <1>2, <1>3
<1>5. phase \in {"send", "parse"} => ask \in Asks /\ at \in 1 .. Len(batches) /\ at # 0
  BY <1>1 DEF InTurn
<1> QED
  BY <1>1, <1>2, <1>3, <1>4, <1>5 DEF Attempts

(* A call that is planned shows what it selected, within its budget.       *)
LEMMA StartKeeps ==
  ASSUME ProposerInv, NEW a \in Asks, Start(a)
  PROVE  ProposerInv'
<1>1. PICK bs : bs = PlannedBatches(a)
  OBVIOUS
<1>2. bs \in Seq(Seq(ToolNames))
  BY <1>1, PlannedMeans
<1>3. /\ ask' = a /\ kept' = <<>> /\ repairs' = <<0, 0>> /\ tries' = 0 /\ sent' = 0
      /\ completion' = <<>> /\ usage' = usage /\ drafts' = drafts
  BY DEF Start
<1>4. \/ phase' = "idle" /\ batches' = <<>> /\ at' = 0
      \/ /\ ~Overflows(a) /\ batches' = bs /\ at' = 1
         /\ phase' = IF bs = <<>> THEN "write" ELSE "send"
  BY <1>1 DEF Start
<1>5. /\ usage \in Nat /\ usage <= MaxLlmCalls
      /\ MaxRetries \in Nat /\ MaxRepairs \in Nat
  BY CallNumbers
<1>6. ProposerTypes'
  <2>1. 0 \in 0 .. MaxRetries /\ <<0, 0>> \in (0 .. MaxRepairs) \X Nat /\ 0 \in Nat /\ 1 \in Nat
    BY <1>5
  <2>2. phase' \in {"idle", "send", "parse", "write"} /\ at' \in Nat
    BY <1>4
  <2>3. kept' \in Seq(Keepables)
    BY <1>3, NoneKept
  <2> QED
    BY <1>3, <1>5, <2>1, <2>2, <2>3 DEF ProposerTypes
<1>7. Planned'
  BY <1>1, <1>3, <1>4 DEF Planned
<1>8. InTurn'
  <2>1. bs # <<>> => Len(bs) \in Nat /\ 1 \in 1 .. Len(bs)
    BY <1>2
  <2> QED
    BY <1>3, <1>4, <2>1 DEF InTurn
<1>9. Grounded(kept)'
  <2>1. Len(<<>>) = 0 /\ 1 .. 0 = {}
    OBVIOUS
  <2> QED
    BY <1>3, <2>1 DEF Grounded
<1>10. Attempts'
  <2>1. EachPrompt \in Nat
    BY <1>5, NatTimes DEF EachPrompt
  <2>2. PICK e \in Nat : e = EachPrompt
    BY <2>1
  <2>3. PICK r \in Nat : r = MaxRetries + 1
    BY <1>5
  <2>4. 0 * e = 0 /\ 1 * e = e /\ 0 * r = 0 /\ repairs'[1] = 0 /\ 1 - 1 = 0
    BY <1>3, <2>2, <2>3
  <2>5. phase' = "send" => sent' <= (at' - 1) * e + repairs'[1] * r + tries'
    BY <1>3, <1>4, <2>4
  <2>6. sent' <= at' * e /\ phase' # "parse" /\ tries' = 0 /\ usage' <= MaxLlmCalls
    BY <1>3, <1>4, <1>5, <2>4
  <2> QED
    BY <2>2, <2>3, <2>5, <2>6 DEF Attempts
<1>11. Indexed'
  BY <1>3 DEF ProposerInv, Indexed
<1> QED
  BY <1>6, <1>7, <1>8, <1>9, <1>10, <1>11 DEF ProposerInv

(* An error ends the call and drops what was kept.                         *)
LEMMA RaiseKeeps ==
  ASSUME ProposerInv, NEW error, Raise(error), sent' \in Nat, sent' <= at * EachPrompt,
         usage' = usage
  PROVE  ProposerInv'
<1>1. /\ phase' = "idle" /\ kept' = <<>>
      /\ UNCHANGED <<ask, batches, at, completion, tries, repairs, drafts>>
  BY DEF Raise
<1>2. ProposerTypes'
  <2>1. kept' \in Seq(Keepables)
    BY <1>1, NoneKept
  <2> QED
    BY <1>1, <2>1 DEF ProposerInv, ProposerTypes
<1>3. Planned' /\ InTurn' /\ Indexed'
  BY <1>1 DEF ProposerInv, Planned, InTurn, Indexed
<1>4. Grounded(kept)'
  <2>1. Len(<<>>) = 0 /\ 1 .. 0 = {}
    OBVIOUS
  <2> QED
    BY <1>1, <2>1 DEF Grounded
<1>5. Attempts'
  <2>1. phase' # "send" /\ phase' # "parse" /\ at' = at
    BY <1>1
  <2>2. usage <= MaxLlmCalls
    BY CallNumbers
  <2> QED
    BY <2>1, <2>2 DEF Attempts
<1> QED
  BY <1>2, <1>3, <1>4, <1>5 DEF ProposerInv

(* One more attempt stays within what this prompt may take.                *)
LEMMA OneMore ==
  ASSUME ProposerInv, phase = "send"
  PROVE  /\ sent + 1 \in Nat /\ sent + 1 <= at * EachPrompt
         /\ sent + 1 <= (at - 1) * EachPrompt + (repairs[1] + 1) * (MaxRetries + 1)
         /\ sent + 1 <= (at - 1) * EachPrompt + repairs[1] * (MaxRetries + 1) + (tries + 1)
<1>1. /\ at \in Nat /\ at # 0 /\ sent \in Nat /\ tries \in Nat /\ tries <= MaxRetries
      /\ MaxRetries \in Nat /\ repairs[1] \in 0 .. MaxRepairs
      /\ sent <= (at - 1) * EachPrompt + repairs[1] * (MaxRetries + 1) + tries
  BY CallNumbers
<1>2. PICK A \in Nat : A = (at - 1) * EachPrompt
  BY <1>1, AttemptsAdd
<1>3. PICK B \in Nat : B = repairs[1] * (MaxRetries + 1)
  BY <1>1, AttemptsAdd
<1>4. PICK C : C = (repairs[1] + 1) * (MaxRetries + 1)
  OBVIOUS
<1>5. PICK E \in Nat : E = EachPrompt
  BY <1>1, AttemptsAdd
<1>6. C = B + (MaxRetries + 1) /\ C <= E /\ at * EachPrompt = A + E
  BY <1>1, <1>2, <1>3, <1>4, <1>5, AttemptsAdd
<1>7. sent <= A + B + tries
  BY <1>1, <1>2, <1>3
<1>8. sent + 1 <= A + B + (tries + 1) /\ sent + 1 <= A + C /\ sent + 1 <= A + E
  BY <1>1, <1>6, <1>7
<1> QED
  BY <1>1, <1>2, <1>3, <1>4, <1>6, <1>8

(* An attempt, whatever becomes of it, stays within its allowance.         *)
LEMMA InvokeKeeps ==
  ASSUME ProposerInv, \/ CheckCeilings \/ InvokeTransient \/ InvokeFatal
                      \/ \E c \in Completions : InvokeOk(c)
  PROVE  ProposerInv'
<1>1. CASE CheckCeilings
  <2>1. Raise("LLMBudgetExceededError") /\ sent' = sent /\ usage' = usage
    BY <1>1 DEF CheckCeilings
  <2>2. sent' \in Nat /\ sent' <= at * EachPrompt
    BY <2>1, CallNumbers
  <2> QED
    BY <2>1, <2>2, RaiseKeeps
<1>2. CASE InvokeFatal
  <2>1. Raise("provider error") /\ sent' = sent + 1 /\ usage' = usage /\ phase = "send"
    BY <1>2 DEF InvokeFatal, MayInvoke
  <2>2. sent' \in Nat /\ sent' <= at * EachPrompt
    BY <2>1, OneMore
  <2> QED
    BY <2>1, <2>2, RaiseKeeps
<1>3. CASE InvokeTransient
  <2>1. sent' = sent + 1 /\ usage' = usage /\ phase = "send" /\ (tries > 0 \/ usage < MaxLlmCalls)
    BY <1>3 DEF InvokeTransient, MayInvoke
  <2>2. sent' \in Nat /\ sent' <= at * EachPrompt
    BY <2>1, OneMore
  <2>3. CASE tries = MaxRetries
    <3>1. Raise("LLMProviderError")
      BY <1>3, <2>3 DEF InvokeTransient
    <3> QED
      BY <2>1, <2>2, <3>1, RaiseKeeps
  <2>4. CASE tries # MaxRetries
    <3>1. /\ tries' = tries + 1
          /\ UNCHANGED <<ask, phase, batches, at, completion, repairs, kept, drafts>>
      BY <1>3, <2>4 DEF InvokeTransient
    <3>2. tries' \in 0 .. MaxRetries /\ usage < MaxLlmCalls
      <4>1. tries \in Nat /\ tries <= MaxRetries /\ MaxRetries \in Nat
            /\ (tries > 0 => usage < MaxLlmCalls)
        BY <2>1, CallNumbers
      <4>2. tries + 1 \in 0 .. MaxRetries
        BY <2>4, <4>1
      <4> QED
        BY <2>1, <3>1, <4>1, <4>2, Zenon
    <3>3. ProposerTypes'
      BY <2>1, <2>2, <3>1, <3>2 DEF ProposerInv, ProposerTypes
    <3>4. Planned' /\ InTurn' /\ Indexed' /\ Grounded(kept)'
      BY <3>1 DEF ProposerInv, Planned, InTurn, Indexed, Grounded
    <3>5. Attempts'
      <4>1. sent' <= (at' - 1) * EachPrompt + repairs'[1] * (MaxRetries + 1) + tries'
        <5>1. sent + 1 <= (at - 1) * EachPrompt + repairs[1] * (MaxRetries + 1) + (tries + 1)
          BY <2>1, OneMore
        <5> QED
          BY <2>1, <3>1, <5>1, Zenon
      <4>2. usage' < MaxLlmCalls /\ usage' <= MaxLlmCalls
        BY <2>1, <3>2, CallNumbers
      <4>3. sent' <= at' * EachPrompt /\ phase' # "parse"
        BY <2>1, <2>2, <3>1
      <4> QED
        BY <4>1, <4>2, <4>3 DEF Attempts
    <3> QED
      BY <3>3, <3>4, <3>5 DEF ProposerInv
  <2> QED
    BY <2>3, <2>4
<1>4. CASE \E c \in Completions : InvokeOk(c)
  <2>1. PICK c \in Completions : InvokeOk(c)
    BY <1>4
  <2>2. /\ phase = "send" /\ (tries > 0 \/ usage < MaxLlmCalls)
        /\ sent' = sent + 1 /\ usage' = usage + 1 /\ tries' = 0
        /\ completion' = c /\ phase' = "parse"
        /\ UNCHANGED <<ask, batches, at, repairs, kept, drafts>>
    BY <2>1 DEF InvokeOk, MayInvoke
  <2>3. /\ usage \in Nat /\ MaxLlmCalls \in Nat /\ usage < MaxLlmCalls /\ MaxRetries \in Nat
        /\ ask \in Asks /\ at \in 1 .. Len(batches)
    BY <2>2, CallNumbers
  <2>4. ProposerTypes'
    <3>1. 0 \in 0 .. MaxRetries /\ sent' \in Nat /\ usage' \in Nat
      BY <2>2, <2>3, OneMore
    <3> QED
      BY <2>2, <3>1 DEF ProposerInv, ProposerTypes
  <2>5. Planned' /\ InTurn' /\ Indexed' /\ Grounded(kept)'
    BY <2>2, <2>3 DEF ProposerInv, Planned, InTurn, Indexed, Grounded
  <2>6. Attempts'
    <3>1. sent' <= (at' - 1) * EachPrompt + (repairs'[1] + 1) * (MaxRetries + 1)
      <4>1. sent + 1 <= (at - 1) * EachPrompt + (repairs[1] + 1) * (MaxRetries + 1)
        BY <2>2, OneMore
      <4> QED
        BY <2>2, <4>1, Zenon
    <3>2. sent' <= at' * EachPrompt
      BY <2>2, OneMore
    <3>3. usage' <= MaxLlmCalls /\ phase' # "send"
      BY <2>2, <2>3
    <3> QED
      BY <2>2, <3>1, <3>2, <3>3 DEF Attempts
  <2> QED
    BY <2>4, <2>5, <2>6 DEF ProposerInv
<1> QED
  BY <1>1, <1>2, <1>3, <1>4

(* The proposals of a prompt are merged, and the next one is in turn.      *)
LEMMA ParseOkKeeps ==
  ASSUME ProposerInv, ParseOk
  PROVE  ProposerInv'
<1>1. /\ phase = "parse" /\ Parses(completion) /\ kept' = Merged(completion)
      /\ repairs' = <<0, repairs[2]>>
      /\ UNCHANGED <<ask, batches, completion, tries, usage, sent, drafts>>
      /\ \/ at < Len(batches) /\ phase' = "send" /\ at' = at + 1
         \/ phase' = "write" /\ at' = at
  BY DEF ParseOk
<1>2. /\ at \in Nat /\ at # 0 /\ at \in 1 .. Len(batches) /\ ask \in Asks /\ sent \in Nat
      /\ tries = 0 /\ repairs[1] \in 0 .. MaxRepairs /\ repairs[2] \in Nat
      /\ sent <= (at - 1) * EachPrompt + (repairs[1] + 1) * (MaxRetries + 1)
      /\ usage <= MaxLlmCalls /\ MaxRepairs \in Nat /\ MaxRetries \in Nat
      /\ sent <= at * EachPrompt
  BY <1>1, CallNumbers
<1>3. Merged(completion) \in Seq(Keepables) /\ Grounded(Merged(completion))
  BY <1>1, MergedKeeps DEF Keeps
<1>4. at' \in Nat /\ at <= at'
  BY <1>1, <1>2
<1>5. ProposerTypes'
  <2>1. <<0, repairs[2]>> \in (0 .. MaxRepairs) \X Nat
    BY <1>2
  <2>2. phase' \in {"idle", "send", "parse", "write"}
    BY <1>1
  <2> QED
    BY <1>1, <1>3, <1>4, <2>1, <2>2 DEF ProposerInv, ProposerTypes
<1>6. Planned' /\ Indexed'
  BY <1>1 DEF ProposerInv, Planned, Indexed
<1>7. InTurn'
  <2>1. batches \in Seq(Seq(ToolNames)) /\ Len(batches) \in Nat
    <3>1. batches = <<>> \/ batches = PlannedBatches(ask)
      BY DEF ProposerInv, Planned
    <3>2. PlannedBatches(ask) \in Seq(Seq(ToolNames)) /\ <<>> \in Seq(Seq(ToolNames))
      BY <1>2, PlannedMeans, EmptySeq
    <3>3. batches \in Seq(Seq(ToolNames))
      BY <3>1, <3>2
    <3> QED
      BY <3>3
  <2>2. at < Len(batches) => at + 1 \in 1 .. Len(batches)
    BY <1>2, <2>1
  <2> QED
    BY <1>1, <1>2, <2>2 DEF InTurn
<1>8. Grounded(kept)'
  <2>1. PICK ps : ps = Merged(completion)
    OBVIOUS
  <2>2. Grounded(ps) /\ kept' = ps
    BY <1>1, <1>3, <2>1
  <2>3. 1 .. at \subseteq 1 .. at'
    BY <1>2, <1>4
  <2> QED
    BY <1>1, <2>2, <2>3 DEF Grounded
<1>9. Attempts'
  <2>1. PICK E \in Nat : E = EachPrompt
    BY <1>2, AttemptsAdd
  <2>2. PICK A \in Nat : A = at * E
    BY <1>2, <2>1, AttemptsAdd
  <2>3. PICK R \in Nat : R = MaxRetries + 1
    BY <1>2
  <2>4. (at + 1 - 1) * E = A /\ 0 * R = 0 /\ (at + 1) * E = A + E
    <3>1. at + 1 - 1 = at /\ at + 1 \in Nat /\ at + 1 # 0
      BY <1>2
    <3>2. (at + 1) * E = (at + 1 - 1) * E + E
      BY <1>2, <2>1, <3>1, AttemptsAdd
    <3>3. (at + 1 - 1) * E = A
      BY <2>2, <3>1, Zenon
    <3> QED
      BY <2>3, <3>2, <3>3
  <2>5. sent <= A /\ sent' = sent /\ tries' = 0 /\ repairs'[1] = 0
    BY <1>1, <1>2, <2>1, <2>2
  <2>6. CASE at' = at + 1 /\ phase' = "send"
    <3>1. sent' <= (at' - 1) * E + repairs'[1] * R + tries'
      <4>1. sent' <= A + 0 + 0
        BY <2>5
      <4>2. (at' - 1) * E = A /\ repairs'[1] * R = 0 /\ tries' = 0
        BY <2>4, <2>5, <2>6
      <4> QED
        BY <4>1, <4>2
    <3>2. sent' <= at' * E
      <4>1. sent <= A + E
        BY <1>2, <2>5
      <4> QED
        BY <2>4, <2>5, <2>6, <4>1, Zenon
    <3>3. usage' <= MaxLlmCalls /\ ~(tries' > 0) /\ phase' # "parse"
      BY <1>1, <1>2, <2>5, <2>6
    <3> QED
      BY <2>1, <2>3, <3>1, <3>2, <3>3 DEF Attempts
  <2>7. CASE at' = at /\ phase' = "write"
    BY <1>1, <1>2, <2>7 DEF Attempts
  <2> QED
    BY <1>1, <2>6, <2>7
<1> QED
  BY <1>5, <1>6, <1>7, <1>8, <1>9 DEF ProposerInv

(* A completion that does not parse costs a repair, or ends the call.      *)
LEMMA RepairKeeps ==
  ASSUME ProposerInv, Repair
  PROVE  ProposerInv'
<1>1. phase = "parse" /\ usage' = usage /\ sent' = sent
  BY DEF Repair
<1>2. /\ repairs[1] \in Nat /\ repairs[2] \in Nat /\ repairs[1] <= MaxRepairs
      /\ MaxRepairs \in Nat /\ MaxRetries \in Nat /\ tries = 0
      /\ at \in Nat /\ at # 0 /\ sent \in Nat /\ sent <= at * EachPrompt /\ ask \in Asks
      /\ at \in 1 .. Len(batches) /\ usage <= MaxLlmCalls
      /\ sent <= (at - 1) * EachPrompt + (repairs[1] + 1) * (MaxRetries + 1)
  BY <1>1, CallNumbers
<1>3. CASE repairs[1] >= MaxRepairs
  <2>1. Raise("OfflineLLMError")
    BY <1>3 DEF Repair
  <2> QED
    BY <1>1, <1>2, <2>1, RaiseKeeps
<1>4. CASE ~(repairs[1] >= MaxRepairs)
  <2>1. /\ repairs' = <<repairs[1] + 1, repairs[2] + 1>> /\ phase' = "send"
        /\ UNCHANGED <<ask, batches, at, completion, tries, kept, drafts>>
    BY <1>4 DEF Repair
  <2>2. repairs' \in (0 .. MaxRepairs) \X Nat /\ repairs'[1] = repairs[1] + 1
    <3>1. PICK p \in Nat, q \in Nat : p = repairs[1] /\ q = repairs[2]
      BY <1>2
    <3>2. p <= MaxRepairs /\ ~(p >= MaxRepairs) /\ MaxRepairs \in Nat
      BY <1>2, <1>4, <3>1
    <3>3. p + 1 \in 0 .. MaxRepairs /\ q + 1 \in Nat
      BY <3>2
    <3>4. repairs' = <<p + 1, q + 1>>
      BY <2>1, <3>1
    <3> QED
      BY <3>1, <3>3, <3>4
  <2>3. ProposerTypes'
    BY <1>1, <2>1, <2>2 DEF ProposerInv, ProposerTypes
  <2>4. Planned' /\ InTurn' /\ Indexed' /\ Grounded(kept)'
    BY <1>2, <2>1 DEF ProposerInv, Planned, InTurn, Indexed, Grounded
  <2>5. Attempts'
    <3>1. PICK B : B = (at - 1) * EachPrompt + (repairs[1] + 1) * (MaxRetries + 1)
      OBVIOUS
    <3>2. B \in Nat
      <4>1. repairs[1] \in 0 .. MaxRepairs
        BY <1>2
      <4>2. PICK A \in Nat : A = (at - 1) * EachPrompt
        BY <1>2, <4>1, AttemptsAdd
      <4>3. PICK C \in Nat : C = (repairs[1] + 1) * (MaxRetries + 1)
        BY <1>2, NatTimes
      <4>4. B = A + C
        BY <3>1, <4>2, <4>3, Zenon
      <4> QED
        BY <4>2, <4>3, <4>4
    <3>3. (at' - 1) * EachPrompt + repairs'[1] * (MaxRetries + 1) = B
      BY <2>1, <2>2, <3>1, Zenon
    <3>4. PICK D : D = (at' - 1) * EachPrompt + repairs'[1] * (MaxRetries + 1)
      OBVIOUS
    <3>5. sent' <= D + tries'
      <4>1. D = B /\ sent <= B /\ tries' = 0 /\ sent' = sent
        BY <1>1, <1>2, <2>1, <3>1, <3>3, <3>4, Zenon
      <4> QED
        BY <1>2, <3>2, <4>1
    <3>6. sent' <= at' * EachPrompt /\ usage' <= MaxLlmCalls /\ ~(tries' > 0) /\ phase' # "parse"
      BY <1>1, <1>2, <2>1
    <3> QED
      BY <3>4, <3>5, <3>6, Zenon DEF Attempts
  <2> QED
    BY <2>3, <2>4, <2>5 DEF ProposerInv
<1> QED
  BY <1>3, <1>4

(* A call returns a prefix of what it kept, and writes it.                 *)
LEMMA ReturnKeeps ==
  ASSUME ProposerInv, Return
  PROVE  ProposerInv'
<1>1. /\ phase' = "idle" /\ kept' = Returned
      /\ UNCHANGED <<ask, batches, at, completion, tries, repairs, usage, sent>>
      /\ \/ WriteProposals \/ UNCHANGED drafts
  BY DEF Return
<1>2. kept \in Seq(Keepables) /\ Grounded(kept)
  BY DEF ProposerInv, ProposerTypes
<1>3. PICK qs : qs = Returned
  OBVIOUS
<1>4. /\ qs \in Seq(Keepables) /\ Len(qs) \in Nat /\ Len(qs) <= Len(kept)
      /\ \A i \in 1 .. Len(qs) : i \in 1 .. Len(kept) /\ qs[i] = kept[i]
  <2>1. CASE qs = kept
    BY <1>2, <2>1
  <2>2. CASE qs # kept
    <3>1. qs = SubSeq(kept, 1, MaxProposals) /\ Len(kept) > MaxProposals
      BY <1>3, <2>2 DEF Returned
    <3>2. MaxProposals \in Nat /\ Len(kept) \in Nat
      BY <1>2, ProposerAssumption
    <3> QED
      BY <1>2, <3>1, <3>2
  <2> QED
    BY <2>1, <2>2
<1>5. ProposerTypes'
  BY <1>1, <1>3, <1>4 DEF ProposerInv, ProposerTypes
<1>6. Planned' /\ InTurn'
  BY <1>1 DEF ProposerInv, Planned, InTurn
<1>7. Grounded(kept)'
  <2>1. Grounded(qs)
    BY <1>2, <1>4 DEF Grounded
  <2> QED
    BY <1>1, <1>3, <2>1 DEF Grounded
<1>8. Attempts'
  BY <1>1 DEF ProposerInv, Attempts
<1>9. Indexed'
  <2>1. Indexed
    BY DEF ProposerInv
  <2>2. CASE UNCHANGED drafts
    BY <2>1, <2>2 DEF Indexed
  <2>3. CASE WriteProposals
    <3>1. PICK names :
            \E ix : /\ drafts' = [flows |-> drafts.flows \cup names,
                                  provenance |-> drafts.provenance \cup names, index |-> ix]
                    /\ ix = names \/ ix = drafts.index
      BY <2>3, Zenon DEF WriteProposals
    <3>2. PICK ix : /\ drafts' = [flows |-> drafts.flows \cup names,
                                  provenance |-> drafts.provenance \cup names, index |-> ix]
                    /\ ix = names \/ ix = drafts.index
      BY <3>1
    <3>3. /\ drafts'.flows = drafts.flows \cup names /\ drafts'.index = ix
          /\ drafts'.provenance = drafts.provenance \cup names
      BY <3>2
    <3> QED
      BY <2>1, <3>2, <3>3 DEF Indexed
  <2> QED
    BY <1>1, <2>2, <2>3
<1> QED
  BY <1>5, <1>6, <1>7, <1>8, <1>9 DEF ProposerInv

-----------------------------------------------------------------------------
(* The invariant implies what is promised of a call.                       *)

(* The invariant is all that is promised.                                  *)
LEMMA ProposerInvMeans == ProposerInv => ProposalsAreGrounded
<1> SUFFICES ASSUME ProposerInv PROVE ProposalsAreGrounded
  OBVIOUS
<1>1. /\ Planned /\ Grounded(kept) /\ Indexed /\ kept \in Seq(Keepables)
  BY DEF ProposerInv, ProposerTypes
<1>2. DOMAIN kept = 1 .. Len(kept)
  BY <1>1
<1>3. BudgetKept(ask, batches)
  <2>1. CASE batches = <<>>
    BY <2>1 DEF BudgetKept
  <2>2. CASE batches # <<>>
    <3>1. ask \in Asks /\ batches = PlannedBatches(ask) /\ ~Overflows(ask)
      BY <1>1, <2>2 DEF Planned
    <3> QED
      BY <3>1, PlannedMeans
  <2> QED
    BY <2>1, <2>2
<1>4. /\ IsPrefix(ShownTools(batches), Selected(ask))
      /\ ask.overflow # "truncate" /\ batches # <<>> => ShownTools(batches) = Selected(ask)
  <2>1. CASE batches = <<>>
    <3>1. IsPrefix(<<>>, Selected(ask))
      <4>1. PICK s \in Seq(ToolNames) : s = Selected(ask)
        BY SelectedType
      <4> QED
        BY <4>1, PrefixFacts
    <3> QED
      BY <2>1, <3>1, ShownNothing, Zenon
  <2>2. CASE batches # <<>>
    <3>1. ask \in Asks /\ batches = PlannedBatches(ask)
      BY <1>1, <2>2 DEF Planned
    <3> QED
      BY <2>2, <3>1, PlannedMeans, Zenon
  <2> QED
    BY <2>1, <2>2
<1>5. \A i \in DOMAIN kept :
        ask.kind # "new" => kept[i].uses \subseteq ToSet(batches[kept[i].batch])
  BY <1>1, <1>2 DEF Grounded
<1>6. \A i, j \in DOMAIN kept : kept[i].batch # kept[j].batch => kept[i].name # kept[j].name
  <2>1. SUFFICES ASSUME NEW i \in DOMAIN kept, NEW j \in DOMAIN kept,
                        kept[i].batch # kept[j].batch
                 PROVE  kept[i].name # kept[j].name
    OBVIOUS
  <2>2. i # j /\ i \in 1 .. Len(kept) /\ j \in 1 .. Len(kept)
    BY <1>2, <2>1
  <2>3. CASE ask.kind # "new"
    BY <1>1, <2>2, <2>3 DEF Grounded
  <2>4. CASE ask.kind = "new"
    <3>1. kept[i].batch \in 1 .. Len(batches) /\ kept[j].batch \in 1 .. Len(batches)
      BY <1>1, <2>2 DEF Grounded
    <3>2. Len(batches) \in {0, 1}
      <4>1. CASE batches = <<>>
        BY <4>1
      <4>2. CASE batches # <<>>
        <5>1. ask \in Asks /\ batches = PlannedBatches(ask)
          BY <1>1, <4>2 DEF Planned
        <5> QED
          BY <2>4, <5>1, PlannedMeans
      <4> QED
        BY <4>1, <4>2
    <3>3. kept[i].batch = kept[j].batch
      <4>1. PICK n \in {0, 1} : n = Len(batches)
        BY <3>2
      <4>2. \A x, y \in 1 .. n : x = y
        OBVIOUS
      <4> QED
        BY <3>1, <4>1, <4>2, Zenon
    <3> QED
      BY <2>1, <3>3
  <2> QED
    BY <2>3, <2>4
<1>7. sent <= at * (MaxRepairs + 1) * (MaxRetries + 1) /\ usage <= MaxLlmCalls
  <2>1. /\ at \in Nat /\ MaxRepairs \in Nat /\ MaxRetries \in Nat /\ sent <= at * EachPrompt
        /\ usage <= MaxLlmCalls
    BY CallNumbers
  <2>2. PICK x \in Nat, y \in Nat : x = MaxRepairs + 1 /\ y = MaxRetries + 1
    BY <2>1
  <2>3. \A u, v, w \in Nat : u * v * w = u * (v * w)
    OBVIOUS
  <2>4. at * x * y = at * (x * y)
    BY <2>1, <2>3
  <2>5. EachPrompt = x * y
    BY <2>2 DEF EachPrompt
  <2>6. at * (MaxRepairs + 1) * (MaxRetries + 1) = at * EachPrompt
    BY <2>2, <2>4, <2>5, Zenon
  <2> QED
    BY <2>1, <2>6, Zenon
<1> QED
  BY <1>1, <1>3, <1>4, <1>5, <1>6, <1>7 DEF ProposalsAreGrounded, BudgetKept, Indexed

(* The invariant of the offline proposers holds in every state.            *)
LEMMA ProposerInvariant == ProposerSpec => []ProposerInv
<1>1. ASSUME ProposerInv, [ProposerNext]_proposerVars PROVE ProposerInv'
  <2>1. CASE UNCHANGED proposerVars
    <3>1. /\ UNCHANGED <<ask, phase, batches, at, completion, tries, repairs>>
          /\ UNCHANGED <<kept, usage, sent, drafts>>
      BY <2>1 DEF proposerVars
    <3>2. ProposerTypes' /\ Planned' /\ InTurn' /\ Indexed'
      BY <1>1, <3>1 DEF ProposerInv, ProposerTypes, Planned, InTurn, Indexed
    <3>3. Grounded(kept)' /\ Attempts'
      BY <1>1, <3>1 DEF ProposerInv, Grounded, Attempts
    <3> QED
      BY <3>2, <3>3 DEF ProposerInv
  <2>2. ASSUME NEW a \in Asks, Start(a) PROVE ProposerInv'
    BY <1>1, <2>2, StartKeeps
  <2>3. CASE CheckCeilings \/ InvokeTransient \/ InvokeFatal \/ \E c \in Completions : InvokeOk(c)
    BY <1>1, <2>3, InvokeKeeps
  <2>4. CASE ParseOk
    BY <1>1, <2>4, ParseOkKeeps
  <2>5. CASE Repair
    BY <1>1, <2>5, RepairKeeps
  <2>6. CASE Return
    BY <1>1, <2>6, ReturnKeeps
  <2> QED
    BY <1>1, <2>1, <2>2, <2>3, <2>4, <2>5, <2>6 DEF ProposerNext
<1> QED
  BY <1>1, ProposerInitially, PTL DEF ProposerSpec

(* Whatever the provider answers and however often it must be asked again, *)
(* the prompts of a call stay within its budget and show what it selected, *)
(* the steps of its proposals name tools their own prompt showed (nothing  *)
(* is said of fallbacks, candidates and sub-flows), and its attempts are   *)
(* bounded: for every catalogue, budget and answer.                        *)
THEOREM ProposerGrounded == ProposerSpec => []ProposalsAreGrounded
<1>1. ProposerInv => ProposalsAreGrounded
  BY ProposerInvMeans
<1> QED
  BY <1>1, ProposerInvariant, PTL
-----------------------------------------------------------------------------
(* Sequences put end to end, and the part of one that lies in a set.       *)

(* One more sequence comes last.                                           *)
LEMMA ConcatNext ==
  ASSUME NEW U, NEW p \in Seq(Seq(U)), NEW q \in Seq(Seq(U)), Len(q) = Len(p) + 1,
         \A i \in 1 .. Len(p) : q[i] = p[i]
  PROVE  Concat(p) \in Seq(U) /\ Concat(q) = Concat(p) \o q[Len(p) + 1]
<1>1. PICK V : V = Seq(U)
  OBVIOUS
<1>2. PICK n \in Nat : n = Len(p) /\ Len(q) = n + 1 /\ \A i \in 1 .. n : q[i] = p[i]
  BY <1>1
<1>3. p \in Seq(V) /\ q \in Seq(V) /\ q[n + 1] \in V
  BY <1>1, <1>2
<1>4. PICK z \in V : z = q[n + 1]
  BY <1>3
<1>5. PICK r : r = Append(p, z)
  OBVIOUS
<1>6. r \in Seq(V) /\ Len(r) = n + 1 /\ r[n + 1] = z /\ \A i \in 1 .. n : r[i] = p[i]
  BY <1>2, <1>3, <1>4, <1>5
<1>7. \A i \in 1 .. n + 1 : i \in 1 .. n \/ i = n + 1
  BY <1>2
<1>8. \A i \in 1 .. n + 1 : r[i] = q[i]
  BY <1>2, <1>4, <1>6, <1>7
<1>9. q = r
  BY <1>2, <1>3, <1>6, <1>8, SeqEqual
<1>10. Concat(p) \in Seq(U) /\ Concat(Append(p, z)) = Concat(p) \o z
  BY <1>1, <1>4, ConcatGrows, Zenon
<1> QED
  BY <1>2, <1>4, <1>5, <1>9, <1>10, Zenon

(* Nothing put end to end is nothing.                                      *)
LEMMA ConcatOfNothing ==
  ASSUME NEW T, NEW bs \in Seq(Seq(T)), \A i \in 1 .. Len(bs) : bs[i] = <<>>
  PROVE  Concat(bs) = <<>>
<1>1. PICK n \in Nat : n = Len(bs)
  OBVIOUS
<1>2. PICK f : /\ f[0] = <<>> /\ \A k \in 1 .. n : f[k] = f[k - 1] \o bs[k]
               /\ \A k \in 0 .. n : f[k] \in Seq(T)
               /\ Concat(bs) = f[n]
  BY <1>1, ConcatUnfolds
<1> DEFINE S == {k \in 0 .. n : f[k] = <<>>}
<1>3. 0 \in S
  BY <1>2
<1>4. ASSUME NEW k \in S, k < n PROVE k + 1 \in S
  <2>1. PICK j \in 1 .. n : j = k + 1 /\ j \in 0 .. n /\ j - 1 = k
    BY <1>1, <1>4
  <2>2. f[j - 1] = <<>> /\ bs[j] = <<>>
    BY <1>1, <2>1
  <2>3. f[j] = f[j - 1] \o bs[j]
    BY <1>2, Zenon
  <2>4. <<>> \o <<>> = <<>>
    OBVIOUS
  <2>5. f[j] = <<>>
    BY <2>2, <2>3, <2>4, Zenon
  <2> QED
    BY <2>1, <2>5
<1>5. S = 0 .. n
  <2>1. S \in SUBSET (0 .. n)
    OBVIOUS
  <2> HIDE DEF S
  <2> QED
    BY <1>1, <1>3, <1>4, <2>1, UpTo
<1> QED
  BY <1>1, <1>2, <1>5

(* Elements put end to end are their sequence.                             *)
LEMMA ConcatOfOnes ==
  ASSUME NEW T, NEW s \in Seq(T)
  PROVE  Concat([i \in DOMAIN s |-> <<s[i]>>]) = s
<1>1. PICK n \in Nat : n = Len(s) /\ DOMAIN s = 1 .. n /\ \A i \in 1 .. n : s[i] \in T
  OBVIOUS
<1>2. PICK V : V = Seq(T)
  OBVIOUS
<1>3. PICK p : p = [i \in 1 .. n |-> <<s[i]>>]
  OBVIOUS
<1>4. p \in Seq(V) /\ Len(p) = n /\ \A i \in 1 .. n : p[i] = <<s[i]>>
  <2>1. \A i \in 1 .. n : <<s[i]>> \in V
    BY <1>1, <1>2
  <2> QED
    BY <1>1, <1>3, <2>1
<1>5. PICK f : /\ f[0] = <<>> /\ \A k \in 1 .. n : f[k] = f[k - 1] \o p[k]
               /\ Concat(p) = f[n]
  BY <1>2, <1>4, ConcatUnfolds
<1> DEFINE S == {k \in 0 .. n : f[k] = SubSeq(s, 1, k)}
<1>6. 0 \in S
  <2>1. 0 \in 0 .. n
    BY <1>1
  <2>2. SubSeq(s, 1, 0) = <<>>
    BY <1>1
  <2> QED
    BY <1>5, <2>1, <2>2, Zenon
<1>7. ASSUME NEW k \in S, k < n PROVE k + 1 \in S
  <2>1. k \in Nat /\ k + 1 \in 1 .. n /\ k + 1 \in 0 .. n /\ k + 1 - 1 = k
    BY <1>1, <1>7
  <2>a. PICK j \in 1 .. n : j = k + 1 /\ j - 1 = k
    BY <2>1
  <2>b. f[j] = f[j - 1] \o p[j]
    BY <1>5, Zenon
  <2>c. f[j - 1] = SubSeq(s, 1, k) /\ p[j] = <<s[j]>>
    BY <1>4, <2>a
  <2>2. f[k + 1] = SubSeq(s, 1, k) \o <<s[k + 1]>>
    BY <2>a, <2>b, <2>c, Zenon
  <2>3. SubSeq(s, 1, k) \in Seq(T) /\ s[k + 1] \in T
    BY <1>1, <2>1
  <2>4. SubSeq(s, 1, k) \o <<s[k + 1]>> = Append(SubSeq(s, 1, k), s[k + 1])
    BY <2>3, AppendLater
  <2>5. SubSeq(s, 1, k + 1) = Append(SubSeq(s, 1, k), s[k + 1])
    BY <1>1, <1>7, <2>1, TakenGrows
  <2> QED
    BY <2>1, <2>2, <2>4, <2>5
<1>8. S = 0 .. n
  <2>1. S \in SUBSET (0 .. n)
    OBVIOUS
  <2> HIDE DEF S
  <2> QED
    BY <1>1, <1>6, <1>7, <2>1, UpTo
<1>9. f[n] = SubSeq(s, 1, n) /\ SubSeq(s, 1, n) = s
  BY <1>1, <1>8
<1> QED
  BY <1>1, <1>3, <1>5, <1>9, Zenon

(* The part of a sequence that lies in a set is made of its elements there, *)
(* and grows with them.                                                    *)
Splits(p, s, S, T) ==
  /\ p \in Seq(Seq(T \cap S)) /\ Len(p) = Len(s) /\ Only(s, S) = Concat(p)
  /\ \A i \in 1 .. Len(s) : p[i] = IF s[i] \in S THEN <<s[i]>> ELSE <<>>

(* Every sequence has its part split so.                                   *)
LEMMA OnlyParts == ASSUME NEW T, NEW s \in Seq(T), NEW S PROVE \E p : Splits(p, s, S, T)
<1>0. PICK p : p = [i \in DOMAIN s |-> IF s[i] \in S THEN <<s[i]>> ELSE <<>>]
  OBVIOUS
<1>1. PICK n \in Nat : n = Len(s) /\ DOMAIN s = 1 .. n /\ \A i \in 1 .. n : s[i] \in T
  OBVIOUS
<1>2. PICK V : V = Seq(T \cap S)
  OBVIOUS
<1>3. ASSUME NEW i \in 1 .. n PROVE p[i] = (IF s[i] \in S THEN <<s[i]>> ELSE <<>>) /\ p[i] \in V
  <2>1. p[i] = IF s[i] \in S THEN <<s[i]>> ELSE <<>>
    BY <1>0, <1>1
  <2>2. CASE s[i] \in S
    <3>1. PICK e \in T \cap S : e = s[i]
      BY <1>1, <2>2
    <3>2. <<e>> \in Seq(T \cap S)
      OBVIOUS
    <3> QED
      BY <1>2, <2>1, <2>2, <3>1, <3>2, Zenon
  <2>3. CASE s[i] \notin S
    <3>1. <<>> \in Seq(T \cap S)
      OBVIOUS
    <3> QED
      BY <1>2, <2>1, <2>3, <3>1, Zenon
  <2> QED
    BY <2>1, <2>2, <2>3
<1>4. p \in [1 .. n -> V]
  BY <1>0, <1>1, <1>3
<1>5. p \in Seq(V) /\ Len(p) = n
  BY <1>4
<1>6. Only(s, S) = Concat(p)
  BY <1>0, Zenon DEF Only
<1> QED
  BY <1>1, <1>2, <1>3, <1>5, <1>6 DEF Splits

(* The part lies in the set.                                               *)
LEMMA OnlyType ==
  ASSUME NEW T, NEW s \in Seq(T), NEW S
  PROVE  Only(s, S) \in Seq(T \cap S)
<1>2. PICK U : U = T \cap S
  OBVIOUS
<1>1. PICK p : Splits(p, s, S, T)
  BY OnlyParts, Zenon
<1>3. p \in Seq(Seq(U)) /\ Only(s, S) = Concat(p)
  BY <1>1, <1>2 DEF Splits
<1>4. \E f : /\ Concat(p) = f[Len(p)] /\ \A n \in 0 .. Len(p) : f[n] \in Seq(U)
  BY <1>3, ConcatUnfolds, Zenon
<1>5. Len(p) \in 0 .. Len(p)
  BY <1>3
<1> QED
  BY <1>2, <1>3, <1>4, <1>5, Zenon

(* One more element joins the part if it lies in the set.                  *)
LEMMA OnlyGrows ==
  ASSUME NEW T, NEW s \in Seq(T), NEW x \in T, NEW S
  PROVE  Only(Append(s, x), S) = IF x \in S THEN Append(Only(s, S), x) ELSE Only(s, S)
<1>1. PICK U : U = T \cap S
  OBVIOUS
<1>2. PICK a : a = Append(s, x)
  OBVIOUS
<1>3. PICK n \in Nat : n = Len(s)
  OBVIOUS
<1>4. /\ a \in Seq(T) /\ Len(a) = n + 1 /\ a[n + 1] = x /\ \A i \in 1 .. n : a[i] = s[i]
  BY <1>2, <1>3
<1>5. PICK p : Splits(p, s, S, T)
  BY OnlyParts, Zenon
<1>6. PICK q : Splits(q, a, S, T)
  BY <1>4, OnlyParts, Zenon
<1>7. /\ p \in Seq(Seq(U)) /\ Len(p) = n
      /\ \A i \in 1 .. n : p[i] = IF s[i] \in S THEN <<s[i]>> ELSE <<>>
  BY <1>1, <1>3, <1>5 DEF Splits
<1>8. /\ q \in Seq(Seq(U)) /\ Len(q) = n + 1
      /\ \A i \in 1 .. n + 1 : q[i] = IF a[i] \in S THEN <<a[i]>> ELSE <<>>
  BY <1>1, <1>4, <1>6 DEF Splits
<1>9. /\ q[n + 1] = (IF x \in S THEN <<x>> ELSE <<>>)
      /\ \A i \in 1 .. n : q[i] = p[i]
  <2>1. n + 1 \in 1 .. n + 1 /\ \A i \in 1 .. n : i \in 1 .. n + 1
    BY <1>3
  <2> QED
    BY <1>4, <1>7, <1>8, <2>1
<1>10. Concat(p) \in Seq(U) /\ Concat(q) = Concat(p) \o q[n + 1]
  BY <1>7, <1>8, <1>9, ConcatNext
<1>11. CASE x \in S
  <2>1. x \in U /\ q[n + 1] = <<x>>
    BY <1>1, <1>9, <1>11
  <2>2. Concat(p) \o <<x>> = Append(Concat(p), x)
    BY <1>10, <2>1, AppendLater
  <2> QED
    BY <1>2, <1>5, <1>6, <1>10, <1>11, <2>1, <2>2, Zenon DEF Splits
<1>12. CASE x \notin S
  <2>1. q[n + 1] = <<>> /\ Concat(p) \o <<>> = Concat(p)
    BY <1>9, <1>10, <1>12
  <2> QED
    BY <1>2, <1>5, <1>6, <1>10, <1>12, <2>1, Zenon DEF Splits
<1> QED
  BY <1>11, <1>12

(* Only the elements that occur matter.                                    *)
LEMMA OnlyAgrees ==
  ASSUME NEW s, NEW S, NEW R, \A i \in DOMAIN s : s[i] \in S <=> s[i] \in R
  PROVE  Only(s, S) = Only(s, R)
<1>1. [i \in DOMAIN s |-> IF s[i] \in S THEN <<s[i]>> ELSE <<>>]
        = [i \in DOMAIN s |-> IF s[i] \in R THEN <<s[i]>> ELSE <<>>]
  OBVIOUS
<1> QED
  BY <1>1, Zenon DEF Only

(* A sequence within the set stays.                                        *)
LEMMA OnlyAll ==
  ASSUME NEW S, NEW s \in Seq(S)
  PROVE  Only(s, S) = s
<1>1. \A i \in DOMAIN s : s[i] \in S
  OBVIOUS
<1>2. [i \in DOMAIN s |-> IF s[i] \in S THEN <<s[i]>> ELSE <<>>] = [i \in DOMAIN s |-> <<s[i]>>]
  BY <1>1
<1> QED
  BY <1>2, ConcatOfOnes, Zenon DEF Only

-----------------------------------------------------------------------------
(* Hooks of the user's and of ChainWeaver's.                               *)

(* The entries of a file, and those that are the user's.                   *)
Entries == SUBSET HookCommandNames
Strangers == {e \in Entries : ~IsChainweaverHook(e)}

(* UserHooks keeps the entries that are not ChainWeaver's.                 *)
LEMMA HooksMeans ==
  ASSUME NEW p \in Seq(Entries)
  PROVE  UserHooks(p) = Only(p, Strangers) /\ UserHooks(p) \in Seq(Strangers)
<1>1. \A i \in DOMAIN p : p[i] \in Entries /\ p[i] \in ToSet(p)
  BY DEF ToSet
<1>2. PICK R : R = {e \in ToSet(p) : ~IsChainweaverHook(e)}
  OBVIOUS
<1>3. \A i \in DOMAIN p : p[i] \in R <=> p[i] \in Strangers
  BY <1>1, <1>2, Zenon DEF Strangers
<1>4. UserHooks(p) = Only(p, R)
  BY <1>2, Zenon DEF UserHooks
<1>5. Only(p, R) = Only(p, Strangers)
  BY <1>3, OnlyAgrees, Zenon
<1>6. Only(p, Strangers) \in Seq(Entries \cap Strangers)
  BY OnlyType, Zenon
<1>7. Entries \cap Strangers = Strangers
  BY DEF Strangers
<1> QED
  BY <1>4, <1>5, <1>6, <1>7, Zenon

(* The user's hooks stay whether ChainWeaver's is taken out or put back.   *)
LEMMA HooksStay ==
  ASSUME NEW p \in Seq(Entries), NEW e \in Entries, IsChainweaverHook(e)
  PROVE  LET u == UserHooks(p)
         IN  /\ u \in Seq(Entries) /\ UserHooks(u) = u
             /\ Append(u, e) \in Seq(Entries) /\ UserHooks(Append(u, e)) = u
<1>1. PICK u : u = UserHooks(p)
  OBVIOUS
<1>2. u \in Seq(Strangers)
  BY <1>1, HooksMeans, Zenon
<1>3. u \in Seq(Entries)
  <2>1. Strangers \subseteq Entries
    BY DEF Strangers
  <2> QED
    BY <1>2, <2>1
<1>4. Only(u, Strangers) = u
  BY <1>2, OnlyAll, Zenon
<1>5. UserHooks(u) = u
  BY <1>3, <1>4, HooksMeans, Zenon
<1>6. PICK a : a = Append(u, e)
  OBVIOUS
<1>7. a \in Seq(Entries)
  BY <1>3, <1>6
<1>8. e \notin Strangers
  BY DEF Strangers
<1>9. Only(a, Strangers) = Only(u, Strangers)
  BY <1>3, <1>6, <1>8, OnlyGrows, Zenon
<1>10. UserHooks(a) = u
  BY <1>4, <1>7, <1>9, HooksMeans, Zenon
<1> QED
  BY <1>1, <1>3, <1>5, <1>6, <1>7, <1>10, Zenon

(* A finite set as a sequence.                                             *)
LEMMA SetAsSeq ==
  ASSUME NEW S, IsFiniteSet(S)
  PROVE  /\ SetToSeq(S) \in Seq(S) /\ Len(SetToSeq(S)) = Cardinality(S)
         /\ \A x \in S : \E i \in 1 .. Len(SetToSeq(S)) : SetToSeq(S)[i] = x
<1>1. PICK n \in Nat : n = Cardinality(S) /\ ExistsBijection(1 .. n, S)
  BY FS_CardinalityType
<1>2. PICK g : g \in Bijection(1 .. n, S)
  BY <1>1, Zenon DEF ExistsBijection
<1>3. g \in [1 .. n -> S] /\ IsInjective(g)
  BY <1>2, Zenon DEF Bijection, Injection
<1>4. PICK f : f = SetToSeq(S)
  OBVIOUS
<1>5. f \in [1 .. n -> S] /\ IsInjective(f)
  BY <1>1, <1>3, <1>4, Zenon DEF SetToSeq
<1>6. f \in Injection(1 .. n, S)
  BY <1>5, Zenon DEF Injection
<1>7. IsFiniteSet(1 .. n) /\ Cardinality(1 .. n) = n
  BY <1>1, FS_Interval
<1>8. f \in Surjection(1 .. n, S)
  BY <1>1, <1>6, <1>7, FS_Injection, Zenon
<1>9. \A x \in S : \E i \in 1 .. n : f[i] = x
  BY <1>8, Zenon DEF Surjection
<1>10. f \in Seq(S) /\ Len(f) = n
  BY <1>5
<1> QED
  BY <1>1, <1>4, <1>9, <1>10, Zenon

(* The capture commands of one hook entry.                                 *)
Commands(e) == SetToSeq(e \cap CaptureCommands)

(* ChainWeaver's entries, and only those, run a capture command.           *)
LEMMA CommandsMean ==
  ASSUME NEW e
  PROVE  /\ Commands(e) \in Seq(CaptureCommands)
         /\ ~IsChainweaverHook(e) => Commands(e) = <<>>
         /\ IsChainweaverHook(e) => Len(Commands(e)) > 0
         /\ \A c \in CaptureCommands : e = {c} => Len(Commands(e)) = 1
<1>1. PICK S : S = e \cap CaptureCommands
  OBVIOUS
<1>2. IsFiniteSet(CaptureCommands)
  <2>1. CaptureCommands = {"capture"} \cup {"capture --no-redact"}
    BY DEF CaptureCommands
  <2>2. IsFiniteSet({"capture"})
    BY FS_Singleton, Zenon
  <2> QED
    BY <2>1, <2>2, FS_AddElement
<1>3. IsFiniteSet(S)
  BY <1>1, <1>2, FS_Subset
<1>4. PICK n \in Nat : n = Cardinality(S)
  BY <1>3, FS_CardinalityType
<1>5. PICK s : s = SetToSeq(S)
  OBVIOUS
<1>6. s \in Seq(S) /\ Len(s) = n
  BY <1>3, <1>4, <1>5, SetAsSeq, Zenon
<1>7. s \in Seq(CaptureCommands)
  BY <1>1, <1>6
<1>8. (S = {}) <=> (n = 0)
  BY <1>3, <1>4, FS_EmptySet
<1>9. \A c \in CaptureCommands : e = {c} => n = 1
  <2>1. SUFFICES ASSUME NEW c \in CaptureCommands, e = {c} PROVE n = 1
    OBVIOUS
  <2>2. S = {c}
    BY <1>1, <2>1
  <2> QED
    BY <1>4, <2>2, FS_Singleton
<1>10. IsChainweaverHook(e) <=> S # {}
  BY <1>1, Zenon DEF IsChainweaverHook
<1>11. n = 0 => s = <<>>
  BY <1>6
<1>12. Commands(e) = s
  BY <1>1, <1>5, Zenon DEF Commands
<1> QED
  BY <1>4, <1>6, <1>7, <1>8, <1>9, <1>10, <1>11, <1>12

(* The commands of a list of entries, entry by entry.                      *)
CommandsOf(p, q) ==
  /\ q \in Seq(Seq(CaptureCommands)) /\ Len(q) = Len(p) /\ HookCommands(p) = Concat(q)
  /\ \A i \in 1 .. Len(p) : q[i] = Commands(p[i])

(* Every list has its commands so.                                        *)
LEMMA CommandParts == ASSUME NEW T, NEW p \in Seq(T) PROVE \E q : CommandsOf(p, q)
<1>1. PICK q : q = [i \in DOMAIN p |-> SetToSeq(p[i] \cap CaptureCommands)]
  OBVIOUS
<1>2. HookCommands(p) = Concat(q)
  BY <1>1, Zenon DEF HookCommands
<1>3. PICK n \in Nat : n = Len(p) /\ DOMAIN p = 1 .. n
  OBVIOUS
<1>4. PICK V : V = Seq(CaptureCommands)
  OBVIOUS
<1>5. q = [i \in 1 .. n |-> Commands(p[i])]
  BY <1>1, <1>3, Zenon DEF Commands
<1>6. \A i \in 1 .. n : Commands(p[i]) \in V
  BY <1>4, CommandsMean, Zenon
<1>7. q \in Seq(V) /\ Len(q) = n /\ \A i \in 1 .. n : q[i] = Commands(p[i])
  BY <1>5, <1>6
<1> QED
  BY <1>2, <1>3, <1>4, <1>7 DEF CommandsOf

(* A further entry's commands come last.                                   *)
LEMMA CommandsGrow ==
  ASSUME NEW T, NEW p \in Seq(T), NEW e \in T
  PROVE  /\ HookCommands(p) \in Seq(CaptureCommands)
         /\ HookCommands(Append(p, e)) = HookCommands(p) \o Commands(e)
<1>1. PICK n \in Nat : n = Len(p)
  OBVIOUS
<1>2. PICK a : a = Append(p, e)
  OBVIOUS
<1>3. a \in Seq(T) /\ Len(a) = n + 1 /\ a[n + 1] = e /\ \A i \in 1 .. n : a[i] = p[i]
  BY <1>1, <1>2
<1>4. PICK q : CommandsOf(p, q)
  BY CommandParts, Zenon
<1>5. PICK r : CommandsOf(a, r)
  BY <1>3, CommandParts, Zenon
<1>6. /\ q \in Seq(Seq(CaptureCommands)) /\ Len(q) = n
      /\ r \in Seq(Seq(CaptureCommands)) /\ Len(r) = n + 1 /\ r[n + 1] = Commands(e)
  <2>1. n + 1 \in 1 .. n + 1
    BY <1>1
  <2> QED
    BY <1>1, <1>3, <1>4, <1>5, <2>1 DEF CommandsOf
<1>7. \A i \in 1 .. n : r[i] = q[i]
  <2>1. \A i \in 1 .. n : i \in 1 .. n + 1
    BY <1>1
  <2> QED
    BY <1>1, <1>3, <1>4, <1>5, <2>1 DEF CommandsOf
<1>8. Concat(q) \in Seq(CaptureCommands) /\ Concat(r) = Concat(q) \o r[n + 1]
  BY <1>6, <1>7, ConcatNext
<1> QED
  BY <1>2, <1>4, <1>5, <1>6, <1>8, Zenon DEF CommandsOf

(* Entries of the user's run no capture command.                           *)
LEMMA NoCommands ==
  ASSUME NEW p \in Seq(Strangers)
  PROVE  HookCommands(p) = <<>>
<1>1. PICK q : CommandsOf(p, q)
  BY CommandParts, Zenon
<1>2. PICK n \in Nat : n = Len(p) /\ \A i \in 1 .. n : p[i] \in Strangers
  OBVIOUS
<1>3. \A i \in 1 .. n : Commands(p[i]) = <<>>
  BY <1>2, CommandsMean DEF Strangers
<1>4. \A i \in 1 .. Len(q) : q[i] = <<>>
  BY <1>1, <1>2, <1>3 DEF CommandsOf
<1>5. Concat(q) = <<>>
  BY <1>1, <1>4, ConcatOfNothing, Zenon DEF CommandsOf
<1> QED
  BY <1>1, <1>5, Zenon DEF CommandsOf

(* A sequence with a nonempty end is not empty.                            *)
LEMMA NonemptyTail ==
  ASSUME NEW T, NEW h \in Seq(T), NEW k \in Seq(T), Len(k) > 0
  PROVE  h \o k # <<>>
<1>1. Len(h \o k) = Len(h) + Len(k) /\ Len(h) \in Nat /\ Len(k) \in Nat
  BY ConcatProperties, LenProperties
<1>2. Len(<<>>) = 0
  OBVIOUS
<1> QED
  BY <1>1, <1>2

(* ChainWeaver's entry alone, and behind others.                           *)
LEMMA OneCommand ==
  ASSUME NEW c \in CaptureCommands
  PROVE  /\ {c} \in Entries /\ IsChainweaverHook({c})
         /\ HookCommands(<<>>) = <<>> /\ Len(HookCommands(<<{c}>>)) = 1
         /\ \A p \in Seq(Entries) : HookCommands(Append(p, {c})) # <<>>
<1>1. {c} \in Entries /\ IsChainweaverHook({c})
  <2>1. c \in HookCommandNames
    BY DEF HookCommandNames
  <2>2. {c} \in Entries
    BY <2>1 DEF Entries
  <2>3. {c} \cap CaptureCommands # {}
    OBVIOUS
  <2> QED
    BY <2>2, <2>3, Zenon DEF IsChainweaverHook
<1>2. PICK e : e = {c}
  OBVIOUS
<1>3. /\ Commands(e) \in Seq(CaptureCommands) /\ Len(Commands(e)) = 1 /\ e \in Entries
  BY <1>1, <1>2, CommandsMean
<1>4. <<>> \in Seq(Strangers) /\ <<>> \in Seq(Entries)
  OBVIOUS
<1>5. HookCommands(<<>>) = <<>>
  BY <1>4, NoCommands, Zenon
<1>6. HookCommands(Append(<<>>, e)) = HookCommands(<<>>) \o Commands(e)
  BY <1>3, <1>4, CommandsGrow, Zenon
<1>7. HookCommands(<<e>>) = Commands(e)
  <2>1. <<>> \o Commands(e) = Commands(e)
    BY <1>3
  <2>2. Append(<<>>, e) = <<e>>
    OBVIOUS
  <2> QED
    BY <1>5, <1>6, <2>1, <2>2, Zenon
<1>8. ASSUME NEW p \in Seq(Entries) PROVE HookCommands(Append(p, e)) # <<>>
  <2>1. PICK h \in Seq(CaptureCommands) : h = HookCommands(p)
    BY <1>3, CommandsGrow, Zenon
  <2>2. HookCommands(Append(p, e)) = h \o Commands(e)
    BY <1>3, <2>1, CommandsGrow, Zenon
  <2>3. PICK k \in Seq(CaptureCommands) : k = Commands(e) /\ Len(k) = 1
    BY <1>3
  <2>4. h \o k # <<>>
    <3>1. Len(k) > 0
      BY <2>3
    <3> QED
      BY <3>1, NonemptyTail, Zenon
  <2> QED
    BY <2>2, <2>3, <2>4, Zenon
<1> QED
  BY <1>1, <1>2, <1>3, <1>5, <1>7, <1>8

-----------------------------------------------------------------------------
(* The files of a workspace.                                               *)

(* The files there are; the plugin is not among the user's.                *)
LEMMA FilesAre ==
  /\ WsFiles = {"opencode.json", "opencode.jsonc", ".opencode.json", "plugin", ".mcp.json",
                "settings.json", "settings.local.json", ".vscode/mcp.json"}
  /\ ToSet(SettingsFiles) = {"settings.json", "settings.local.json"}
  /\ UserFiles \subseteq WsFiles \ {"plugin"}
<1>1. DOMAIN OpencodeConfigNames = {1, 2, 3} /\ DOMAIN SettingsFiles = {1, 2}
  BY DEF OpencodeConfigNames, SettingsFiles
<1>2. ToSet(OpencodeConfigNames) = {"opencode.json", "opencode.jsonc", ".opencode.json"}
  BY <1>1 DEF ToSet, OpencodeConfigNames
<1>3. ToSet(SettingsFiles) = {"settings.json", "settings.local.json"}
  BY <1>1 DEF ToSet, SettingsFiles
<1>4. WsFiles = {"opencode.json", "opencode.jsonc", ".opencode.json", "plugin", ".mcp.json",
                 "settings.json", "settings.local.json", ".vscode/mcp.json"}
  BY <1>2 DEF WsFiles
<1>5. UserFiles \subseteq WsFiles \ {"plugin"}
  BY <1>4 DEF UserFiles
<1> QED
  BY <1>3, <1>4, <1>5

(* The config is the first file that exists; writing it does not move it.  *)
There(fs, i) == fs[OpencodeConfigNames[i]].json # "absent"
First(fs, i) == i \in 1 .. 3 /\ There(fs, i) /\ \A j \in 1 .. 3 : j < i => ~There(fs, j)

(* OpencodeConfigPath finds the first file there is.                       *)
LEMMA OpencodePath ==
  ASSUME NEW fs
  PROVE  /\ \A i : First(fs, i) => OpencodeConfigPath(fs) = OpencodeConfigNames[i]
         /\ \/ \E i : First(fs, i)
            \/ /\ OpencodeConfigPath(fs) = OpencodeConfigNames[1]
               /\ \A j \in 1 .. 3 : ~There(fs, j)
<1> DEFINE there == {i \in DOMAIN OpencodeConfigNames : fs[OpencodeConfigNames[i]].json # "absent"}
           k == CHOOSE i \in there : \A j \in there : i <= j
<1>1. DOMAIN OpencodeConfigNames = 1 .. 3
  BY DEF OpencodeConfigNames
<1>4. OpencodeConfigPath(fs) = OpencodeConfigNames[IF there = {} THEN 1 ELSE k]
  BY Zenon DEF OpencodeConfigPath
<1>5. there = {i \in 1 .. 3 : There(fs, i)}
  BY <1>1, Zenon DEF There
<1>3. \A i \in there : (\A j \in there : i <= j) => k \in there /\ \A j \in there : k <= j
  <2> HIDE DEF there
  <2> QED
    BY Zenon
<1> HIDE DEF there, k
<1>6. ASSUME NEW i, First(fs, i) PROVE OpencodeConfigPath(fs) = OpencodeConfigNames[i]
  <2>1. i \in there /\ \A j \in there : i <= j
    BY <1>5, <1>6 DEF First
  <2>2. k \in there /\ \A j \in there : k <= j
    BY <1>3, <2>1, Zenon
  <2>3. k = i
    BY <1>5, <2>1, <2>2
  <2> QED
    BY <1>4, <2>1, <2>3, Zenon
<1>7. CASE there = {}
  BY <1>4, <1>5, <1>6, <1>7
<1>8. CASE there # {}
  <2>1. \E i : First(fs, i)
    <3>1. CASE There(fs, 1)
      <4>1. First(fs, 1)
        BY <3>1 DEF First
      <4> QED
        BY <4>1
    <3>2. CASE ~There(fs, 1) /\ There(fs, 2)
      <4>1. First(fs, 2)
        BY <3>2 DEF First
      <4> QED
        BY <4>1
    <3>3. CASE ~There(fs, 1) /\ ~There(fs, 2) /\ There(fs, 3)
      <4>1. First(fs, 3)
        BY <3>3 DEF First
      <4> QED
        BY <4>1
    <3> QED
      BY <1>5, <1>8, <3>1, <3>2, <3>3
  <2> QED
    BY <1>6, <2>1
<1> QED
  BY <1>7, <1>8

(* Files other than the config that editor's server entry goes to.         *)
Elsewhere == {"plugin", "settings.json", "settings.local.json"}

(* The server entry goes to none of the files of the hooks.                *)
LEMMA McpPathMeans ==
  ASSUME NEW fs
  PROVE  McpPath(fs) \in WsFiles \ Elsewhere
<1>1. OpencodeConfigPath(fs) \in {"opencode.json", "opencode.jsonc", ".opencode.json"}
  BY OpencodePath DEF First, OpencodeConfigNames
<1> QED
  BY <1>1, FilesAre DEF McpPath, Elsewhere

(* Writing the config leaves the config where it was.                      *)
LEMMA McpPathStays ==
  ASSUME NEW fs, NEW gs,
         \A f \in WsFiles \ (Elsewhere \cup {McpPath(fs)}) : gs[f] = fs[f],
         gs[McpPath(fs)].json # "absent" \/ gs[McpPath(fs)] = fs[McpPath(fs)]
  PROVE  McpPath(gs) = McpPath(fs)
<1>1. CASE editor # "opencode"
  BY <1>1 DEF McpPath
<1>2. CASE editor = "opencode"
  <2>1. McpPath(fs) = OpencodeConfigPath(fs) /\ McpPath(gs) = OpencodeConfigPath(gs)
    BY <1>2 DEF McpPath
  <2>2. /\ \A i \in 1 .. 3 : OpencodeConfigNames[i] \in WsFiles \ Elsewhere
        /\ \A i, j \in 1 .. 3 : OpencodeConfigNames[i] = OpencodeConfigNames[j] => i = j
    BY FilesAre DEF Elsewhere, OpencodeConfigNames
  <2>3. \A j \in 1 .. 3 : OpencodeConfigNames[j] # McpPath(fs) => (There(gs, j) <=> There(fs, j))
    BY <2>2, Zenon DEF There
  <2>4. CASE \E i : First(fs, i)
    <3>1. PICK i : First(fs, i)
      BY <2>4
    <3>2. i \in 1 .. 3 /\ McpPath(fs) = OpencodeConfigNames[i]
      BY <2>1, <3>1, OpencodePath DEF First
    <3>3. There(gs, i)
      BY <3>1, <3>2 DEF There, First
    <3>4. First(gs, i)
      BY <2>2, <2>3, <3>1, <3>2, <3>3 DEF First
    <3> QED
      BY <2>1, <3>2, <3>4, OpencodePath
  <2>5. CASE ~ \E i : First(fs, i)
    <3>1. McpPath(fs) = OpencodeConfigNames[1] /\ \A j \in 1 .. 3 : ~There(fs, j)
      BY <2>1, <2>5, OpencodePath
    <3>2. \A j \in 1 .. 3 : j # 1 => ~There(gs, j)
      BY <2>2, <2>3, <3>1
    <3>3. CASE There(gs, 1)
      <4>1. First(gs, 1)
        BY <3>3 DEF First
      <4> QED
        BY <2>1, <3>1, <4>1, OpencodePath
    <3>4. CASE ~There(gs, 1)
      <4>1. ~ \E i : First(gs, i)
        BY <3>2, <3>4 DEF First
      <4> QED
        BY <2>1, <3>1, <4>1, OpencodePath
    <3> QED
      BY <3>3, <3>4
  <2> QED
    BY <2>4, <2>5
<1> QED
  BY <1>1, <1>2

-----------------------------------------------------------------------------
(* What is written to a file.                                              *)

FieldsOf == {"json", "servers", "odd", "post", "notes"}

(* A file that is absent has all fields and nothing in them.               *)
LEMMA FileFields ==
  /\ DOMAIN NoFile = FieldsOf /\ IsFile(NoFile) /\ NoFile.json = "absent"
  /\ NoFile.servers = {} /\ NoFile.post = <<>>
<1>1. DOMAIN NoFile = FieldsOf
  BY DEF NoFile, FieldsOf
<1>2. NoFile.json = "absent" /\ NoFile.servers = {} /\ NoFile.post = <<>>
  BY DEF NoFile
<1>3. <<>> \in Seq(SUBSET HookCommandNames)
  OBVIOUS
<1> QED
  BY <1>1, <1>2, <1>3 DEF IsFile

(* A file that parses, or what stands for one that holds no object.        *)
LEMMA ParsedMeans ==
  ASSUME NEW c, IsFile(c), ~LoadFails(c)
  PROVE  IsFile(Parsed(c)) /\ UserPart(Parsed(c)) = UserPart(c)
<1>1. CASE c.json = "object"
  BY <1>1 DEF Parsed
<1>2. CASE c.json # "object"
  <2>1. Parsed(c) = NoFile
    BY <1>2 DEF Parsed
  <2>2. c.servers = {} /\ c.post = <<>>
    BY <1>2 DEF IsFile, LoadFails
  <2>3. UserPart(NoFile) = UserPart(c)
    BY <2>2, FileFields, Zenon DEF UserPart
  <2> QED
    BY <2>1, <2>3, FileFields
<1> QED
  BY <1>1, <1>2

(* Adding the flow server adds it, and leaves the user's part.             *)
LEMMA AddServerMeans ==
  ASSUME NEW c, IsFile(c), ~LoadFails(c), NEW spec
  PROVE  LET d == AddFlowServer(c, spec)
         IN  IsFile(d) /\ UserPart(d) = UserPart(c) /\ d.json = "object" /\ HasFlowServer(d)
<1>1. PICK p : p = Parsed(c)
  OBVIOUS
<1>2. IsFile(p) /\ UserPart(p) = UserPart(c)
  BY <1>1, ParsedMeans
<1>3. PICK d : d = AddFlowServer(c, spec)
  OBVIOUS
<1>4. d = [p EXCEPT !.json = "object", !.odd = FALSE, !.notes = FALSE,
                    !.servers = {s \in p.servers : s[1] # Ours} \cup {<<Ours, spec>>}]
  BY <1>1, <1>3 DEF AddFlowServer
<1>5. DOMAIN p = FieldsOf
  BY <1>2, FileFields DEF IsFile
<1>6. /\ DOMAIN d = FieldsOf /\ d.json = "object" /\ d.post = p.post
      /\ d.servers = {s \in p.servers : s[1] # Ours} \cup {<<Ours, spec>>}
  BY <1>4, <1>5 DEF FieldsOf
<1>7. IsFile(d)
  BY <1>2, <1>6, FileFields DEF IsFile
<1>8. {s \in d.servers : s[1] # Ours} = {s \in p.servers : s[1] # Ours}
  BY <1>6
<1>9. UserPart(d) = UserPart(p)
  BY <1>6, <1>8, Zenon DEF UserPart
<1>10. HasFlowServer(d)
  <2>1. <<Ours, spec>> \in d.servers /\ <<Ours, spec>>[1] = Ours
    BY <1>6
  <2> QED
    BY <2>1, Zenon DEF HasFlowServer
<1> QED
  BY <1>2, <1>3, <1>6, <1>7, <1>9, <1>10

(* Adding the hook installs a command, and leaves the user's part.         *)
LEMMA AddHookMeans ==
  ASSUME NEW c, IsFile(c), ~LoadFails(c), NEW command \in CaptureCommands
  PROVE  LET d == AddObserveHook(c, command)
         IN  /\ IsFile(d) /\ UserPart(d) = UserPart(c) /\ d.json = "object"
             /\ d.post # <<>> /\ HookCommands(d.post) # <<>>
<1>1. PICK p : p = Parsed(c)
  OBVIOUS
<1>2. IsFile(p) /\ UserPart(p) = UserPart(c) /\ p.post \in Seq(Entries)
  BY <1>1, ParsedMeans DEF IsFile, Entries
<1>3. PICK d : d = AddObserveHook(c, command)
  OBVIOUS
<1>4. d = [p EXCEPT !.json = "object", !.notes = FALSE,
                      !.post = Append(UserHooks(p.post), {command})]
  BY <1>1, <1>3 DEF AddObserveHook
<1>5. DOMAIN p = FieldsOf
  BY <1>2, FileFields DEF IsFile
<1>6. /\ DOMAIN d = FieldsOf /\ d.json = "object" /\ d.servers = p.servers
      /\ d.post = Append(UserHooks(p.post), {command})
  BY <1>4, <1>5 DEF FieldsOf
<1>7. {command} \in Entries /\ IsChainweaverHook({command})
  BY OneCommand
<1>8. /\ UserHooks(p.post) \in Seq(Entries) /\ d.post \in Seq(Entries)
      /\ UserHooks(d.post) = UserHooks(p.post)
  BY <1>2, <1>6, <1>7, HooksStay, Zenon
<1>9. IsFile(d)
  BY <1>6, <1>8, FileFields DEF IsFile, Entries
<1>10. UserPart(d) = UserPart(p)
  BY <1>6, <1>8, Zenon DEF UserPart
<1>11. HookCommands(d.post) # <<>>
  BY <1>6, <1>8, OneCommand, Zenon
<1>12. d.post # <<>>
  BY <1>11, OneCommand
<1> QED
  BY <1>2, <1>3, <1>6, <1>9, <1>10, <1>11, <1>12

(* Removing the flow server leaves the user's part.                        *)
LEMMA RemoveServerMeans ==
  ASSUME NEW c, IsFile(c)
  PROVE  LET d == RemoveFlowServer(c)
         IN  IsFile(d) /\ UserPart(d) = UserPart(c) /\ d.json = "object" /\ ~HasFlowServer(d)
<1>1. PICK d : d = RemoveFlowServer(c)
  OBVIOUS
<1>2. d = [c EXCEPT !.json = "object", !.notes = FALSE, !.servers = {s \in c.servers : s[1] # Ours}]
  BY <1>1 DEF RemoveFlowServer
<1>3. DOMAIN c = FieldsOf
  BY FileFields DEF IsFile
<1>4. /\ DOMAIN d = FieldsOf /\ d.json = "object" /\ d.post = c.post
      /\ d.servers = {s \in c.servers : s[1] # Ours}
  BY <1>2, <1>3 DEF FieldsOf
<1>5. IsFile(d)
  BY <1>4, FileFields DEF IsFile
<1>6. {s \in d.servers : s[1] # Ours} = {s \in c.servers : s[1] # Ours}
  BY <1>4
<1>7. UserPart(d) = UserPart(c)
  BY <1>4, <1>6, Zenon DEF UserPart
<1>8. ~HasFlowServer(d)
  BY <1>4 DEF HasFlowServer
<1> QED
  BY <1>1, <1>4, <1>5, <1>7, <1>8

(* Removing the hook leaves no command but the user's part.                *)
LEMMA RemoveHookMeans ==
  ASSUME NEW c, IsFile(c)
  PROVE  /\ LET d == RemoveObserveHook(c)
            IN  /\ IsFile(d) /\ UserPart(d) = UserPart(c) /\ d.json = "object"
                /\ HookCommands(d.post) = <<>>
         /\ UserHooks(c.post) = c.post => HookCommands(c.post) = <<>>
<1>1. PICK d : d = RemoveObserveHook(c)
  OBVIOUS
<1>2. d = [c EXCEPT !.json = "object", !.notes = FALSE, !.post = UserHooks(c.post)]
  BY <1>1 DEF RemoveObserveHook
<1>3. DOMAIN c = FieldsOf /\ c.post \in Seq(Entries)
  BY FileFields DEF IsFile, Entries
<1>4. /\ DOMAIN d = FieldsOf /\ d.json = "object" /\ d.servers = c.servers
      /\ d.post = UserHooks(c.post)
  BY <1>2, <1>3 DEF FieldsOf
<1>5. UserHooks(c.post) \in Seq(Strangers)
  BY <1>3, HooksMeans, Zenon
<1>6. HookCommands(UserHooks(c.post)) = <<>>
  BY <1>5, NoCommands, Zenon
<1>7. PICK k \in CaptureCommands : {k} \in Entries /\ IsChainweaverHook({k})
  BY OneCommand DEF CaptureCommands
<1>8. UserHooks(c.post) \in Seq(Entries) /\ UserHooks(UserHooks(c.post)) = UserHooks(c.post)
  BY <1>3, <1>7, HooksStay, Zenon
<1>9. IsFile(d)
  BY <1>4, <1>8, FileFields DEF IsFile, Entries
<1>10. UserPart(d) = UserPart(c)
  BY <1>4, <1>8, Zenon DEF UserPart
<1> QED
  BY <1>1, <1>4, <1>6, <1>9, <1>10, Zenon

(* The plugin runs one command and holds nothing of the user's.            *)
LEMMA PluginMeans ==
  ASSUME NEW redact
  PROVE  LET d == RenderObservePlugin(redact)
         IN  /\ IsFile(d) /\ UserPart(d) = UserPart(NoFile) /\ d.json = "object"
             /\ Len(HookCommands(d.post)) = 1
<1>1. PICK d : d = RenderObservePlugin(redact)
  OBVIOUS
<1>2. PICK k \in CaptureCommands : k = CaptureCommand(redact)
  BY DEF CaptureCommand, CaptureCommands
<1>3. d = [NoFile EXCEPT !.json = "object", !.post = <<{k}>>]
  BY <1>1, <1>2 DEF RenderObservePlugin
<1>4. /\ DOMAIN d = FieldsOf /\ d.json = "object" /\ d.servers = {} /\ d.post = <<{k}>>
  BY <1>3, FileFields DEF FieldsOf
<1>5. {k} \in Entries /\ IsChainweaverHook({k}) /\ Len(HookCommands(<<{k}>>)) = 1
  BY OneCommand
<1>6. <<{k}>> \in Seq(Entries)
  BY <1>5
<1>7. IsFile(d)
  BY <1>4, <1>6, FileFields DEF IsFile, Entries
<1>8. UserHooks(<<{k}>>) = UserHooks(<<>>)
  <2>1. <<>> \in Seq(Entries) /\ Append(<<>>, {k}) = <<{k}>>
    OBVIOUS
  <2>2. UserHooks(<<>>) \in Seq(Strangers)
    BY <2>1, HooksMeans, Zenon
  <2>3. UserHooks(<<{k}>>) = Only(Append(<<>>, {k}), Strangers)
    BY <1>6, <2>1, HooksMeans, Zenon
  <2>4. {k} \notin Strangers
    BY <1>5 DEF Strangers
  <2>5. Only(Append(<<>>, {k}), Strangers) = Only(<<>>, Strangers)
    BY <1>5, <2>1, <2>4, OnlyGrows, Zenon
  <2> QED
    BY <2>1, <2>3, <2>5, HooksMeans, Zenon
<1>9. UserPart(d) = UserPart(NoFile)
  <2>1. {s \in d.servers : s[1] # Ours} = {s \in NoFile.servers : s[1] # Ours}
    BY <1>4, FileFields
  <2>2. UserHooks(d.post) = UserHooks(NoFile.post)
    BY <1>4, <1>8, FileFields, Zenon
  <2> QED
    BY <2>1, <2>2, Zenon DEF UserPart
<1> QED
  BY <1>1, <1>4, <1>5, <1>7, <1>9

-----------------------------------------------------------------------------
(* What a command does to the workspace.                                   *)

EditorNames == {"opencode", "claude", "vscode"}

(* Files whose user's part is as the user left it.                         *)
IsWorkspace(fs, m) ==
  DOMAIN fs = WsFiles /\ \A f \in WsFiles : IsFile(fs[f]) /\ UserPart(fs[f]) = m[f]

(* A command's result: files S stay, and the user's part of every file.    *)
LeavesUser(r, w, m, S) ==
  /\ r.raised \in BOOLEAN /\ IsWorkspace(r.w.files, m)
  /\ \A f \in S : r.w.files[f] = w.files[f]

(* One file of a workspace was written.                                    *)
WroteOnly(g, fs, m, f, c) ==
  IsWorkspace(g, m) /\ g[f] = c /\ \A h \in WsFiles \ {f} : g[h] = fs[h]

(* Writing a file changes that file only.                                  *)
LEMMA WriteMeans ==
  ASSUME NEW w, NEW m, IsWorkspace(w.files, m), NEW f \in WsFiles, NEW c, IsFile(c),
         UserPart(c) = UserPart(w.files[f])
  PROVE  /\ WroteOnly(WriteFile(w, f, c).files, w.files, m, f, c)
         /\ WroteOnly([w EXCEPT !.files[f] = c].files, w.files, m, f, c)
           \/ "files" \notin DOMAIN w
<1>1. PICK fs : fs = w.files
  OBVIOUS
<1>2. PICK g : g = [fs EXCEPT ![f] = c]
  OBVIOUS
<1>3. WriteFile(w, f, c).files = g
  BY <1>1, <1>2 DEF WriteFile
<1>4. DOMAIN g = WsFiles /\ g[f] = c /\ \A h \in WsFiles \ {f} : g[h] = fs[h]
  BY <1>1, <1>2 DEF IsWorkspace
<1>5. ASSUME NEW h \in WsFiles PROVE IsFile(g[h]) /\ UserPart(g[h]) = m[h]
  <2>1. CASE h = f
    BY <1>1, <1>4, <2>1, Zenon DEF IsWorkspace
  <2>2. CASE h # f
    BY <1>1, <1>4, <2>2, Zenon DEF IsWorkspace
  <2> QED
    BY <2>1, <2>2
<1>6. WroteOnly(g, fs, m, f, c)
  BY <1>4, <1>5, Zenon DEF IsWorkspace, WroteOnly
<1>7. "files" \in DOMAIN w => [w EXCEPT !.files[f] = c].files = g
  BY <1>1, <1>2
<1> QED
  BY <1>1, <1>3, <1>6, <1>7, Zenon

(* The observe part of a setup that ended well is in place.                *)
ObserveInPlace(g, a) ==
  /\ editor = "opencode" => g["plugin"].json # "absent" /\ Len(HookCommands(g["plugin"].post)) = 1
  /\ editor = "claude" =>
       LET c == g[SettingsPath(a.scope)]
       IN  c.json = "object" /\ c.post # <<>> /\ HookCommands(c.post) # <<>>

(* The two scopes of the settings.                                         *)
LEMMA ScopedFile == \A s : SettingsPath(s) \in {"settings.json", "settings.local.json"}
BY DEF SettingsPath

(* What a setup's observe part, and its flows part, must do.               *)
Observes(r, w, m, a) ==
  /\ LeavesUser(r, w, m, WsFiles \ Elsewhere)
  /\ ~r.raised /\ a.observe /\ a.write => ObserveInPlace(r.w.files, a)

(* A setup's observe part leaves the config and the user's part, and does  *)
(* what it says.                                                           *)
LEMMA ObservedMeans ==
  ASSUME NEW w, NEW m, IsWorkspace(w.files, m), m["plugin"] = UserPart(NoFile),
         editor \in EditorNames, NEW a
  PROVE  Observes(Observed(w, a), w, m, a)
<1>1. PICK r : r = Observed(w, a)
  OBVIOUS
<1> SUFFICES Observes(r, w, m, a)
  BY <1>1, Zenon
<1>2. ASSUME r = Done(w), ~(a.observe /\ a.write) \/ editor = "vscode" PROVE Observes(r, w, m, a)
  <2>1. r.raised = FALSE /\ r.w = w
    BY <1>2 DEF Done
  <2>2. editor = "vscode" => ObserveInPlace(w.files, a)
    BY DEF ObserveInPlace
  <2> QED
    BY <1>2, <2>1, <2>2 DEF Observes, LeavesUser
<1>3. CASE ~a.observe
  BY <1>1, <1>2, <1>3 DEF Observed
<1>4. CASE a.observe /\ editor = "opencode"
  <2>1. r = OpencodeSetupObserve(w, a)
    BY <1>1, <1>4 DEF Observed
  <2>2. CASE ~a.write
    BY <1>2, <2>1, <2>2 DEF OpencodeSetupObserve
  <2>3. CASE a.write
    <3>1. PICK c : c = RenderObservePlugin(a.redact)
      OBVIOUS
    <3>2. /\ IsFile(c) /\ UserPart(c) = UserPart(NoFile) /\ c.json = "object"
          /\ Len(HookCommands(c.post)) = 1
      BY <3>1, PluginMeans, Zenon
    <3>3. "plugin" \in WsFiles /\ "plugin" \in Elsewhere
      BY FilesAre DEF Elsewhere
    <3>4. PICK g : g = WriteFile(w, "plugin", c).files
      OBVIOUS
    <3>5. UserPart(c) = UserPart(w.files["plugin"])
      BY <3>2, <3>3, Zenon DEF IsWorkspace
    <3>6. WroteOnly(g, w.files, m, "plugin", c)
      BY <3>2, <3>3, <3>4, <3>5, WriteMeans, Zenon
    <3>7. r.raised = FALSE /\ r.w.files = g
      BY <2>1, <2>3, <3>1, <3>4 DEF OpencodeSetupObserve, Done
    <3>8. ObserveInPlace(g, a)
      BY <1>4, <3>2, <3>6 DEF ObserveInPlace, WroteOnly
    <3> QED
      BY <3>3, <3>6, <3>7, <3>8 DEF Observes, LeavesUser, WroteOnly
  <2> QED
    BY <2>2, <2>3
<1>5. CASE a.observe /\ editor = "claude"
  <2>1. r = ClaudeSetupObserve(w, a)
    BY <1>1, <1>5 DEF Observed
  <2>2. PICK f : f = SettingsPath(a.scope) /\ f \in WsFiles /\ f \in Elsewhere
    BY ScopedFile, FilesAre DEF Elsewhere
  <2>3. CASE LoadFails(w.files[f])
    <3>1. r = Raised(w)
      BY <2>1, <2>2, <2>3 DEF ClaudeSetupObserve
    <3>2. r.raised = TRUE /\ r.w = w
      BY <3>1 DEF Raised
    <3> QED
      BY <3>2 DEF Observes, LeavesUser
  <2>4. CASE ~LoadFails(w.files[f]) /\ ~a.write
    <3>1. r = Done(w)
      BY <2>1, <2>2, <2>4 DEF ClaudeSetupObserve
    <3> QED
      BY <1>2, <2>4, <3>1
  <2>5. CASE ~LoadFails(w.files[f]) /\ a.write
    <3>1. PICK k \in CaptureCommands : k = CaptureCommand(a.redact)
      BY DEF CaptureCommand, CaptureCommands
    <3>2. PICK c : c = AddObserveHook(w.files[f], k)
      OBVIOUS
    <3>3. IsFile(w.files[f])
      BY <2>2, Zenon DEF IsWorkspace
    <3>4. /\ IsFile(c) /\ UserPart(c) = UserPart(w.files[f]) /\ c.json = "object"
          /\ c.post # <<>> /\ HookCommands(c.post) # <<>>
      BY <2>5, <3>2, <3>3, AddHookMeans, Zenon
    <3>5. PICK g : g = WriteFile(w, f, c).files
      OBVIOUS
    <3>6. WroteOnly(g, w.files, m, f, c)
      BY <2>2, <3>4, <3>5, WriteMeans, Zenon
    <3>7. r = Done(WriteFile(w, f, c))
      BY <2>1, <2>2, <2>5, <3>1, <3>2 DEF ClaudeSetupObserve
    <3>8. r.raised = FALSE /\ r.w.files = g
      BY <3>5, <3>7 DEF Done
    <3>9. ObserveInPlace(g, a)
      BY <1>5, <2>2, <3>4, <3>6 DEF ObserveInPlace, WroteOnly
    <3> QED
      BY <2>2, <3>6, <3>8, <3>9 DEF Observes, LeavesUser, WroteOnly
  <2> QED
    BY <2>3, <2>4, <2>5
<1>6. CASE a.observe /\ editor = "vscode"
  BY <1>1, <1>2, <1>6 DEF Observed, VscodeSetupObserve
<1> QED
  BY <1>3, <1>4, <1>5, <1>6 DEF EditorNames

(* The flow server of a setup that ended well is where the editor looks.   *)
ServerInPlace(g) == g[McpPath(g)].json = "object" /\ HasFlowServer(g[McpPath(g)])

(* Writing the editor's config leaves the editor with that config.         *)
ConfigWritten(g, w, m, c) ==
  IsWorkspace(g, m) /\ g[McpPath(g)] = c /\ \A f \in Elsewhere : g[f] = w.files[f]

(* Writing the config does so, and leaves the user's part.                 *)
LEMMA ConfigMeans ==
  ASSUME NEW w, NEW m, IsWorkspace(w.files, m), NEW c, IsFile(c), c.json = "object",
         UserPart(c) = UserPart(w.files[McpPath(w.files)])
  PROVE  ConfigWritten(WriteFile(w, McpPath(w.files), c).files, w, m, c)
<1>1. PICK f \in WsFiles \ Elsewhere : f = McpPath(w.files)
  BY McpPathMeans
<1>2. PICK g : g = WriteFile(w, f, c).files
  OBVIOUS
<1>3. WroteOnly(g, w.files, m, f, c)
  BY <1>1, <1>2, WriteMeans, Zenon
<1>4. /\ g[f].json # "absent" /\ Elsewhere \subseteq WsFiles
      /\ \A h \in WsFiles \ (Elsewhere \cup {f}) : g[h] = w.files[h]
  BY <1>3, FilesAre DEF WroteOnly, Elsewhere
<1>5. McpPath(g) = f
  BY <1>1, <1>4, McpPathStays, Zenon
<1>6. \A h \in Elsewhere : h \in WsFiles \ {f}
  BY <1>1, <1>4
<1> QED
  BY <1>1, <1>2, <1>3, <1>5, <1>6, Zenon DEF ConfigWritten, WroteOnly

Exposes(r, w, m, a) ==
  LeavesUser(r, w, m, Elsewhere) /\ (~r.raised /\ a.flows /\ a.write => ServerInPlace(r.w.files))

(* A command that writes nothing leaves everything.                        *)
LEMMA StaysMeans ==
  ASSUME NEW w, NEW m, IsWorkspace(w.files, m), NEW S
  PROVE  LeavesUser(Done(w), w, m, S) /\ LeavesUser(Raised(w), w, m, S) /\ Raised(w).raised
         /\ Done(w).w = w
<1>1. Done(w).raised = FALSE /\ Done(w).w = w
  BY DEF Done
<1>2. Raised(w).raised = TRUE /\ Raised(w).w = w
  BY DEF Raised
<1> QED
  BY <1>1, <1>2 DEF LeavesUser

(* A command that wrote the config left the files of the hooks.            *)
LEMMA WrittenMeans ==
  ASSUME NEW v, NEW w, NEW m, NEW c, ConfigWritten(v.files, w, m, c)
  PROVE  LeavesUser(Done(v), w, m, Elsewhere) /\ Done(v).w = v
<1>1. Done(v).raised = FALSE /\ Done(v).w = v
  BY DEF Done
<1> QED
  BY <1>1 DEF LeavesUser, ConfigWritten

(* Merging the server entry, by any of its ways, leaves the user's part.   *)
LEMMA MergeMeans ==
  ASSUME NEW w, NEW m, IsWorkspace(w.files, m), NEW a, NEW lives
  PROVE  Exposes(MergeEntry(w, a, lives), w, m, a)
<1>1. PICK r : r = MergeEntry(w, a, lives)
  OBVIOUS
<1>2. PICK f \in WsFiles \ Elsewhere : f = McpPath(w.files)
  BY McpPathMeans
<1>3. IsFile(w.files[f])
  BY <1>2, Zenon DEF IsWorkspace
<1>4. ASSUME r = Raised(w) PROVE Exposes(r, w, m, a)
  BY <1>4, StaysMeans, Zenon DEF Exposes
<1>5. ASSUME r = Done(w), ~a.write PROVE Exposes(r, w, m, a)
  BY <1>5, StaysMeans, Zenon DEF Exposes
<1>6. ASSUME ~LoadFails(w.files[f]),
             r = Done(WriteFile(w, f, AddFlowServer(w.files[f], FlowMcpEntry(a.prefix))))
      PROVE  Exposes(r, w, m, a)
  <2>1. PICK c : c = AddFlowServer(w.files[f], FlowMcpEntry(a.prefix))
    OBVIOUS
  <2>2. IsFile(c) /\ UserPart(c) = UserPart(w.files[f]) /\ c.json = "object" /\ HasFlowServer(c)
    BY <1>3, <1>6, <2>1, AddServerMeans, Zenon
  <2>3. PICK v : v = WriteFile(w, f, c)
    OBVIOUS
  <2>4. ConfigWritten(v.files, w, m, c)
    BY <1>2, <2>2, <2>3, ConfigMeans, Zenon
  <2>5. r = Done(v)
    BY <1>6, <2>1, <2>3, Zenon
  <2>6. ServerInPlace(v.files)
    BY <2>2, <2>4, Zenon DEF ServerInPlace, ConfigWritten
  <2> QED
    BY <2>4, <2>5, <2>6, WrittenMeans, Zenon DEF Exposes
<1> QED
  BY <1>1, <1>2, <1>4, <1>5, <1>6, Zenon DEF MergeEntry

(* A setup's flows part, with every editor.                                *)
LEMMA ExposedMeans ==
  ASSUME NEW w, NEW m, IsWorkspace(w.files, m), NEW a
  PROVE  Exposes(Exposed(w, a), w, m, a)
<1>1. CASE ~a.flows
  <2>1. Exposed(w, a) = Done(w)
    BY <1>1 DEF Exposed
  <2> QED
    BY <1>1, <2>1, StaysMeans, Zenon DEF Exposes
<1>2. CASE a.flows
  <2>1. PICK lives : Exposed(w, a) = MergeEntry(w, a, lives)
    <3>1. CASE editor = "opencode"
      <4>1. Exposed(w, a) = OpencodeSetupFlows(w, a)
        BY <1>2, <3>1 DEF Exposed
      <4> QED
        BY <4>1 DEF OpencodeSetupFlows
    <3>2. CASE editor = "claude"
      <4>1. Exposed(w, a) = ClaudeSetupFlows(w, a)
        BY <1>2, <3>2 DEF Exposed
      <4> QED
        BY <4>1 DEF ClaudeSetupFlows
    <3>3. CASE editor # "opencode" /\ editor # "claude"
      <4>1. Exposed(w, a) = VscodeSetupFlows(w, a)
        BY <1>2, <3>3 DEF Exposed
      <4> QED
        BY <4>1 DEF VscodeSetupFlows
    <3> QED
      BY <3>1, <3>2, <3>3
  <2> QED
    BY <2>1, MergeMeans, Zenon
<1> QED
  BY <1>1, <1>2

-----------------------------------------------------------------------------
(* What revert leaves.                                                     *)

(* What a revert must do, and the observe part of one.                     *)
NothingObserves(g, a) ==
  /\ editor = "opencode" => HookCommands(g["plugin"].post) = <<>>
  /\ editor = "claude" => HookCommands(g[SettingsPath(a.scope)].post) = <<>>

RevertedObserve(w, a) ==
  CASE a.observe /\ editor = "opencode" -> OpencodeRevertObserve(w, a)
    [] a.observe /\ editor = "claude"   -> ClaudeRevertObserve(w, a)
    [] OTHER                            -> Done(w)

Unobserves(r, w, m, a) ==
  /\ LeavesUser(r, w, m, WsFiles \ Elsewhere)
  /\ ~r.raised /\ a.observe /\ a.write => NothingObserves(r.w.files, a)

(* A revert's observe part leaves the config and the user's part, and does *)
(* what it says.                                                           *)
LEMMA UnobservedMeans ==
  ASSUME NEW w, "files" \in DOMAIN w, NEW m, IsWorkspace(w.files, m),
         m["plugin"] = UserPart(NoFile), editor \in EditorNames, NEW a
  PROVE  Unobserves(RevertedObserve(w, a), w, m, a)
<1>1. PICK r : r = RevertedObserve(w, a)
  OBVIOUS
<1> SUFFICES Unobserves(r, w, m, a)
  BY <1>1, Zenon
<1>2. ASSUME r = Done(w), a.observe /\ a.write => NothingObserves(w.files, a)
      PROVE  Unobserves(r, w, m, a)
  BY <1>2, StaysMeans, Zenon DEF Unobserves
<1>3. CASE ~a.observe \/ editor = "vscode"
  <2>1. r = Done(w)
    BY <1>1, <1>3 DEF RevertedObserve
  <2>2. editor = "vscode" => NothingObserves(w.files, a)
    BY DEF NothingObserves
  <2> QED
    BY <1>2, <1>3, <2>1, <2>2
<1>4. CASE a.observe /\ editor = "opencode"
  <2>1. r = OpencodeRevertObserve(w, a)
    BY <1>1, <1>4 DEF RevertedObserve
  <2>2. CASE ~a.write
    BY <1>2, <2>1, <2>2 DEF OpencodeRevertObserve
  <2>3. CASE a.write
    <3>1. PICK v : v = [w EXCEPT !.files["plugin"] = NoFile]
      OBVIOUS
    <3>2. "plugin" \in WsFiles /\ "plugin" \in Elsewhere
      BY FilesAre DEF Elsewhere
    <3>3. UserPart(NoFile) = UserPart(w.files["plugin"])
      BY <3>2, Zenon DEF IsWorkspace
    <3>4. WroteOnly(v.files, w.files, m, "plugin", NoFile)
      BY <3>1, <3>2, <3>3, FileFields, WriteMeans, Zenon
    <3>5. r = Done(v)
      BY <2>1, <2>3, <3>1 DEF OpencodeRevertObserve
    <3>6. r.raised = FALSE /\ r.w = v
      BY <3>5 DEF Done
    <3>7. HookCommands(v.files["plugin"].post) = <<>>
      <4>1. HookCommands(<<>>) = <<>>
        BY OneCommand DEF CaptureCommands
      <4> QED
        BY <3>4, <4>1, FileFields, Zenon DEF WroteOnly
    <3>8. NothingObserves(v.files, a)
      BY <1>4, <3>7 DEF NothingObserves
    <3> QED
      BY <3>2, <3>4, <3>6, <3>8 DEF Unobserves, LeavesUser, WroteOnly
  <2> QED
    BY <2>2, <2>3
<1>5. CASE a.observe /\ editor = "claude"
  <2>1. r = ClaudeRevertObserve(w, a)
    BY <1>1, <1>5 DEF RevertedObserve
  <2>2. PICK f : f = SettingsPath(a.scope) /\ f \in WsFiles /\ f \in Elsewhere
    BY ScopedFile, FilesAre DEF Elsewhere
  <2>3. IsFile(w.files[f])
    BY <2>2, Zenon DEF IsWorkspace
  <2>4. CASE LoadFails(w.files[f])
    <3>1. r = Raised(w)
      BY <2>1, <2>2, <2>4 DEF ClaudeRevertObserve
    <3> QED
      BY <3>1, StaysMeans, Zenon DEF Unobserves
  <2>5. CASE ~LoadFails(w.files[f]) /\ ~(a.write /\ UserHooks(w.files[f].post) # w.files[f].post)
    <3>1. r = Done(w)
      BY <2>1, <2>2, <2>5 DEF ClaudeRevertObserve
    <3>2. a.write => HookCommands(w.files[f].post) = <<>>
      BY <2>3, <2>5, RemoveHookMeans, Zenon
    <3>3. a.write => NothingObserves(w.files, a)
      BY <1>5, <2>2, <3>2 DEF NothingObserves
    <3> QED
      BY <1>2, <3>1, <3>3
  <2>6. CASE ~LoadFails(w.files[f]) /\ a.write /\ UserHooks(w.files[f].post) # w.files[f].post
    <3>1. PICK c : c = RemoveObserveHook(w.files[f])
      OBVIOUS
    <3>2. /\ IsFile(c) /\ UserPart(c) = UserPart(w.files[f]) /\ c.json = "object"
          /\ HookCommands(c.post) = <<>>
      BY <2>3, <3>1, RemoveHookMeans, Zenon
    <3>3. PICK v : v = WriteFile(w, f, c)
      OBVIOUS
    <3>4. WroteOnly(v.files, w.files, m, f, c)
      BY <2>2, <3>2, <3>3, WriteMeans, Zenon
    <3>5. r = Done(v)
      BY <2>1, <2>2, <2>6, <3>1, <3>3 DEF ClaudeRevertObserve
    <3>6. r.raised = FALSE /\ r.w = v
      BY <3>5 DEF Done
    <3>7. NothingObserves(v.files, a)
      BY <1>5, <2>2, <3>2, <3>4 DEF NothingObserves, WroteOnly
    <3> QED
      BY <2>2, <3>4, <3>6, <3>7 DEF Unobserves, LeavesUser, WroteOnly
  <2> QED
    BY <2>4, <2>5, <2>6
<1> QED
  BY <1>3, <1>4, <1>5 DEF EditorNames

NothingServes(g) == ~HasFlowServer(g[McpPath(g)])
Unexposes(r, w, m, a) ==
  LeavesUser(r, w, m, Elsewhere) /\ (~r.raised /\ a.write => NothingServes(r.w.files))

(* A revert's flows part, with every editor.                               *)
LEMMA UnexposedMeans ==
  ASSUME NEW w, NEW m, IsWorkspace(w.files, m), NEW a
  PROVE  Unexposes(RevertFlows(w, a), w, m, a)
<1>1. PICK r : r = RevertFlows(w, a)
  OBVIOUS
<1>2. PICK f \in WsFiles \ Elsewhere : f = McpPath(w.files)
  BY McpPathMeans
<1>3. IsFile(w.files[f])
  BY <1>2, Zenon DEF IsWorkspace
<1>4. CASE LoadFails(w.files[f])
  <2>1. r = Raised(w)
    BY <1>1, <1>2, <1>4 DEF RevertFlows
  <2> QED
    BY <1>1, <2>1, StaysMeans, Zenon DEF Unexposes
<1>5. CASE ~LoadFails(w.files[f]) /\ ~(a.write /\ HasFlowServer(w.files[f]))
  <2>1. r = Done(w)
    BY <1>1, <1>2, <1>5 DEF RevertFlows
  <2>2. a.write => NothingServes(w.files)
    BY <1>2, <1>5 DEF NothingServes
  <2> QED
    BY <1>1, <2>1, <2>2, StaysMeans, Zenon DEF Unexposes
<1>6. CASE ~LoadFails(w.files[f]) /\ a.write /\ HasFlowServer(w.files[f])
  <2>1. PICK c : c = RemoveFlowServer(w.files[f])
    OBVIOUS
  <2>2. IsFile(c) /\ UserPart(c) = UserPart(w.files[f]) /\ c.json = "object" /\ ~HasFlowServer(c)
    BY <1>3, <2>1, RemoveServerMeans, Zenon
  <2>3. PICK v : v = WriteFile(w, f, c)
    OBVIOUS
  <2>4. ConfigWritten(v.files, w, m, c)
    BY <1>2, <2>2, <2>3, ConfigMeans, Zenon
  <2>5. r = Done(v)
    BY <1>1, <1>2, <1>6, <2>1, <2>3 DEF RevertFlows
  <2>6. NothingServes(v.files)
    BY <2>2, <2>4, Zenon DEF NothingServes, ConfigWritten
  <2> QED
    BY <1>1, <2>4, <2>5, <2>6, WrittenMeans, Zenon DEF Unexposes
<1> QED
  BY <1>4, <1>5, <1>6

-----------------------------------------------------------------------------
(* What capture appends.                                                   *)

(* A line the loader takes, and a trace of such lines.                     *)
IsLine(e) == e.tool # "" /\ e.stamp # "odd"
IsTrace(s) == s \in Seq(ToSet(s)) /\ \A i \in DOMAIN s : IsLine(s[i])

(* Lines the loader takes make a trace.                                    *)
LEMMA TraceOf ==
  ASSUME NEW U, \A e \in U : IsLine(e), NEW s \in Seq(U)
  PROVE  IsTrace(s)
<1>1. PICK n \in Nat : n = Len(s) /\ DOMAIN s = 1 .. n /\ \A i \in 1 .. n : s[i] \in U
  OBVIOUS
<1>2. \A i \in 1 .. n : s[i] \in ToSet(s)
  BY <1>1 DEF ToSet
<1>3. s \in Seq(ToSet(s))
  BY <1>1, <1>2
<1> QED
  BY <1>1, <1>3 DEF IsTrace

(* A trace grows by lines the loader takes.                                *)
LEMMA TraceGrows ==
  ASSUME NEW U, \A e \in U : IsLine(e), NEW s, IsTrace(s), NEW t \in Seq(U)
  PROVE  IsTrace(s \o t)
<1>1. PICK V : V = ToSet(s) \cup U
  OBVIOUS
<1>2. \A e \in ToSet(s) : IsLine(e)
  BY DEF IsTrace, ToSet
<1>3. s \in Seq(V) /\ t \in Seq(V)
  BY <1>1 DEF IsTrace
<1>4. s \o t \in Seq(V)
  BY <1>3
<1> QED
  BY <1>1, <1>2, <1>4, TraceOf

(* A payload that is accepted gives one line at most, and that is one the  *)
(* loader takes.                                                           *)
Gives(r, S) == r.events \in Seq(S) /\ \A e \in S : IsLine(e)

(* A payload that is refused gives no line.                                *)
LEMMA NoLine == \A raised : Gives(NoEvents(raised), {})
BY DEF Gives, NoEvents

(* One element is a sequence.                                              *)
LEMMA OneInSeq == ASSUME NEW S, NEW e \in S PROVE <<e>> \in Seq(S)
OBVIOUS

(* An event with a tool and a stamp is a line the loader takes.            *)
LEMMA OneLine ==
  ASSUME NEW p, NEW redact, NEW stat, NEW stamp, NEW source, p.tool # "", stamp # "odd"
  PROVE  \E S : Gives(OneEvent(TraceEvent(p, redact, stat, stamp, source)), S)
<1>1. PICK e : e = TraceEvent(p, redact, stat, stamp, source)
  OBVIOUS
<1>2. IsLine(e)
  BY <1>1 DEF TraceEvent, IsLine
<1>3. PICK S : S = {e}
  OBVIOUS
<1>4. <<e>> \in Seq(S)
  BY <1>3, OneInSeq
<1>5. OneEvent(e).events = <<e>>
  BY DEF OneEvent
<1>6. Gives(OneEvent(e), S)
  BY <1>2, <1>3, <1>4, <1>5, Zenon DEF Gives
<1> QED
  BY <1>1, <1>6, Zenon

(* A payload of a batch.                                                   *)
IsPayload(p) == p.json \in {"object", "other"} /\ "tool" \in DOMAIN p

(* Every payload gives lines the loader takes, or none.                    *)
LEMMA NormalizeMeans ==
  ASSUME NEW p, IsPayload(p), NEW redact
  PROVE  \E S : Gives(Normalize(p, redact), S)
<1>1. PICK r : r = Normalize(p, redact)
  OBVIOUS
<1>2. CASE \E raised : r = NoEvents(raised)
  BY <1>1, <1>2, NoLine, Zenon
<1>3. CASE editor = "opencode"
  <2>1. r = NormalizeOpencode(p, redact)
    BY <1>1, <1>3 DEF Normalize
  <2>2. CASE p.json = "object" /\ p.tool # "" /\ p.stamp # "odd"
    <3>1. r = OneEvent(TraceEvent(p, redact, OpencodeStatus(p), p.stamp, ""))
      BY <2>1, <2>2 DEF NormalizeOpencode
    <3> QED
      BY <1>1, <2>2, <3>1, OneLine, Zenon
  <2>3. CASE ~(p.json = "object" /\ p.tool # "" /\ p.stamp # "odd")
    <3>1. r \in {NoEvents(TRUE), NoEvents(FALSE)}
      BY <2>1, <2>3 DEF NormalizeOpencode, IsPayload
    <3> QED
      BY <1>2, <3>1
  <2> QED
    BY <2>2, <2>3
<1>4. CASE editor = "claude"
  <2>1. r = NormalizeClaude(p, redact)
    BY <1>1, <1>4 DEF Normalize
  <2>2. CASE p.json = "object" /\ p.tool # ""
    <3>1. r = OneEvent(TraceEvent(p, redact, ClaudeStatus(p), "none", ToolSource(p)))
      BY <2>1, <2>2 DEF NormalizeClaude
    <3>2. "none" # "odd"
      OBVIOUS
    <3> QED
      BY <1>1, <2>2, <3>1, <3>2, OneLine, Zenon
  <2>3. CASE ~(p.json = "object" /\ p.tool # "")
    <3>1. r \in {NoEvents(TRUE), NoEvents(FALSE)}
      BY <2>1, <2>3 DEF NormalizeClaude, IsPayload
    <3> QED
      BY <1>2, <3>1
  <2> QED
    BY <2>2, <2>3
<1>5. CASE editor # "opencode" /\ editor # "claude"
  <2>1. r = NormalizeVscode(p, redact)
    BY <1>1, <1>5 DEF Normalize
  <2>2. CASE p.json = "object" /\ VscodeToolName(p) # ""
    <3>1. PICK q : q = [p EXCEPT !.tool = VscodeToolName(p)]
      OBVIOUS
    <3>2. PICK stamp : stamp = IF p.stamp = "odd" THEN "none" ELSE p.stamp
      OBVIOUS
    <3>3. r = OneEvent(TraceEvent(q, redact, VscodeStatus(p), stamp, ""))
      BY <2>1, <2>2, <3>1, <3>2 DEF NormalizeVscode
    <3>4. q.tool # "" /\ stamp # "odd"
      BY <2>2, <3>1, <3>2 DEF IsPayload
    <3> QED
      BY <1>1, <3>3, <3>4, OneLine, Zenon
  <2>3. CASE ~(p.json = "object" /\ VscodeToolName(p) # "")
    <3>1. r \in {NoEvents(TRUE), NoEvents(FALSE)}
      BY <2>1, <2>3 DEF NormalizeVscode, IsPayload
    <3> QED
      BY <1>2, <3>1
  <2> QED
    BY <2>2, <2>3
<1> QED
  BY <1>3, <1>4, <1>5

(* The lines a batch can give.                                             *)
LinesOf(b) ==
  UNION {ToSet(Normalize(q[1], q[2]).events) : q \in ToSet(b.items) \X BOOLEAN}

(* So does every batch.                                                    *)
LEMMA CapturedMeans ==
  ASSUME NEW b \in Batches, NEW redact \in BOOLEAN
  PROVE  CapturedLines(b, redact) \in Seq(LinesOf(b)) /\ \A e \in LinesOf(b) : IsLine(e)
<1>1. PICK U : U = LinesOf(b)
  OBVIOUS
<1>2. /\ b.items \in Seq(ToSet(b.items))
      /\ \A p \in ToSet(b.items) : IsPayload(p)
  BY EditorsAssumption DEF IsPayload
<1>3. ASSUME NEW p \in ToSet(b.items), NEW red \in BOOLEAN
      PROVE  /\ Normalize(p, red).events \in Seq(U)
             /\ \A e \in ToSet(Normalize(p, red).events) : IsLine(e)
  <2>1. PICK s : s = Normalize(p, red).events
    OBVIOUS
  <2>2. PICK S : s \in Seq(S) /\ \A e \in S : IsLine(e)
    BY <1>2, <2>1, NormalizeMeans, Zenon DEF Gives
  <2>3. ToSet(s) \subseteq U
    <3>1. PICK q \in ToSet(b.items) \X BOOLEAN : q[1] = p /\ q[2] = red
      <4>1. PICK q : q = <<p, red>>
        OBVIOUS
      <4>2. q \in ToSet(b.items) \X BOOLEAN
        BY <4>1
      <4>3. q[1] = p /\ q[2] = red
        BY <4>1
      <4> QED
        BY <4>2, <4>3, Zenon
    <3>2. s = Normalize(q[1], q[2]).events
      BY <2>1, <3>1
    <3> QED
      BY <1>1, <3>2, Zenon DEF LinesOf
  <2>4. IsTrace(s)
    BY <2>2, TraceOf
  <2>5. s \in Seq(ToSet(s)) /\ \A e \in ToSet(s) : IsLine(e)
    BY <2>4 DEF IsTrace, ToSet
  <2>6. s \in Seq(U)
    BY <2>3, <2>5
  <2> QED
    BY <2>1, <2>5, <2>6
<1>4. ASSUME NEW e \in U PROVE IsLine(e)
  <2>1. PICK q \in ToSet(b.items) \X BOOLEAN : e \in ToSet(Normalize(q[1], q[2]).events)
    BY <1>1, Zenon DEF LinesOf
  <2>2. q[1] \in ToSet(b.items) /\ q[2] \in BOOLEAN
    OBVIOUS
  <2> QED
    BY <1>3, <2>1, <2>2, Zenon
<1>5. PICK n \in Nat : n = Len(b.items) /\ DOMAIN b.items = 1 .. n
  BY <1>2
<1>6. PICK parts : parts = [i \in DOMAIN b.items |-> Normalize(b.items[i], redact)]
  OBVIOUS
<1>7. PICK q : q = [i \in DOMAIN parts |-> parts[i].events]
  OBVIOUS
<1>8. PICK V : V = Seq(U)
  OBVIOUS
<1>9. ASSUME NEW i \in 1 .. n PROVE q[i] \in V
  <2>1. b.items[i] \in ToSet(b.items)
    BY <1>5 DEF ToSet
  <2>2. q[i] = Normalize(b.items[i], redact).events
    BY <1>5, <1>6, <1>7
  <2> QED
    BY <1>3, <1>8, <2>1, <2>2
<1>10. q \in Seq(V)
  <2>1. q \in [1 .. n -> V]
    BY <1>5, <1>6, <1>7, <1>9
  <2> QED
    BY <2>1
<1>11. Concat(q) \in Seq(U)
  <2>1. PICK f : (\A k \in 0 .. Len(q) : f[k] \in Seq(U)) /\ Concat(q) = f[Len(q)]
    BY <1>8, <1>10, ConcatUnfolds
  <2>2. Len(q) \in 0 .. Len(q)
    BY <1>10
  <2> QED
    BY <2>1, <2>2, Zenon
<1>12. CapturedLines(b, redact) \in {<<>>, Concat(q)}
  BY <1>6, <1>7, Zenon DEF CapturedLines
<1>13. <<>> \in Seq(U)
  OBVIOUS
<1> QED
  BY <1>1, <1>4, <1>11, <1>12, <1>13

(* The commands installed are capture commands.                            *)
LEMMA InstalledMeans ==
  ASSUME NEW m, IsWorkspace(wsFiles, m)
  PROVE  Installed \in Seq(CaptureCommands)
<1>1. ASSUME NEW c, IsFile(c) PROVE HookCommands(c.post) \in Seq(CaptureCommands)
  <2>1. c.post \in Seq(Entries)
    BY <1>1 DEF IsFile, Entries
  <2>2. {"capture"} \in Entries
    BY OneCommand DEF CaptureCommands
  <2> QED
    BY <2>1, <2>2, CommandsGrow, Zenon
<1>2. ASSUME NEW c, IsFile(c) PROVE SettingsCommands(c) \in Seq(CaptureCommands)
  <2>1. <<>> \in Seq(CaptureCommands)
    OBVIOUS
  <2> QED
    BY <1>1, <1>2, <2>1, Zenon DEF SettingsCommands
<1>3. SettingsFiles[1] \in WsFiles /\ SettingsFiles[2] \in WsFiles /\ "plugin" \in WsFiles
  BY FilesAre DEF SettingsFiles
<1>4. \A f \in WsFiles : IsFile(wsFiles[f])
  BY Zenon DEF IsWorkspace
<1>5. CASE editor = "opencode"
  <2>1. Installed = HookCommands(wsFiles["plugin"].post)
    BY <1>5 DEF Installed
  <2> QED
    BY <1>1, <1>3, <1>4, <2>1, Zenon
<1>6. CASE editor = "claude"
  <2>1. PICK s \in Seq(CaptureCommands), t \in Seq(CaptureCommands) :
          /\ s = SettingsCommands(wsFiles[SettingsFiles[1]])
          /\ t = SettingsCommands(wsFiles[SettingsFiles[2]])
    BY <1>2, <1>3, <1>4
  <2>2. Installed = s \o t
    BY <1>6, <2>1 DEF Installed
  <2> QED
    BY <2>2
<1>7. CASE editor # "opencode" /\ editor # "claude"
  <2>1. Installed = <<"capture">>
    BY <1>7 DEF Installed
  <2> QED
    BY <2>1 DEF CaptureCommands
<1> QED
  BY <1>5, <1>6, <1>7

-----------------------------------------------------------------------------
(* The inductive invariant, and one lemma for each command.                *)

EditorsInv ==
  /\ editor \in EditorNames /\ IsWorkspace(wsFiles, mine)
  /\ mine["plugin"] = UserPart(NoFile) /\ DOMAIN mine = WsFiles
  /\ IsTrace(sink) /\ OutcomeIsTrue

(* After a command that is neither a setup nor a revert that wrote.        *)
LEMMA QuietOutcome ==
  ASSUME IsTrace(sink)', outcome'.write = FALSE
  PROVE  OutcomeIsTrue'
<1>1. \A cmd : ~Ended(cmd)'
  BY DEF Ended
<1>2. \A i \in DOMAIN sink' : sink'[i].tool # "" /\ sink'[i].stamp # "odd"
  BY DEF IsTrace, IsLine
<1> QED
  BY <1>1, <1>2 DEF OutcomeIsTrue

(* Commands that report nothing wrote nothing.                             *)
LEMMA NoOutcomeIs ==
  NoOutcome.write = FALSE /\ \A k : [NoOutcome EXCEPT !.cmd = k].write = FALSE
<1>1. PICK r : r = NoOutcome
  OBVIOUS
<1>2. r.write = FALSE /\ "write" \in DOMAIN r
  BY <1>1 DEF NoOutcome
<1>3. \A k : [r EXCEPT !.cmd = k].write = FALSE
  BY <1>2
<1> QED
  BY <1>1, <1>2, <1>3, Zenon

(* Steps that leave the files.                                             *)
LEMMA FilesStay ==
  ASSUME EditorsInv, UNCHANGED <<editor, wsFiles, mine>>, IsTrace(sink'),
         outcome' = NoOutcome \/ \E k : outcome' = [NoOutcome EXCEPT !.cmd = k]
  PROVE  EditorsInv'
<1>1. outcome'.write = FALSE
  BY NoOutcomeIs, Zenon
<1>2. IsTrace(sink)'
  BY DEF IsTrace, IsLine
<1>3. IsWorkspace(wsFiles, mine)'
  BY DEF EditorsInv, IsWorkspace
<1> QED
  BY <1>1, <1>2, <1>3, QuietOutcome DEF EditorsInv

(* Mining, promoting and ignoring a flow.                                  *)
LEMMA FlowsKeep ==
  ASSUME EditorsInv, UNCHANGED editor,
         \/ RecordCandidate("mined")
         \/ \E p \in DOMAIN flowDir :
              (\E target \in {"reviewed", "active"} : PromoteFlow(p, target)) \/ IgnoreFlow(p)
  PROVE  EditorsInv'
<1>1. UNCHANGED <<wsFiles, mine, sink>> /\ \E k : outcome' = [NoOutcome EXCEPT !.cmd = k]
  <2>1. CASE RecordCandidate("mined")
    BY <2>1 DEF RecordCandidate
  <2>2. CASE \E p \in DOMAIN flowDir : \E target : TransitionCandidate(p, target)
    BY <2>2 DEF TransitionCandidate
  <2> QED
    BY <2>1, <2>2 DEF PromoteFlow, IgnoreFlow
<1> QED
  BY <1>1, FilesStay DEF EditorsInv

(* Capturing a batch.                                                      *)
LEMMA CaptureKeeps ==
  ASSUME EditorsInv, UNCHANGED editor, NEW b \in Batches, Capture(b)
  PROVE  EditorsInv'
<1>1. PICK U : U = LinesOf(b)
  OBVIOUS
<1>2. \A e \in U : IsLine(e)
  <2>1. TRUE \in BOOLEAN
    OBVIOUS
  <2> QED
    BY <1>1, <2>1, CapturedMeans, Zenon
<1>3. PICK n \in Nat : n = Len(Installed) /\ DOMAIN Installed = 1 .. n
  BY InstalledMeans DEF EditorsInv
<1>4. PICK q : q = [i \in DOMAIN Installed |-> CapturedLines(b, Installed[i] = "capture")]
  OBVIOUS
<1>5. PICK V : V = Seq(U)
  OBVIOUS
<1>6. ASSUME NEW i \in 1 .. n PROVE q[i] \in V
  <2>1. PICK redact \in BOOLEAN : redact = (Installed[i] = "capture")
    OBVIOUS
  <2>2. q[i] = CapturedLines(b, redact)
    BY <1>3, <1>4, <2>1, Zenon
  <2> QED
    BY <1>1, <1>5, <2>2, CapturedMeans, Zenon
<1>7. q \in Seq(V) /\ Len(q) = n
  <2>1. q \in [1 .. n -> V]
    BY <1>3, <1>4, <1>6
  <2> QED
    BY <2>1
<1>8. Concat(q) \in Seq(U)
  <2>1. PICK f : (\A k \in 0 .. Len(q) : f[k] \in Seq(U)) /\ Concat(q) = f[Len(q)]
    BY <1>5, <1>7, ConcatUnfolds
  <2>2. Len(q) \in 0 .. Len(q)
    BY <1>7
  <2> QED
    BY <2>1, <2>2, Zenon
<1>9. sink' = sink \o Concat(q)
  BY <1>4, Zenon DEF Capture
<1>10. IsTrace(sink')
  BY <1>2, <1>8, <1>9, TraceGrows DEF EditorsInv
<1>11. UNCHANGED <<wsFiles, mine>> /\ outcome' = [NoOutcome EXCEPT !.cmd = "capture"]
  BY DEF Capture
<1> QED
  BY <1>10, <1>11, FilesStay

(* The user's edits.                                                       *)
LEMMA WritesKeep ==
  ASSUME EditorsInv, UNCHANGED editor, NEW f \in UserFiles, NEW c, IsFile(c), UserWrites(f, c)
  PROVE  EditorsInv'
<1>1. f \in WsFiles /\ f # "plugin" /\ "plugin" \in WsFiles
  BY FilesAre
<1>2. /\ wsFiles' = [wsFiles EXCEPT ![f] = c] /\ mine' = [mine EXCEPT ![f] = UserPart(c)]
      /\ outcome' = NoOutcome /\ sink' = sink
  BY DEF UserWrites
<1>3. /\ DOMAIN wsFiles = WsFiles /\ DOMAIN mine = WsFiles /\ IsTrace(sink)
      /\ \A h \in WsFiles : IsFile(wsFiles[h]) /\ UserPart(wsFiles[h]) = mine[h]
      /\ mine["plugin"] = UserPart(NoFile)
  BY DEF EditorsInv, IsWorkspace
<1>4. PICK g, m : g = wsFiles' /\ m = mine'
  OBVIOUS
<1>5. /\ DOMAIN g = WsFiles /\ DOMAIN m = WsFiles /\ g[f] = c /\ m[f] = UserPart(c)
      /\ \A h \in WsFiles \ {f} : g[h] = wsFiles[h] /\ m[h] = mine[h]
  BY <1>1, <1>2, <1>3, <1>4
<1>6. ASSUME NEW h \in WsFiles PROVE IsFile(g[h]) /\ UserPart(g[h]) = m[h]
  <2>1. CASE h = f
    BY <1>5, <2>1, Zenon
  <2>2. CASE h # f
    BY <1>3, <1>5, <2>2, Zenon
  <2> QED
    BY <2>1, <2>2
<1>7. IsWorkspace(g, m) /\ m["plugin"] = UserPart(NoFile)
  BY <1>1, <1>3, <1>5, <1>6 DEF IsWorkspace
<1>8. IsWorkspace(wsFiles, mine)' /\ (mine["plugin"] = UserPart(NoFile) /\ DOMAIN mine = WsFiles)'
  BY <1>4, <1>5, <1>7 DEF IsWorkspace
<1>9. IsTrace(sink)'
  BY <1>2, <1>3 DEF IsTrace, IsLine
<1>10. outcome'.write = FALSE
  BY <1>2, NoOutcomeIs
<1> QED
  BY <1>8, <1>9, <1>10, QuietOutcome DEF EditorsInv

(* Any edit of a file of the user's.                                       *)
LEMMA EditsKeep ==
  ASSUME EditorsInv, UNCHANGED editor, NEW f \in UserFiles, Edits(f)
  PROVE  EditorsInv'
<1>1. PICK c : c = wsFiles[f]
  OBVIOUS
<1>2. IsFile(c)
  BY <1>1, FilesAre, Zenon DEF EditorsInv, IsWorkspace
<1>3. DOMAIN c = FieldsOf /\ c.post \in Seq(Entries)
  BY <1>2, FileFields DEF IsFile, Entries
<1>4. "lint" \in HookCommandNames /\ {"lint"} \in Entries
  BY DEF HookCommandNames, Entries
<1>5. \E d : IsFile(d) /\ UserWrites(f, d)
  <2>1. ASSUME NEW s, AddsServer(f, s) PROVE \E d : IsFile(d) /\ UserWrites(f, d)
    <3>1. PICK d : d = [c EXCEPT !.json = "object", !.odd = FALSE, !.servers = c.servers \cup {s}]
      OBVIOUS
    <3>2. UserWrites(f, d)
      BY <1>1, <2>1, <3>1 DEF AddsServer
    <3>3. DOMAIN d = FieldsOf /\ d.json = "object" /\ d.post = c.post
      BY <1>3, <3>1 DEF FieldsOf
    <3>4. IsFile(d)
      BY <1>3, <3>3, FileFields DEF IsFile, Entries
    <3> QED
      BY <3>2, <3>4
  <2>2. ASSUME AddsHook(f) PROVE \E d : IsFile(d) /\ UserWrites(f, d)
    <3>1. PICK d : d = [c EXCEPT !.json = "object", !.post = Append(c.post, {"lint"})]
      OBVIOUS
    <3>2. UserWrites(f, d)
      BY <1>1, <2>2, <3>1 DEF AddsHook
    <3>3. DOMAIN d = FieldsOf /\ d.json = "object" /\ d.post = Append(c.post, {"lint"})
      BY <1>3, <3>1 DEF FieldsOf
    <3>4. Append(c.post, {"lint"}) \in Seq(Entries)
      BY <1>3, <1>4
    <3>5. IsFile(d)
      BY <3>3, <3>4, FileFields DEF IsFile, Entries
    <3> QED
      BY <3>2, <3>5
  <2>3. ASSUME SharesHook(f) PROVE \E d : IsFile(d) /\ UserWrites(f, d)
    <3>1. PICK i \in DOMAIN c.post : UserWrites(f, [c EXCEPT !.post[i] = @ \cup {"lint"}])
      BY <1>1, <2>3 DEF SharesHook
    <3>2. PICK post : post = [c.post EXCEPT ![i] = @ \cup {"lint"}]
      OBVIOUS
    <3>3. PICK d : d = [c EXCEPT !.post = post]
      OBVIOUS
    <3>4. UserWrites(f, d)
      BY <3>1, <3>2, <3>3
    <3>5. DOMAIN d = FieldsOf /\ d.json = c.json /\ d.post = post
      BY <1>3, <3>3 DEF FieldsOf
    <3>6. post \in Seq(Entries)
      <4>1. c.post[i] \in Entries
        BY <1>3, <3>1
      <4>2. c.post[i] \cup {"lint"} \in Entries
        BY <1>4, <4>1 DEF Entries
      <4> QED
        BY <1>3, <3>1, <3>2, <4>2
    <3>7. c.json \notin {"absent", "other"} /\ c.json \in {"object", "broken"}
      <4>1. c.post # <<>>
        BY <3>1
      <4> QED
        BY <1>2, <4>1 DEF IsFile
    <3>8. IsFile(d)
      BY <3>5, <3>6, <3>7, FileFields DEF IsFile, Entries
    <3> QED
      BY <3>4, <3>8
  <2>4. ASSUME Breaks(f) \/ Fixes(f) PROVE \E d : IsFile(d) /\ UserWrites(f, d)
    <3>1. PICK k \in {"object", "broken"} : UserWrites(f, [c EXCEPT !.json = k])
      BY <1>1, <2>4 DEF Breaks, Fixes
    <3>2. PICK d : d = [c EXCEPT !.json = k]
      OBVIOUS
    <3>3. DOMAIN d = FieldsOf /\ d.json = k /\ d.post = c.post
      BY <1>3, <3>2 DEF FieldsOf
    <3>4. IsFile(d)
      BY <1>3, <3>3, FileFields DEF IsFile, Entries
    <3> QED
      BY <3>1, <3>2, <3>4
  <2> QED
    BY <2>1, <2>2, <2>3, <2>4 DEF Edits
<1> QED
  BY <1>5, WritesKeep

(* What setup and revert report.                                           *)
Reports(a, cmd, r, told) ==
  Finished([a EXCEPT !.cmd = cmd], r, told) /\ DOMAIN a = DOMAIN NoOutcome

(* A report repeats what was asked; exit 0 says nothing was raised.        *)
LEMMA ReportMeans ==
  ASSUME NEW a, NEW cmd, NEW r, NEW told, Reports(a, cmd, r, told), r.raised \in BOOLEAN
  PROVE  /\ wsFiles' = r.w.files /\ outcome'.cmd = cmd /\ outcome'.write = a.write
         /\ outcome'.observe = a.observe /\ outcome'.flows = a.flows
         /\ outcome'.prefix = a.prefix /\ outcome'.scope = a.scope /\ outcome'.away = a.away
         /\ outcome'.exit = 0 => ~r.raised /\ outcome'.told = told
<1>1. PICK b : b = [a EXCEPT !.cmd = cmd]
  OBVIOUS
<1>2. /\ DOMAIN a = DOMAIN b /\ b.cmd = cmd /\ b.write = a.write /\ b.observe = a.observe
      /\ b.flows = a.flows /\ b.prefix = a.prefix /\ b.scope = a.scope /\ b.away = a.away
  <2>1. {"cmd", "write", "observe", "flows", "prefix", "scope", "away"} \subseteq DOMAIN a
    BY DEF Reports, NoOutcome
  <2> QED
    BY <1>1, <2>1
<1>3. {"write", "observe", "flows", "prefix", "scope", "away", "cmd", "exit", "told"}
        \subseteq DOMAIN b
  BY <1>2 DEF Reports, NoOutcome
<1>4. PICK exit, names : exit = (IF r.raised THEN 1 ELSE 0) /\ names = IF r.raised THEN {} ELSE told
  OBVIOUS
<1>5. PICK o : o = [b EXCEPT !.exit = exit, !.told = names]
  OBVIOUS
<1>6. wsFiles' = r.w.files /\ outcome' = o
  BY <1>1, <1>4, <1>5 DEF Reports, Finished
<1>7. /\ o.cmd = b.cmd /\ o.write = b.write /\ o.observe = b.observe /\ o.flows = b.flows
      /\ o.prefix = b.prefix /\ o.scope = b.scope /\ o.away = b.away
      /\ o.exit = exit /\ o.told = names
  BY <1>3, <1>5
<1> QED
  BY <1>2, <1>4, <1>6, <1>7

(* What holds of the workspace after a setup, and after a revert.          *)
SetUp(r, a) ==
  /\ r.raised \in BOOLEAN /\ IsWorkspace(r.w.files, mine)
  /\ ~r.raised /\ a.write => /\ a.observe => ObserveInPlace(r.w.files, a)
                             /\ a.flows => ServerInPlace(r.w.files)

TornDown(r, a) ==
  /\ r.raised \in BOOLEAN /\ IsWorkspace(r.w.files, mine)
  /\ ~r.raised /\ a.write => /\ a.observe => NothingObserves(r.w.files, a)
                             /\ a.flows => NothingServes(r.w.files)

(* A setup does its observe part, then its flows part.                     *)
LEMMA SetupMeans ==
  ASSUME EditorsInv, NEW a, Setup(a)
  PROVE  \E r : SetUp(r, a) /\ Finished([a EXCEPT !.cmd = "setup"], r, Told(a))
<1>1. PICK w : w = [files |-> wsFiles, baks |-> baks]
  OBVIOUS
<1>2. w.files = wsFiles /\ IsWorkspace(w.files, mine)
  BY <1>1 DEF EditorsInv
<1>3. PICK r1 : r1 = Observed(w, a)
  OBVIOUS
<1>4. PICK r : r = IF r1.raised THEN r1 ELSE Exposed(r1.w, a)
  OBVIOUS
<1>5. Finished([a EXCEPT !.cmd = "setup"], r, Told(a))
  BY <1>1, <1>3, <1>4, Zenon DEF Setup
<1>6. Observes(r1, w, mine, a)
  BY <1>2, <1>3, ObservedMeans, Zenon DEF EditorsInv
<1>7. CASE r1.raised
  BY <1>4, <1>5, <1>6, <1>7 DEF SetUp, Observes, LeavesUser
<1>8. CASE ~r1.raised
  <2>1. Exposes(r, r1.w, mine, a)
    BY <1>4, <1>6, <1>8, ExposedMeans, Zenon DEF Observes, LeavesUser
  <2>2. ObserveInPlace(r1.w.files, a) => ObserveInPlace(r.w.files, a)
    <3>1. "plugin" \in Elsewhere /\ SettingsPath(a.scope) \in Elsewhere
      BY ScopedFile DEF Elsewhere
    <3>2. /\ r.w.files["plugin"] = r1.w.files["plugin"]
          /\ r.w.files[SettingsPath(a.scope)] = r1.w.files[SettingsPath(a.scope)]
      BY <2>1, <3>1 DEF Exposes, LeavesUser
    <3> QED
      BY <3>2, Zenon DEF ObserveInPlace
  <2> QED
    BY <1>5, <1>6, <1>8, <2>1, <2>2 DEF SetUp, Observes, Exposes, LeavesUser
<1> QED
  BY <1>7, <1>8

(* A revert undoes its observe part, then its flows part.                  *)
LEMMA RevertMeans ==
  ASSUME EditorsInv, NEW a, Revert(a)
  PROVE  \E r : TornDown(r, a) /\ Finished([a EXCEPT !.cmd = "revert"], r, {})
<1>1. PICK w : w = [files |-> wsFiles, baks |-> baks]
  OBVIOUS
<1>2. w.files = wsFiles /\ IsWorkspace(w.files, mine) /\ "files" \in DOMAIN w
  BY <1>1 DEF EditorsInv
<1>3. PICK r1 : r1 = RevertedObserve(w, a)
  OBVIOUS
<1>4. PICK r : r = IF r1.raised \/ ~a.flows THEN r1 ELSE RevertFlows(r1.w, a)
  OBVIOUS
<1>5. Finished([a EXCEPT !.cmd = "revert"], r, {})
  BY <1>1, <1>3, <1>4, Zenon DEF Revert, RevertedObserve
<1>6. Unobserves(r1, w, mine, a)
  BY <1>2, <1>3, UnobservedMeans, Zenon DEF EditorsInv
<1>7. CASE r1.raised \/ ~a.flows
  BY <1>4, <1>5, <1>6, <1>7 DEF TornDown, Unobserves, LeavesUser
<1>8. CASE ~(r1.raised \/ ~a.flows)
  <2>1. Unexposes(r, r1.w, mine, a)
    BY <1>4, <1>6, <1>8, UnexposedMeans, Zenon DEF Unobserves, LeavesUser
  <2>2. NothingObserves(r1.w.files, a) => NothingObserves(r.w.files, a)
    <3>1. "plugin" \in Elsewhere /\ SettingsPath(a.scope) \in Elsewhere
      BY ScopedFile DEF Elsewhere
    <3>2. /\ r.w.files["plugin"] = r1.w.files["plugin"]
          /\ r.w.files[SettingsPath(a.scope)] = r1.w.files[SettingsPath(a.scope)]
      BY <2>1, <3>1 DEF Unexposes, LeavesUser
    <3> QED
      BY <3>2, Zenon DEF NothingObserves
  <2> QED
    BY <1>5, <1>6, <1>8, <2>1, <2>2 DEF TornDown, Unobserves, Unexposes, LeavesUser
<1> QED
  BY <1>7, <1>8

(* The workspace stays one, the rest of the invariant with it.             *)
LEMMA FinishedKeeps ==
  ASSUME EditorsInv, UNCHANGED <<editor, mine, sink>>, IsWorkspace(wsFiles', mine), OutcomeIsTrue'
  PROVE  EditorsInv'
<1>1. IsWorkspace(wsFiles, mine)'
  BY DEF IsWorkspace
<1>2. IsTrace(sink)'
  BY DEF EditorsInv, IsTrace, IsLine
<1> QED
  BY <1>1, <1>2 DEF EditorsInv

(* Setting up.                                                             *)
LEMMA SetupKeeps ==
  ASSUME EditorsInv, UNCHANGED editor, NEW a \in Calls, Setup(a)
  PROVE  EditorsInv'
<1>1. PICK r : SetUp(r, a) /\ Finished([a EXCEPT !.cmd = "setup"], r, Told(a))
  BY SetupMeans
<1>2. UNCHANGED <<mine, flowDir, sink>>
  BY DEF Setup
<1>3. PICK g : g = r.w.files
  OBVIOUS
<1>4. /\ wsFiles' = g /\ outcome'.cmd = "setup" /\ outcome'.write = a.write
      /\ outcome'.observe = a.observe /\ outcome'.flows = a.flows
      /\ outcome'.prefix = a.prefix /\ outcome'.scope = a.scope /\ outcome'.away = a.away
      /\ outcome'.exit = 0 => ~r.raised /\ outcome'.told = Told(a)
  <2>1. Reports(a, "setup", r, Told(a)) /\ r.raised \in BOOLEAN
    BY <1>1, EditorsAssumption DEF Reports, SetUp
  <2> QED
    BY <1>3, <2>1, ReportMeans
<1>5. ~Ended("revert")'
  BY <1>4 DEF Ended
<1>6. Ended("setup")' => ~r.raised /\ a.write /\ outcome'.told = Told(a)
  BY <1>4 DEF Ended
<1>7. IsWorkspace(g, mine)
  BY <1>1, <1>3 DEF SetUp
<1>8. \A i \in DOMAIN sink' : sink'[i].tool # "" /\ sink'[i].stamp # "odd"
  BY <1>2 DEF EditorsInv, OutcomeIsTrue
<1>9. ASSUME Ended("setup")', a.flows PROVE DoctorFlowServer'
  <2>1. ServerInPlace(g)
    BY <1>1, <1>3, <1>6, <1>9 DEF SetUp
  <2>2. PICK c : c = g[McpPath(g)]
    OBVIOUS
  <2>3. c.json = "object" /\ HasFlowServer(c)
    BY <2>1, <2>2 DEF ServerInPlace
  <2>4. PICK s \in c.servers : LooksLikeFlowServer(s)
    BY <2>3 DEF HasFlowServer, LooksLikeFlowServer
  <2>5. McpPath(wsFiles)' = McpPath(g)
    BY <1>4 DEF McpPath
  <2>6. wsFiles'[McpPath(wsFiles)'] = c
    BY <1>4, <2>2, <2>5
  <2> QED
    BY <2>3, <2>4, <2>6 DEF DoctorFlowServer
<1>10. ASSUME Ended("setup")', editor = "opencode", OneVersionEach', ~RegistrationFails',
              ~outcome'.away
       PROVE  ~ServeRefuses' /\ ServedTools(outcome.prefix)' = outcome'.told
  <2>1. ~ServeRefuses'
    BY <1>10 DEF ServeRefuses, OneVersionEach, Loaded
  <2>2. Told(a) = {SafeMacroToolName(n, a.prefix) : n \in ActiveFlowNames(ActiveOrReviewed)}
    <3>1. ~a.away
      BY <1>4, <1>10
    <3>2. FlowsFound(a, ActiveOrReviewed) = ActiveFlowNames(ActiveOrReviewed)
      BY <3>1, Zenon DEF FlowsFound
    <3> QED
      BY <1>10, <3>2, Zenon DEF Told
  <2>3. ServedNames' = ActiveFlowNames(ActiveOrReviewed)
    BY <1>2, <2>1, Zenon DEF ServedNames, ActiveFlowNames, Loaded
  <2>4. ServedTools(outcome.prefix)'
          = {SafeMacroToolName(n, a.prefix) : n \in ActiveFlowNames(ActiveOrReviewed)}
    BY <1>4, <2>3, Zenon DEF ServedTools
  <2> QED
    BY <1>6, <1>10, <2>1, <2>2, <2>4
<1>11. ASSUME Ended("setup")', a.observe
       PROVE  /\ editor' = "opencode" => OpencodePluginCheck' /\ Len(Installed') = 1
              /\ editor' = "claude" => ClaudeHooksCheck' /\ Installed' # <<>>
  <2>1. ObserveInPlace(g, a)
    BY <1>1, <1>3, <1>6, <1>11 DEF SetUp
  <2>2. CASE editor = "opencode"
    <3>1. Installed' = HookCommands(g["plugin"].post)
      BY <1>4, <2>2 DEF Installed
    <3> QED
      BY <1>4, <2>1, <2>2, <3>1 DEF ObserveInPlace, OpencodePluginCheck
  <2>3. CASE editor = "claude"
    <3>1. PICK c : c = g[SettingsPath(a.scope)] /\ c.json = "object" /\ c.post # <<>>
                   /\ HookCommands(c.post) # <<>>
      BY <2>1, <2>3 DEF ObserveInPlace
    <3>2. PICK i \in {1, 2} : SettingsPath(a.scope) = SettingsFiles[i]
      <4>1. SettingsFiles[1] = "settings.json" /\ SettingsFiles[2] = "settings.local.json"
        BY DEF SettingsFiles
      <4> QED
        BY <4>1, ScopedFile
    <3>3. DOMAIN SettingsFiles = {1, 2}
      BY DEF SettingsFiles
    <3>4. ClaudeHooksCheck'
      BY <1>4, <3>1, <3>2, <3>3 DEF ClaudeHooksCheck
    <3>5. Installed' # <<>>
      <4>1. ASSUME NEW f \in WsFiles PROVE SettingsCommands(g[f]) \in Seq(CaptureCommands)
        <5>1. g[f].post \in Seq(Entries)
          BY <1>7 DEF IsWorkspace, IsFile, Entries
        <5>2. {"capture"} \in Entries
          BY OneCommand DEF CaptureCommands
        <5>3. HookCommands(g[f].post) \in Seq(CaptureCommands) /\ <<>> \in Seq(CaptureCommands)
          BY <5>1, <5>2, CommandsGrow
        <5> QED
          BY <5>3, Zenon DEF SettingsCommands
      <4>2. SettingsFiles[1] \in WsFiles /\ SettingsFiles[2] \in WsFiles
        BY FilesAre DEF SettingsFiles
      <4>3. PICK s \in Seq(CaptureCommands), t \in Seq(CaptureCommands) :
              s = SettingsCommands(g[SettingsFiles[1]]) /\ t = SettingsCommands(g[SettingsFiles[2]])
        BY <4>1, <4>2
      <4>4. SettingsCommands(c) # <<>>
        BY <3>1, Zenon DEF SettingsCommands
      <4>5. s # <<>> \/ t # <<>>
        BY <3>1, <3>2, <4>3, <4>4
      <4>6. s \o t # <<>>
        BY <4>3, <4>5
      <4>7. Installed' = s \o t
        BY <1>4, <2>3, <4>3 DEF Installed
      <4> QED
        BY <4>6, <4>7
    <3> QED
      BY <2>3, <3>4, <3>5
  <2> QED
    BY <2>2, <2>3
<1>12. OutcomeIsTrue'
  BY <1>4, <1>5, <1>8, <1>9, <1>10, <1>11 DEF OutcomeIsTrue
<1> QED
  BY <1>2, <1>4, <1>7, <1>12, FinishedKeeps

(* Reverting.                                                              *)
LEMMA RevertKeeps ==
  ASSUME EditorsInv, UNCHANGED editor, NEW a \in Calls, Revert(a)
  PROVE  EditorsInv'
<1>1. PICK r : TornDown(r, a) /\ Finished([a EXCEPT !.cmd = "revert"], r, {})
  BY RevertMeans
<1>2. UNCHANGED <<mine, flowDir, sink>>
  BY DEF Revert
<1>3. PICK g : g = r.w.files
  OBVIOUS
<1>4. /\ wsFiles' = g /\ outcome'.cmd = "revert" /\ outcome'.write = a.write
      /\ outcome'.observe = a.observe /\ outcome'.flows = a.flows
      /\ outcome'.prefix = a.prefix /\ outcome'.scope = a.scope
      /\ outcome'.exit = 0 => ~r.raised /\ outcome'.told = {}
  <2>1. Reports(a, "revert", r, {}) /\ r.raised \in BOOLEAN
    BY <1>1, EditorsAssumption DEF Reports, TornDown
  <2> QED
    BY <1>3, <2>1, ReportMeans
<1>5. ~Ended("setup")'
  BY <1>4 DEF Ended
<1>6. Ended("revert")' => ~r.raised /\ a.write
  BY <1>4 DEF Ended
<1>7. IsWorkspace(g, mine)
  BY <1>1, <1>3 DEF TornDown
<1>8. \A i \in DOMAIN sink' : sink'[i].tool # "" /\ sink'[i].stamp # "odd"
  BY <1>2 DEF EditorsInv, OutcomeIsTrue
<1>9. ASSUME Ended("revert")', a.flows
      PROVE  LET c == wsFiles'[McpPath(wsFiles)']
             IN  ~HasFlowServer(c) /\ (DoctorFlowServer' => \E s \in mine'[McpPath(wsFiles)'].servers :
                                                              LooksLikeFlowServer(s))
  <2>1. NothingServes(g)
    BY <1>1, <1>3, <1>6, <1>9 DEF TornDown
  <2>2. PICK f \in WsFiles : f = McpPath(g)
    BY McpPathMeans
  <2>3. PICK c : c = g[f]
    OBVIOUS
  <2>4. ~HasFlowServer(c) /\ UserPart(c) = mine[f]
    BY <1>7, <2>1, <2>2, <2>3 DEF NothingServes, IsWorkspace
  <2>5. \A s \in c.servers : s[1] # Ours
    BY <2>4 DEF HasFlowServer
  <2>6. mine[f].servers = c.servers
    <3>1. mine[f].servers = {s \in c.servers : s[1] # Ours}
      <4>1. UserPart(c).servers = {s \in c.servers : s[1] # Ours}
        BY DEF UserPart
      <4> QED
        BY <2>4, <4>1, Zenon
    <3> QED
      BY <2>5, <3>1, Zenon
  <2>7. McpPath(wsFiles)' = f
    BY <1>4, <2>2 DEF McpPath
  <2>8. wsFiles'[McpPath(wsFiles)'] = c /\ mine'[McpPath(wsFiles)'] = mine[f]
    BY <1>2, <1>4, <2>3, <2>7
  <2>9. DoctorFlowServer' => \E s \in c.servers : LooksLikeFlowServer(s)
    BY <2>8 DEF DoctorFlowServer
  <2> QED
    BY <2>4, <2>6, <2>8, <2>9
<1>10. ASSUME Ended("revert")', a.observe
       PROVE  /\ editor' = "opencode" => Installed' = <<>>
              /\ editor' = "claude" =>
                   HookCommands(wsFiles'[SettingsPath(outcome'.scope)].post) = <<>>
  <2>1. NothingObserves(g, a)
    BY <1>1, <1>3, <1>6, <1>10 DEF TornDown
  <2>2. CASE editor = "opencode"
    <3>1. Installed' = HookCommands(g["plugin"].post)
      BY <1>4, <2>2 DEF Installed
    <3> QED
      BY <2>1, <2>2, <3>1 DEF NothingObserves
  <2>3. CASE editor = "claude"
    BY <1>4, <2>1, <2>3 DEF NothingObserves
  <2> QED
    BY <2>2, <2>3
<1>11. OutcomeIsTrue'
  BY <1>4, <1>5, <1>8, <1>9, <1>10 DEF OutcomeIsTrue
<1> QED
  BY <1>2, <1>4, <1>7, <1>11, FinishedKeeps

(* The invariant holds of every workspace the user starts from.            *)
LEMMA EditorsInitially == ASSUME EditorsInit PROVE EditorsInv
<1>1. PICK f \in UserFiles, t \in UserTexts :
        wsFiles = [g \in WsFiles |-> IF g = f THEN t ELSE NoFile]
  BY DEF EditorsInit
<1>2. /\ mine = [h \in WsFiles |-> UserPart(wsFiles[h])] /\ sink = <<>> /\ outcome = NoOutcome
      /\ editor \in EditorNames
  BY DEF EditorsInit, EditorNames
<1>3. f # "plugin" /\ "plugin" \in WsFiles
  BY FilesAre
<1>4. \A h \in WsFiles : wsFiles[h] = IF h = f THEN t ELSE NoFile
  BY <1>1
<1>5. IsFile(t) /\ IsFile(NoFile)
  BY EditorsAssumption, FileFields
<1>6. IsWorkspace(wsFiles, mine)
  <2>1. DOMAIN wsFiles = WsFiles /\ \A h \in WsFiles : UserPart(wsFiles[h]) = mine[h]
    BY <1>1, <1>2
  <2>2. \A h \in WsFiles : IsFile(wsFiles[h])
    BY <1>4, <1>5
  <2> QED
    BY <2>1, <2>2 DEF IsWorkspace
<1>7. mine["plugin"] = UserPart(NoFile) /\ DOMAIN mine = WsFiles
  BY <1>2, <1>3, <1>4
<1>8. IsTrace(sink)
  BY <1>2, EmptySeq DEF IsTrace
<1>9. OutcomeIsTrue
  <2>1. \A cmd : ~Ended(cmd)
    BY <1>2, NoOutcomeIs DEF Ended
  <2> QED
    BY <1>2, <2>1 DEF OutcomeIsTrue
<1> QED
  BY <1>2, <1>6, <1>7, <1>8, <1>9 DEF EditorsInv

(* A step that changes nothing keeps the invariant.                        *)
LEMMA EditorsStay == ASSUME EditorsInv, UNCHANGED editorVars PROVE EditorsInv'
<1>1. UNCHANGED <<editor, wsFiles, mine, flowDir, sink, outcome>>
  BY DEF editorVars
<1>2. IsWorkspace(wsFiles, mine)' /\ IsTrace(sink)'
  BY <1>1 DEF EditorsInv, IsWorkspace, IsTrace, IsLine
<1>3. /\ \A cmd : Ended(cmd)' = Ended(cmd)
      /\ McpPath(wsFiles)' = McpPath(wsFiles) /\ Installed' = Installed
  BY <1>1 DEF Ended, McpPath, Installed
<1>4. /\ DoctorFlowServer' = DoctorFlowServer
      /\ OpencodePluginCheck' = OpencodePluginCheck /\ ClaudeHooksCheck' = ClaudeHooksCheck
  BY <1>1, <1>3 DEF DoctorFlowServer, OpencodePluginCheck, ClaudeHooksCheck
<1>5. /\ OneVersionEach' = OneVersionEach /\ RegistrationFails' = RegistrationFails
      /\ ServeRefuses' = ServeRefuses
  BY <1>1 DEF OneVersionEach, RegistrationFails, ServeRefuses, Loaded
<1>6. ServedTools(outcome.prefix)' = ServedTools(outcome.prefix)
  <2>1. ServedNames' = ServedNames
    BY <1>1, <1>5 DEF ServedNames, ActiveFlowNames, Loaded
  <2> QED
    BY <1>1, <2>1, Zenon DEF ServedTools
<1>7. OutcomeIsTrue'
  BY <1>1, <1>3, <1>4, <1>5, <1>6 DEF EditorsInv, OutcomeIsTrue
<1> QED
  BY <1>1, <1>2, <1>7 DEF EditorsInv

(* The invariant of the editor adapters holds in every state.              *)
LEMMA EditorsInvariant == EditorsSpec => []EditorsInv
<1>1. ASSUME EditorsInv, [EditorsNext]_editorVars PROVE EditorsInv'
  <2>1. CASE UNCHANGED editorVars
    BY <1>1, <2>1, EditorsStay
  <2>2. CASE EditorsNext
    <3>1. UNCHANGED editor
      BY <2>2 DEF EditorsNext
    <3>2. CASE \E a \in Calls : Setup(a)
      BY <1>1, <3>1, <3>2, SetupKeeps
    <3>3. CASE \E a \in Calls : Revert(a)
      BY <1>1, <3>1, <3>3, RevertKeeps
    <3>4. CASE \E b \in Batches : Capture(b)
      BY <1>1, <3>1, <3>4, CaptureKeeps
    <3>5. CASE \/ RecordCandidate("mined")
               \/ \E p \in DOMAIN flowDir :
                    (\E target \in {"reviewed", "active"} : PromoteFlow(p, target)) \/ IgnoreFlow(p)
      BY <1>1, <3>1, <3>5, FlowsKeep
    <3>6. CASE \E f \in UserFiles : Edits(f)
      BY <1>1, <3>1, <3>6, EditsKeep
    <3> QED
      BY <2>2, <3>2, <3>3, <3>4, <3>5, <3>6 DEF EditorsNext
  <2> QED
    BY <1>1, <2>1, <2>2
<1>2. EditorsInit => EditorsInv
  BY EditorsInitially
<1> QED
  BY <1>1, <1>2, PTL DEF EditorsSpec

(* Setup, revert and the user's own edits, in any order and with any text  *)
(* in the files: what the user wrote survives in every file, and a command *)
(* that ends well has done what it announced.                              *)
THEOREM EditsSafe == EditorsSpec => []EditsAreSafe
<1>1. EditorsInv => EditsAreSafe
  BY DEF EditorsInv, EditsAreSafe, UserConfigSurvives, IsWorkspace
<1> QED
  BY <1>1, EditorsInvariant, PTL

-----------------------------------------------------------------------------
(* Masking: the table of placeholders.                                     *)

(* An element of a sequence.                                               *)
Has(s, x) == \E k \in 1 .. Len(s) : s[k] = x

(* What has one end has the whole.                                         *)
LEMMA HasGrows ==
  ASSUME NEW T, NEW s \in Seq(T), NEW t \in Seq(T), NEW x, Has(s, x) \/ Has(t, x)
  PROVE  Has(s \o t, x)
<1>1. PICK m \in Nat, n \in Nat : m = Len(s) /\ n = Len(t) /\ Len(s \o t) = m + n
  BY ConcatProperties, LenProperties
<1>2. \A k \in 1 .. m + n : (s \o t)[k] = IF k <= m THEN s[k] ELSE t[k - m]
  BY <1>1, ConcatProperties
<1>3. ASSUME NEW k \in 1 .. m, s[k] = x PROVE Has(s \o t, x)
  <2>1. k \in 1 .. m + n /\ k <= m
    BY <1>1
  <2>2. (s \o t)[k] = x
    BY <1>2, <1>3, <2>1
  <2> QED
    BY <1>1, <2>1, <2>2 DEF Has
<1>4. ASSUME NEW k \in 1 .. n, t[k] = x PROVE Has(s \o t, x)
  <2>1. PICK j \in 1 .. m + n : j = m + k /\ ~(j <= m) /\ j - m = k
    BY <1>1
  <2>2. (s \o t)[j] = x
    BY <1>2, <1>4, <2>1
  <2> QED
    BY <1>1, <2>1, <2>2 DEF Has
<1> QED
  BY <1>1, <1>3, <1>4 DEF Has

(* What has one of the parts has the whole.                                *)
LEMMA ConcatHas ==
  ASSUME NEW T, NEW bs \in Seq(Seq(T)), NEW i \in 1 .. Len(bs), NEW x, Has(bs[i], x)
  PROVE  Concat(bs) \in Seq(T) /\ Has(Concat(bs), x)
<1>1. PICK n \in Nat : n = Len(bs)
  OBVIOUS
<1>2. PICK f : /\ f[0] = <<>> /\ \A k \in 1 .. n : f[k] = f[k - 1] \o bs[k]
               /\ \A k \in 0 .. n : f[k] \in Seq(T)
               /\ Concat(bs) = f[n]
  BY <1>1, ConcatUnfolds
<1> DEFINE S == {k \in 0 .. n : k >= i => Has(f[k], x)}
<1>4. 0 \in S
  BY <1>1
<1>5. ASSUME NEW k \in S, k < n PROVE k + 1 \in S
  <2>1. PICK h \in 1 .. n : h = k + 1 /\ h - 1 = k /\ k \in 0 .. n /\ h \in 0 .. n
    BY <1>1, <1>5
  <2>2. f[h] = f[h - 1] \o bs[h]
    BY <1>2, Zenon
  <2>3. PICK s \in Seq(T), t \in Seq(T) : s = f[k] /\ t = bs[h]
    BY <1>1, <1>2, <2>1
  <2>4. f[h] = s \o t
    BY <2>1, <2>2, <2>3, Zenon
  <2>5. ASSUME h >= i PROVE Has(f[h], x)
    <3>1. k >= i \/ h = i
      BY <1>1, <2>1, <2>5
    <3>2. Has(s, x) \/ Has(t, x)
      BY <1>5, <2>3, <3>1
    <3>3. Has(s \o t, x)
      BY <3>2, HasGrows
    <3> QED
      BY <2>4, <3>3
  <2> QED
    BY <2>1, <2>5, Zenon
<1>6. S = 0 .. n
  <2>1. S \in SUBSET (0 .. n)
    OBVIOUS
  <2> HIDE DEF S
  <2> QED
    BY <1>1, <1>4, <1>5, <2>1, UpTo
<1>7. n \in S /\ n >= i /\ n \in 0 .. n
  BY <1>1, <1>6
<1> QED
  BY <1>2, <1>7, Zenon

(* A table gives each value an ordinal of its own.                         *)
IsTable(ms) ==
  /\ IsFiniteSet(ms) /\ \A p \in ms : p[2] \in 1 .. Cardinality(ms)
  /\ \A p, q \in ms : p[1] = q[1] \/ p[2] = q[2] => p = q

(* A value is in the table; a table after a value was entered.             *)
Lists(ms, v) == \E p \in ms : p[1] = v

Enters(t, ms, v) ==
  /\ IsTable(t) /\ Lists(t, v) /\ ms \subseteq t
  /\ t \subseteq ms \cup {<<v, Cardinality(ms) + 1>>}

(* Placeholder enters a value, with the next ordinal if it is new.         *)
LEMMA PlaceholderMeans ==
  ASSUME NEW ms, IsTable(ms), NEW v
  PROVE  Enters(Placeholder(ms, v), ms, v)
<1>1. PICK t : t = Placeholder(ms, v)
  OBVIOUS
<1>2. CASE Lists(ms, v)
  BY <1>2 DEF Lists, Placeholder, Enters
<1>3. CASE ~Lists(ms, v)
  <2>1. PICK n \in Nat : n = Cardinality(ms)
    BY FS_CardinalityType DEF IsTable
  <2>0. PICK x : x = <<v, n + 1>>
    OBVIOUS
  <2>2. x = <<v, n + 1>> /\ x[1] = v /\ x[2] = n + 1
    BY <2>0
  <2>3. t = ms \cup {x}
    BY <1>1, <1>3, <2>1, <2>2 DEF Placeholder, Lists
  <2>4. \A p \in ms : p[1] # v /\ p[2] \in 1 .. n
    BY <1>3, <2>1 DEF Lists, IsTable
  <2>5. x \notin ms
    BY <2>2, <2>4
  <2>6. IsFiniteSet(t) /\ Cardinality(t) = n + 1
    BY <2>1, <2>3, <2>5, FS_AddElement DEF IsTable
  <2>7. \A p \in t : p[2] \in 1 .. n + 1
    BY <2>1, <2>2, <2>3, <2>4
  <2>8. \A p \in ms : p[2] # n + 1
    BY <2>1, <2>4
  <2>9. \A p, q \in t : p[1] = q[1] \/ p[2] = q[2] => p = q
    BY <2>2, <2>3, <2>4, <2>8 DEF IsTable
  <2>10. IsTable(t)
    BY <2>6, <2>7, <2>9 DEF IsTable
  <2>11. Lists(t, v)
    BY <2>2, <2>3 DEF Lists
  <2> QED
    BY <1>1, <2>1, <2>2, <2>3, <2>10, <2>11 DEF Enters
<1> QED
  BY <1>2, <1>3

(* The tables over some values.                                            *)
Tables(U) == {ms \in SUBSET (U \X Nat) : IsTable(ms)}

(* The recursion of Numbered, step by step.                                *)
LEMMA NumberedUnfolds ==
  ASSUME NEW U, NEW vs \in Seq(U)
  PROVE  \E f : /\ f[0] = {} /\ \A n \in 1 .. Len(vs) : f[n] = Placeholder(f[n - 1], vs[n])
                /\ \A n \in 0 .. Len(vs) : f[n] \in Tables(U)
                /\ Numbered(vs) = f[Len(vs)]
<1> DEFINE Step(x, n) == Placeholder(x, vs[n])
           m == Len(vs)
           h == CHOOSE f :
                  f = [n \in 0 .. Len(vs) |-> IF n = 0 THEN {} ELSE Placeholder(f[n - 1], vs[n])]
<1>0. PICK D : D = Tables(U)
  OBVIOUS
<1>1. m \in Nat /\ {} \in D /\ \A n \in 1 .. m : \A x \in D : Step(x, n) \in D
  <2>1. m \in Nat /\ \A n \in 1 .. m : vs[n] \in U
    OBVIOUS
  <2>2. {} \in D
    BY <1>0, FS_EmptySet DEF Tables, IsTable
  <2>3. ASSUME NEW n \in 1 .. m, NEW x \in D PROVE Step(x, n) \in D
    <3>1. PICK v \in U : v = vs[n]
      BY <2>1
    <3>2. PICK t : t = Placeholder(x, v)
      OBVIOUS
    <3>3. IsTable(x) /\ x \subseteq U \X Nat
      BY <1>0 DEF Tables
    <3>4. IsTable(t) /\ t \subseteq x \cup {<<v, Cardinality(x) + 1>>}
      BY <3>2, <3>3, PlaceholderMeans, Zenon DEF Enters
    <3>5. Cardinality(x) \in Nat
      BY <3>3, FS_CardinalityType DEF IsTable
    <3>6. t \subseteq U \X Nat
      BY <3>3, <3>4, <3>5
    <3> QED
      BY <1>0, <3>1, <3>2, <3>4, <3>6 DEF Tables
  <2> QED
    BY <2>1, <2>2, <2>3
<1>2. Numbered(vs) = h[m]
  BY Zenon DEF Numbered
<1>3. \E f : f = [n \in 0 .. m |-> IF n = 0 THEN {} ELSE Placeholder(f[n - 1], vs[n])]
  <2> HIDE DEF m, Step
  <2>2. PICK b : b = {}
    OBVIOUS
  <2>3. PICK g : g = [n \in 1 .. m |-> [x \in D |-> Step(x, n)]]
    OBVIOUS
  <2>4. b \in D /\ \A n \in 1 .. m : \A x \in D : Step(x, n) \in D
    BY <1>1, <2>2
  <2>5. StaysIn(g, m, D)
    BY <2>3, <2>4 DEF StaysIn
  <2>6. PICK f \in [0 .. m -> D] : Iterates(f, b, g, m)
    BY <1>1, <2>4, <2>5, RecursionExists
  <2>7. ASSUME NEW n \in 1 .. m PROVE f[n] = Step(f[n - 1], n)
    <3>1. n - 1 \in 0 .. m
      BY <1>1
    <3> QED
      BY <2>3, <2>6, <3>1 DEF Iterates
  <2>8. f = [n \in 0 .. m |-> IF n = 0 THEN b ELSE Step(f[n - 1], n)]
    BY <1>1, <2>6, <2>7 DEF Iterates
  <2> QED
    BY <2>2, <2>8, Zenon DEF Step
<1> HIDE DEF Step
<1>4. h = [n \in 0 .. m |-> IF n = 0 THEN {} ELSE Step(h[n - 1], n)]
  BY <1>3, Zenon DEF Step
<1> HIDE DEF h, m
<1>5. h[0] = {} /\ \A n \in 1 .. m : h[n] = Step(h[n - 1], n)
  <2>1. 0 \in 0 .. m /\ \A n \in 1 .. m : n \in 0 .. m /\ n # 0
    BY <1>1
  <2> QED
    BY <1>4, <2>1
<1> DEFINE S == {n \in 0 .. m : h[n] \in D}
<1>6. 0 \in S
  <2>1. 0 \in 0 .. m
    BY <1>1
  <2>2. h[0] \in D
    BY <1>1, <1>5, Zenon
  <2> QED
    BY <2>1, <2>2
<1>7. ASSUME NEW n \in S, n < m PROVE n + 1 \in S
  <2>1. n + 1 \in 1 .. m /\ n + 1 \in 0 .. m /\ n + 1 - 1 = n
    BY <1>1, <1>7
  <2>2. h[n + 1] = Step(h[n], n + 1) /\ h[n] \in D
    BY <1>5, <2>1
  <2> QED
    BY <1>1, <2>1, <2>2
<1>8. S = 0 .. m
  <2>1. S \in SUBSET (0 .. m)
    OBVIOUS
  <2> HIDE DEF S
  <2> QED
    BY <1>1, <1>6, <1>7, <2>1, UpTo
<1>9. \A n \in 0 .. m : h[n] \in Tables(U)
  BY <1>0, <1>8
<1>10. \E f : /\ f[0] = {} /\ \A n \in 1 .. m : f[n] = Step(f[n - 1], n)
              /\ \A n \in 0 .. m : f[n] \in Tables(U)
              /\ Numbered(vs) = f[m]
  BY <1>2, <1>5, <1>9, Zenon
<1> QED
  BY <1>10 DEF Step, m

(* Every value is listed.                                                  *)
LEMMA NumberedMeans ==
  ASSUME NEW U, NEW vs \in Seq(U)
  PROVE  IsTable(Numbered(vs)) /\ \A k \in 1 .. Len(vs) : Lists(Numbered(vs), vs[k])
<1>1. PICK m \in Nat : m = Len(vs)
  OBVIOUS
<1>2. PICK f : /\ f[0] = {} /\ \A n \in 1 .. m : f[n] = Placeholder(f[n - 1], vs[n])
               /\ \A n \in 0 .. m : f[n] \in Tables(U)
               /\ Numbered(vs) = f[m]
  BY <1>1, NumberedUnfolds
<1> DEFINE S == {n \in 0 .. m : \A k \in 1 .. n : Lists(f[n], vs[k])}
<1>3. 0 \in S
  BY <1>1
<1>4. ASSUME NEW n \in S, n < m PROVE n + 1 \in S
  <2>1. PICK h \in 1 .. m : h = n + 1 /\ h - 1 = n /\ h \in 0 .. m /\ n \in 0 .. m
    BY <1>1, <1>4
  <2>2. f[h] = Placeholder(f[h - 1], vs[h])
    BY <1>2, Zenon
  <2>3. PICK x : x = f[n] /\ IsTable(x)
    BY <1>2, <2>1 DEF Tables
  <2>4. f[h] = Placeholder(x, vs[h])
    BY <2>1, <2>2, <2>3
  <2>5. Lists(f[h], vs[h]) /\ x \subseteq f[h]
    <3>1. Enters(Placeholder(x, vs[h]), x, vs[h])
      BY <2>3, PlaceholderMeans, Zenon
    <3>2. Enters(f[h], x, vs[h])
      BY <2>4, <3>1, Zenon
    <3> QED
      BY <3>2 DEF Enters
  <2>6. ASSUME NEW k \in 1 .. h PROVE Lists(f[h], vs[k])
    <3>1. CASE k = h
      BY <2>5, <3>1
    <3>2. CASE k # h
      <4>1. k \in 1 .. n
        BY <1>1, <2>1, <3>2
      <4>2. Lists(x, vs[k])
        BY <1>4, <2>3, <4>1
      <4> QED
        BY <2>5, <4>2 DEF Lists
    <3> QED
      BY <3>1, <3>2
  <2> QED
    BY <2>1, <2>6
<1>5. S = 0 .. m
  <2>1. S \in SUBSET (0 .. m)
    OBVIOUS
  <2> HIDE DEF S
  <2> QED
    BY <1>1, <1>3, <1>4, <2>1, UpTo
<1>6. m \in S /\ f[m] \in Tables(U)
  BY <1>1, <1>2, <1>5
<1> QED
  BY <1>1, <1>2, <1>6 DEF Tables

-----------------------------------------------------------------------------
(* What a load returns.                                                    *)

(* The arguments of a line that are secret.                                *)
SecretKeysOf(l) == DOMAIN l.args \cap SecretKeys

(* Lines as they are logged.                                               *)
LEMMA LineFields ==
  ASSUME NEW l \in TraceLines
  PROVE  /\ DOMAIN l = {"session", "kind", "tool", "args", "outs", "failed"}
         /\ IsFiniteSet(DOMAIN l.args) /\ l.kind \in {"bad", "tool_call", "model_call"}
BY AgentTracesAssumption DEF BadLine

(* Secrets lists the secrets of a line, every one of them.                 *)
LEMMA SecretsMean ==
  ASSUME NEW l \in TraceLines
  PROVE  LET S == {l.args[k] : k \in SecretKeysOf(l)}
         IN  Secrets(l) \in Seq(S) /\ \A x \in S : Has(Secrets(l), x)
<1>1. PICK D : D = SecretKeysOf(l)
  OBVIOUS
<1>2. PICK S : S = {l.args[k] : k \in D}
  OBVIOUS
<1>3. IsFiniteSet(D)
  BY <1>1, LineFields, FS_Subset DEF SecretKeysOf
<1>4. PICK f : f = [k \in D |-> l.args[k]]
  OBVIOUS
<1>5. f \in Surjection(D, S)
  BY <1>2, <1>4 DEF Surjection
<1>6. IsFiniteSet(S)
  BY <1>3, <1>5, FS_Surjection
<1>7. Secrets(l) = SetToSeq(S)
  BY <1>1, <1>2, Zenon DEF Secrets, SecretKeysOf
<1>8. SetToSeq(S) \in Seq(S) /\ \A x \in S : Has(SetToSeq(S), x)
  BY <1>6, SetAsSeq, Zenon DEF Has
<1> QED
  BY <1>1, <1>2, <1>7, <1>8, Zenon

(* The table of a file lists every secret in it.                           *)
Covers(ms, l) == \A k \in SecretKeysOf(l) : Lists(ms, l.args[k])

(* Masked makes a table that covers every line.                            *)
LEMMA MaskedMeans ==
  ASSUME NEW ls \in Seq(TraceLines)
  PROVE  IsTable(Masked(ls)) /\ \A i \in DOMAIN ls : Covers(Masked(ls), ls[i])
<1>1. PICK n \in Nat : n = Len(ls) /\ DOMAIN ls = 1 .. n /\ \A i \in 1 .. n : ls[i] \in TraceLines
  OBVIOUS
<1>2. PICK bs : bs = [i \in DOMAIN ls |-> Secrets(ls[i])]
  OBVIOUS
<1>3. PICK U : U = UNION {ToSet(Secrets(ls[i])) : i \in 1 .. n}
  OBVIOUS
<1>4. PICK V : V = Seq(U)
  OBVIOUS
<1>5. ASSUME NEW i \in 1 .. n PROVE bs[i] \in V
  <2>1. PICK s : s = Secrets(ls[i])
    OBVIOUS
  <2>2. PICK S : s \in Seq(S)
    BY <1>1, <2>1, SecretsMean
  <2>3. s \in Seq(ToSet(s))
    <3>1. PICK m \in Nat : m = Len(s) /\ s \in [1 .. m -> S]
      BY <2>2
    <3>2. \A j \in 1 .. m : s[j] \in ToSet(s)
      BY <3>1 DEF ToSet
    <3> QED
      BY <3>1, <3>2
  <2>4. ToSet(s) \subseteq U
    BY <1>3, <2>1, Zenon
  <2>5. s \in Seq(U)
    BY <2>3, <2>4
  <2> QED
    BY <1>1, <1>2, <1>4, <2>1, <2>5
<1>6. bs \in Seq(V) /\ Len(bs) = n
  <2>1. bs \in [1 .. n -> V]
    BY <1>1, <1>2, <1>5
  <2> QED
    BY <2>1
<1>7. PICK vs : vs = Concat(bs)
  OBVIOUS
<1>8. vs \in Seq(U)
  <2>1. PICK f : (\A k \in 0 .. Len(bs) : f[k] \in Seq(U)) /\ Concat(bs) = f[Len(bs)]
    BY <1>4, <1>6, ConcatUnfolds
  <2>2. Len(bs) \in 0 .. Len(bs)
    BY <1>6
  <2> QED
    BY <1>7, <2>1, <2>2, Zenon
<1>9. PICK ms : ms = Masked(ls)
  OBVIOUS
<1>10. ms = Numbered(vs)
  BY <1>2, <1>7, <1>9, Zenon DEF Masked
<1>11. IsTable(ms) /\ \A k \in 1 .. Len(vs) : Lists(ms, vs[k])
  BY <1>8, <1>10, NumberedMeans, Zenon
<1>12. ASSUME NEW i \in 1 .. n, NEW k \in SecretKeysOf(ls[i]) PROVE Lists(ms, ls[i].args[k])
  <2>1. PICK x : x = ls[i].args[k]
    OBVIOUS
  <2>2. x \in {ls[i].args[h] : h \in SecretKeysOf(ls[i])}
    BY <2>1
  <2>3. Has(Secrets(ls[i]), x)
    BY <1>1, <2>2, SecretsMean, Zenon
  <2>4. bs[i] = Secrets(ls[i]) /\ i \in 1 .. Len(bs)
    BY <1>1, <1>2, <1>6
  <2>5. Has(bs[i], x)
    BY <2>3, <2>4, Zenon
  <2>6. bs \in Seq(Seq(U))
    BY <1>4, <1>6, Zenon
  <2>7. Has(vs, x)
    BY <1>7, <2>4, <2>5, <2>6, ConcatHas, Zenon
  <2>8. PICK y \in 1 .. Len(vs) : vs[y] = x
    BY <2>7 DEF Has
  <2> QED
    BY <1>11, <2>1, <2>8
<1> QED
  BY <1>1, <1>9, <1>11, <1>12, Zenon DEF Covers

(* Each event is a good line of the file, redacted.                        *)
Shows(e, ms, l) == e = Redacted(ms, l) /\ ~CoerceFails(l) /\ Covers(ms, l)

TracesInv ==
  /\ jsonl \in Seq(TraceLines) /\ IsTable(masks)
  /\ events \in Seq(ToSet(events)) /\ Len(events) <= Len(jsonl)
  /\ \A i \in DOMAIN events : Shows(events[i], masks, jsonl[i])

(* Nothing was logged and nothing loaded.                                  *)
LEMMA TracesInitially == ASSUME AgentTracesInit PROVE TracesInv
<1>1. jsonl = <<>> /\ events = <<>> /\ masks = {}
  BY DEF AgentTracesInit
<1>2. jsonl \in Seq(TraceLines) /\ events \in Seq(ToSet(events)) /\ Len(events) <= Len(jsonl)
      /\ DOMAIN events = {}
  BY <1>1
<1>3. IsTable(masks)
  BY <1>1, FS_EmptySet DEF IsTable
<1> QED
  BY <1>2, <1>3 DEF TracesInv

(* A logged line leaves the lines already loaded.                          *)
LEMMA LogKeeps == ASSUME TracesInv, NEW l \in TraceLines, Log(l) PROVE TracesInv'
<1>1. jsonl' = Append(jsonl, l) /\ UNCHANGED <<events, masks>>
  BY DEF Log
<1>2. PICK n \in Nat : n = Len(jsonl) /\ Len(events) \in Nat /\ Len(events) <= n
                       /\ DOMAIN events = 1 .. Len(events)
  BY DEF TracesInv
<1>3. jsonl' \in Seq(TraceLines) /\ Len(jsonl') = n + 1 /\ \A i \in 1 .. n : jsonl'[i] = jsonl[i]
  BY <1>1, <1>2 DEF TracesInv
<1>4. \A i \in DOMAIN events : jsonl'[i] = jsonl[i]
  BY <1>2, <1>3
<1>5. IsTable(masks')
  BY <1>1 DEF TracesInv
<1> QED
  BY <1>1, <1>2, <1>3, <1>4, <1>5 DEF TracesInv, Shows

(* A load takes the whole file, or fails.                                  *)
LEMMA LoadKeeps == ASSUME TracesInv, LoadAgentTrace PROVE TracesInv'
<1>1. jsonl' = jsonl /\ jsonl \in Seq(TraceLines)
  BY DEF LoadAgentTrace, TracesInv
<1>2. CASE importError'
  <2>1. events' = <<>> /\ masks' = {}
    BY <1>2 DEF LoadAgentTrace
  <2>2. events' \in Seq(ToSet(events')) /\ Len(events') <= Len(jsonl') /\ DOMAIN events' = {}
    BY <1>1, <2>1
  <2>3. IsTable(masks')
    BY <2>1, FS_EmptySet DEF IsTable
  <2> QED
    BY <1>1, <2>2, <2>3 DEF TracesInv
<1>3. CASE ~importError'
  <2>1. PICK ms : ms = Masked(jsonl)
    OBVIOUS
  <2>2. /\ masks' = ms /\ events' = [i \in DOMAIN jsonl |-> Redacted(ms, jsonl[i])]
        /\ \A i \in DOMAIN jsonl : ~CoerceFails(jsonl[i])
    BY <1>3, <2>1 DEF LoadAgentTrace
  <2>3. IsTable(ms) /\ \A i \in DOMAIN jsonl : Covers(ms, jsonl[i])
    BY <1>1, <2>1, MaskedMeans, Zenon
  <2>4. PICK es : es = events'
    OBVIOUS
  <2>5. PICK n \in Nat : n = Len(jsonl) /\ DOMAIN jsonl = 1 .. n
    BY <1>1
  <2>6. DOMAIN es = 1 .. n
        /\ \A i \in 1 .. n : es[i] = Redacted(ms, jsonl[i]) /\ es[i] \in ToSet(es)
    BY <2>2, <2>4, <2>5 DEF ToSet
  <2>7. es \in Seq(ToSet(es)) /\ Len(es) = n
    BY <2>2, <2>4, <2>5, <2>6
  <2>8. \A i \in DOMAIN es : Shows(es[i], ms, jsonl[i])
    BY <2>2, <2>3, <2>5, <2>6 DEF Shows
  <2> QED
    BY <1>1, <2>2, <2>3, <2>4, <2>5, <2>7, <2>8 DEF TracesInv
<1> QED
  BY <1>2, <1>3

(* The invariant of the trace pipeline holds in every state.               *)
LEMMA TracesInvariant == AgentTracesSpec => []TracesInv
<1>1. ASSUME TracesInv, [AgentTracesNext]_traceVars PROVE TracesInv'
  <2>1. CASE UNCHANGED traceVars
    BY <1>1, <2>1 DEF TracesInv, traceVars
  <2>2. CASE \E l \in TraceLines : Log(l)
    BY <1>1, <2>2, LogKeeps
  <2>3. CASE LoadAgentTrace
    BY <1>1, <2>3, LoadKeeps
  <2> QED
    BY <1>1, <2>1, <2>2, <2>3 DEF AgentTracesNext
<1>2. AgentTracesInit => TracesInv
  BY TracesInitially
<1> QED
  BY <1>1, <1>2, PTL DEF AgentTracesSpec

-----------------------------------------------------------------------------
(* What the invariant says of events, windows and drafts.                  *)

(* The entry of a value in the table.                                      *)
MaskOf(v) == CHOOSE p \in masks : p[1] = v

(* An event keeps its line's fields; a secret shows as its place in the    *)
(* table.                                                                  *)
LEMMA EventFields ==
  ASSUME TracesInv, NEW i \in DOMAIN events
  PROVE  /\ i \in DOMAIN jsonl /\ jsonl[i] \in TraceLines
         /\ events[i].kind \in {"tool_call", "model_call"}
         /\ events[i].kind = "tool_call" => events[i].tool # ""
         /\ DOMAIN events[i].args = DOMAIN jsonl[i].args
         /\ \A k \in SecretKeysOf(jsonl[i]) :
              /\ Lists(masks, jsonl[i].args[k])
              /\ events[i].args[k] = MaskOf(jsonl[i].args[k])
<1>1. i \in DOMAIN jsonl
  <2>1. PICK m \in Nat, n \in Nat : m = Len(events) /\ n = Len(jsonl) /\ m <= n
                                    /\ DOMAIN events = 1 .. m /\ DOMAIN jsonl = 1 .. n
    BY DEF TracesInv
  <2> QED
    BY <2>1
<1>2. PICK l \in TraceLines : l = jsonl[i]
  BY <1>1 DEF TracesInv
<1>3. PICK e : e = events[i] /\ Shows(e, masks, l)
  BY <1>2 DEF TracesInv
<1>4. PICK args : args = [k \in DOMAIN l.args |->
                            IF k \in SecretKeys THEN MaskOf(l.args[k]) ELSE <<l.args[k]>>]
  OBVIOUS
<1>5. e = [l EXCEPT !.args = args]
  BY <1>3, <1>4, Zenon DEF Shows, Redacted, MaskOf
<1>6. e.args = args /\ e.kind = l.kind /\ e.tool = l.tool
  BY <1>5, LineFields
<1>7. l.kind \in {"tool_call", "model_call"} /\ (l.kind = "tool_call" => l.tool # "")
  BY <1>3, LineFields DEF Shows, CoerceFails
<1>8. \A k \in SecretKeysOf(l) : Lists(masks, l.args[k])
  BY <1>3 DEF Shows, Covers
<1>9. DOMAIN args = DOMAIN l.args
  BY <1>4
<1>10. \A k \in SecretKeysOf(l) : args[k] = MaskOf(l.args[k])
  BY <1>4 DEF SecretKeysOf
<1> QED
  BY <1>1, <1>2, <1>3, <1>6, <1>7, <1>8, <1>9, <1>10

(* Equal secrets have one placeholder, distinct secrets two.               *)
LEMMA SecretsApart ==
  ASSUME TracesInv, NEW i \in DOMAIN events, NEW j \in DOMAIN events,
         NEW k \in SecretKeys, NEW l \in SecretKeys,
         k \in DOMAIN events[i].args, l \in DOMAIN events[j].args
  PROVE  (events[i].args[k][2] = events[j].args[l][2]) = (jsonl[i].args[k] = jsonl[j].args[l])
<1>1. PICK v, w : v = jsonl[i].args[k] /\ w = jsonl[j].args[l]
  OBVIOUS
<1>2. PICK p, q : p = events[i].args[k] /\ q = events[j].args[l]
  OBVIOUS
<1>3. k \in SecretKeysOf(jsonl[i]) /\ l \in SecretKeysOf(jsonl[j])
  BY EventFields DEF SecretKeysOf
<1>4. Lists(masks, v) /\ Lists(masks, w) /\ p = MaskOf(v) /\ q = MaskOf(w)
  BY <1>1, <1>2, <1>3, EventFields
<1>5. p \in masks /\ p[1] = v /\ q \in masks /\ q[1] = w
  BY <1>4, Zenon DEF Lists, MaskOf
<1>6. p[2] = q[2] => v = w
  BY <1>5 DEF TracesInv, IsTable
<1>7. v = w => p = q
  BY <1>4, Zenon
<1> QED
  BY <1>1, <1>2, <1>6, <1>7

(* The sessions are finite in number, and so are the windows.              *)
LEMMA WindowsFinite ==
  ASSUME TracesInv, NEW seq
  PROVE  /\ IsFiniteSet(Sessions) /\ IsFiniteSet(IterWindows(seq))
         /\ IterWindows(seq) \subseteq Sessions \X (1 .. MaxLines)
<1>1. IsFiniteSet(DOMAIN events)
  <2>1. PICK m \in Nat : DOMAIN events = 1 .. m
    BY DEF TracesInv
  <2> QED
    BY <2>1, FS_Interval
<1>2. PICK f : f = [i \in DOMAIN events |-> events[i].session]
  OBVIOUS
<1>3. f \in Surjection(DOMAIN events, Sessions)
  BY <1>2 DEF Surjection, Sessions
<1>4. IsFiniteSet(Sessions)
  BY <1>1, <1>3, FS_Surjection
<1>5. IsFiniteSet(1 .. MaxLines)
  BY AgentTracesAssumption, FS_Interval
<1>6. IsFiniteSet(Sessions \X (1 .. MaxLines))
  BY <1>4, <1>5, FS_Product
<1>7. IterWindows(seq) \subseteq Sessions \X (1 .. MaxLines)
  BY DEF IterWindows, Places
<1> QED
  BY <1>4, <1>6, <1>7, FS_Subset

(* Natural numbers that are some have a least.                             *)
LEMMA LeastOf == ASSUME NEW S, S \subseteq Nat, S # {} PROVE \E n \in S : \A k \in S : n <= k
<1> DEFINE R == OpToRel(<, Nat)
<1>1. IsWellFoundedOn(R, Nat)
  BY NatLessThanWellFounded
<1>2. \A y, z \in Nat : y < z => <<y, z>> \in R
  BY DEF OpToRel
<1> HIDE DEF R
<1>3. PICK n \in S : \A k \in S : ~(<<k, n>> \in R)
  BY <1>1, WFMin
<1>4. ASSUME NEW k \in S PROVE n <= k
  <2>1. n \in Nat /\ k \in Nat
    OBVIOUS
  <2>2. ~(k < n)
    BY <1>2, <1>3, <2>1
  <2> QED
    BY <2>1, <2>2
<1> QED
  BY <1>4

(* A session has a first event.                                            *)
LEMMA FirstOfMeans ==
  ASSUME TracesInv, NEW s \in Sessions
  PROVE  FirstOf(s) \in Nat /\ FirstOf(s) \in DOMAIN events /\ events[FirstOf(s)].session = s
<1>1. PICK m \in Nat : DOMAIN events = 1 .. m
  BY DEF TracesInv
<1>2. PICK S : S = {i \in DOMAIN events : events[i].session = s}
  OBVIOUS
<1>3. S # {} /\ S \subseteq Nat
  BY <1>1, <1>2 DEF Sessions
<1>4. PICK i \in S : \A k \in S : i <= k
  BY <1>3, LeastOf
<1>5. i \in DOMAIN events /\ events[i].session = s
  BY <1>2, <1>4
<1>6. \A j \in 1 .. (i - 1) : events[j].session # s
  <2>1. ASSUME NEW j \in 1 .. (i - 1), events[j].session = s PROVE FALSE
    <3>1. j \in S /\ j < i
      BY <1>1, <1>2, <1>5, <2>1
    <3> QED
      BY <1>4, <3>1
  <2> QED
    BY <2>1
<1>7. FirstOf(s) \in DOMAIN events /\ events[FirstOf(s)].session = s
  BY <1>5, <1>6, Zenon DEF FirstOf
<1> QED
  BY <1>1, <1>7

(* The windows that there are have a first one.                            *)
LEMMA FirstWindow ==
  ASSUME TracesInv, NEW ws \in SUBSET (Sessions \X (1 .. MaxLines)), ws # {}
  PROVE  \E w \in ws : \A v \in ws : Before(w, v)
<1>1. \A w \in ws : w[1] \in Sessions /\ w[2] \in Nat /\ w = <<w[1], w[2]>> /\ FirstOf(w[1]) \in Nat
  <2>1. \A w \in ws : w[1] \in Sessions /\ w[2] \in Nat /\ w = <<w[1], w[2]>>
    BY AgentTracesAssumption
  <2> QED
    BY <2>1, FirstOfMeans
<1>2. PICK S : S = {FirstOf(w[1]) : w \in ws}
  OBVIOUS
<1>3. PICK f \in S : \A k \in S : f <= k
  <2>1. S \subseteq Nat /\ S # {}
    BY <1>1, <1>2
  <2> QED
    BY <2>1, LeastOf
<1>4. PICK R : R = {w[2] : w \in {x \in ws : FirstOf(x[1]) = f}}
  OBVIOUS
<1>5. R # {} /\ R \subseteq Nat
  BY <1>1, <1>2, <1>3, <1>4
<1>6. PICK n \in R : \A k \in R : n <= k
  BY <1>5, LeastOf
<1>7. PICK w \in ws : FirstOf(w[1]) = f /\ w[2] = n
  BY <1>4, <1>6
<1>8. ASSUME NEW v \in ws PROVE Before(w, v)
  <2>1. FirstOf(v[1]) \in S /\ FirstOf(v[1]) \in Nat /\ f \in Nat /\ f <= FirstOf(v[1])
    BY <1>1, <1>2, <1>3
  <2>2. CASE f < FirstOf(v[1])
    BY <1>7, <2>2 DEF Before
  <2>3. CASE f = FirstOf(v[1])
    <3>1. w[1] = v[1]
      BY <1>1, <1>7, <2>3, FirstOfMeans
    <3>2. w[2] <= v[2]
      BY <1>4, <1>6, <1>7, <2>3
    <3> QED
      BY <3>1, <3>2 DEF Before
  <2> QED
    BY <2>1, <2>2, <2>3
<1> QED
  BY <1>8

(* A draft is made from one of the windows.                                *)
LEMMA RepresentativeMeans ==
  ASSUME TracesInv, NEW seq, IterWindows(seq) # {}
  PROVE  \E w \in IterWindows(seq) :
           RepresentativeWindow(seq) = [i \in DOMAIN seq |-> EventAt(w, i)]
<1> DEFINE w == CHOOSE w \in IterWindows(seq) : \A v \in IterWindows(seq) : Before(w, v)
<1>1. RepresentativeWindow(seq) = [i \in DOMAIN seq |-> EventAt(w, i)]
  BY Zenon DEF RepresentativeWindow
<1>2. \E x \in IterWindows(seq) : \A v \in IterWindows(seq) : Before(x, v)
  BY WindowsFinite, FirstWindow
<1>3. w \in IterWindows(seq)
  BY <1>2, Zenon
<1> QED
  BY <1>1, <1>3, Zenon

-----------------------------------------------------------------------------
(* What drafts, scores and backtests make of it.                           *)

(* A session's tool events and names are sequences.                        *)
LEMMA NamesType ==
  ASSUME TracesInv, NEW s
  PROVE  /\ GroupToolEvents(s) \in Seq(ToSet(events))
         /\ \E U : NameSequence(s) \in Seq(U)
<1>1. PICK E : E = ToSet(events) /\ events \in Seq(E)
  BY DEF TracesInv
<1>2. GroupToolEvents(s) \in Seq(E \cap {e \in E : e.session = s})
  BY <1>1, OnlyType, Zenon DEF GroupToolEvents
<1>3. GroupToolEvents(s) \in Seq(E)
  BY <1>2
<1>4. PICK es : es = Only(GroupToolEvents(s), {e \in E : e.tool # ""})
  OBVIOUS
<1>5. PICK V : es \in Seq(V)
  BY <1>3, <1>4, OnlyType, Zenon
<1>6. NameSequence(s) = [i \in DOMAIN es |-> es[i].tool]
  BY <1>1, <1>4, Zenon DEF NameSequence
<1>7. PICK U : U = {e.tool : e \in V}
  OBVIOUS
<1>8. PICK n \in Nat : DOMAIN es = 1 .. n /\ \A i \in 1 .. n : es[i] \in V
  BY <1>5
<1>9. NameSequence(s) \in [1 .. n -> U]
  BY <1>6, <1>7, <1>8
<1>10. NameSequence(s) \in Seq(U)
  BY <1>9
<1> QED
  BY <1>1, <1>3, <1>10, Zenon

(* So is every sequence of names that was seen.                            *)
LEMMA SeenType == ASSUME TracesInv, NEW seq \in SequencesSeen PROVE \E U : seq \in Seq(U)
<1>0. PICK s \in Sessions : \E y \in (1 .. Len(NameSequence(s))) \X (1 .. Len(NameSequence(s))) :
        seq = SubSeq(NameSequence(s), y[1], y[2])
  BY DEF SequencesSeen
<1>1. PICK y \in (1 .. Len(NameSequence(s))) \X (1 .. Len(NameSequence(s))) :
        seq = SubSeq(NameSequence(s), y[1], y[2])
  BY <1>0
<1>2. PICK U : NameSequence(s) \in Seq(U)
  BY NamesType
<1>3. PICK i \in 1 .. Len(NameSequence(s)), j \in 1 .. Len(NameSequence(s)) : i = y[1] /\ j = y[2]
  OBVIOUS
<1>4. SubSeq(NameSequence(s), i, j) \in Seq(U)
  BY <1>2, <1>3, SubSeqProperties
<1> QED
  BY <1>1, <1>3, <1>4, Zenon

(* Unless a model call has a tool's name, names and tool events agree.     *)
LEMMA NamesAgree ==
  ASSUME TracesInv, ModelCallsAreAnonymous, NEW s
  PROVE  NameSequence(s) = CalledNames(s)
<1>1. PICK E : E = ToSet(events)
  OBVIOUS
<1>2. PICK g : g = GroupToolEvents(s) /\ g \in Seq(E)
  BY <1>1, NamesType
<1>3. ASSUME NEW i \in DOMAIN g
      PROVE  g[i] \in {e \in E : e.tool # ""} <=> g[i] \in {e \in E : e.kind = "tool_call"}
  <2>1. g[i] \in E
    BY <1>2
  <2>2. PICK j \in DOMAIN events : g[i] = events[j]
    BY <1>1, <2>1 DEF ToSet
  <2>3. g[i].tool # "" <=> g[i].kind = "tool_call"
    BY <2>2, EventFields DEF ModelCallsAreAnonymous
  <2> QED
    BY <2>1, <2>3
<1>4. Only(g, {e \in E : e.tool # ""}) = Only(g, {e \in E : e.kind = "tool_call"})
  BY <1>3, OnlyAgrees
<1>5. PICK es : es = ToolEvents(s) /\ es = Only(g, {e \in E : e.tool # ""})
  BY <1>1, <1>2, <1>4, Zenon DEF ToolEvents
<1>6. NameSequence(s) = [i \in DOMAIN es |-> es[i].tool]
  BY <1>1, <1>2, <1>5, Zenon DEF NameSequence
<1> QED
  BY <1>5, <1>6, Zenon DEF CalledNames

(* Then support counts the windows that are replayed.                      *)
LEMMA SupportIsReplayed ==
  ASSUME TracesInv, ModelCallsAreAnonymous, NEW seq
  PROVE  FindWindows(seq) = IterWindows(seq)
<1>1. [s \in Sessions |-> NameSequence(s)] = [s \in Sessions |-> CalledNames(s)]
  BY NamesAgree
<1> QED
  BY <1>1, Zenon DEF FindWindows, IterWindows

(* Nine in ten of fewer than ten is all of them.                           *)
LEMMA AllSucceeded ==
  ASSUME TracesInv, NEW seq, AtLeast(SuccessRate(seq), 9, 10), Cardinality(IterWindows(seq)) < 10
  PROVE  \A w \in IterWindows(seq) : Succeeded(w, seq)
<1>1. PICK ws : ws = IterWindows(seq) /\ IsFiniteSet(ws)
  BY WindowsFinite
<1>2. PICK good : good = {w \in ws : Succeeded(w, seq)}
  OBVIOUS
<1>3. PICK c \in Nat, n \in Nat : c = Cardinality(good) /\ n = Cardinality(ws)
  BY <1>1, <1>2, FS_CardinalityType, FS_Subset
<1>4. good \in SUBSET ws
  BY <1>2
<1>5. c <= n /\ (n = c => ws = good)
  BY <1>1, <1>3, <1>4, FS_Subset
<1>6. CASE n = 0
  BY <1>1, <1>3, <1>6, FS_EmptySet
<1>7. CASE n # 0
  <2>1. SuccessRate(seq) = Rate(c, n)
    BY <1>1, <1>2, <1>3, Zenon DEF SuccessRate
  <2>2. Rate(c, n) = <<c, n>>
    BY <1>7 DEF Rate
  <2>3. c * 10 >= 9 * n
    BY <2>1, <2>2 DEF AtLeast
  <2>4. n < 10
    BY <1>1, <1>3
  <2>5. n = c
    BY <1>3, <1>5, <2>3, <2>4
  <2> QED
    BY <1>1, <1>2, <1>5, <2>5
<1> QED
  BY <1>6, <1>7

(* A draft replays the window it was made from.                            *)
LEMMA DraftReplays ==
  ASSUME TracesInv, NEW U, NEW seq \in Seq(U), IterWindows(seq) # {}
  PROVE  PassedInputShape(seq) # {}
<1>1. PICK w \in IterWindows(seq) :
        RepresentativeWindow(seq) = [i \in DOMAIN seq |-> EventAt(w, i)]
  BY RepresentativeMeans
<1>2. PICK r : r = RepresentativeWindow(seq)
  OBVIOUS
<1>3. \A i \in DOMAIN seq : r[i] = EventAt(w, i)
  BY <1>1, <1>2
<1>4. ASSUME NEW i \in DOMAIN seq PROVE InputMapping(seq)[i] \subseteq DOMAIN r[i].args
  BY <1>2 DEF InputMapping
<1>5. \A i \in DOMAIN seq : InputMapping(seq)[i] \subseteq DOMAIN EventAt(w, i).args
  BY <1>3, <1>4
<1> QED
  BY <1>5, Zenon DEF PassedInputShape

(* A mapped input is the output of an earlier step.                        *)
LEMMA MappedWasProduced ==
  ASSUME NEW U, NEW seq \in Seq(U), NEW i \in 2 .. Len(seq), NEW k \in InputMapping(seq)[i]
  PROVE  \E j \in 1 .. (i - 1) : k \in RepresentativeWindow(seq)[j].outs
<1>1. PICK r : r = RepresentativeWindow(seq)
  OBVIOUS
<1>2. i \in DOMAIN seq /\ i # 1
  OBVIOUS
<1>3. k \in UNION {r[j].outs : j \in 1 .. (i - 1)}
  BY <1>1, <1>2 DEF InputMapping
<1> QED
  BY <1>1, <1>3

(* What Recommend calls safe reads only and succeeded nine times in ten.   *)
LEMMA SafeToDraftMeans ==
  ASSUME NEW seq, Recommend(seq) = "safe_to_draft"
  PROVE  (\A i \in DOMAIN seq : VerbOf[seq[i]] = "read") /\ AtLeast(SuccessRate(seq), 9, 10)
<1>1. ~Warned(seq)
  BY DEF Recommend
<1>2. ClassifySafety(seq) = "read_only" /\ AtLeast(SuccessRate(seq), 9, 10)
  BY <1>1 DEF Warned
<1>3. \A i \in DOMAIN seq : VerbOf[seq[i]] = "read"
  BY <1>2 DEF ClassifySafety
<1> QED
  BY <1>2, <1>3

(* The invariant gives the property.                                       *)
LEMMA TracesInvMeans == ASSUME TracesInv PROVE DraftsReplay
<1>1. \A i, j \in DOMAIN events : \A k, l \in SecretKeys :
        k \in DOMAIN events[i].args /\ l \in DOMAIN events[j].args =>
          (events[i].args[k][2] = events[j].args[l][2]) = (jsonl[i].args[k] = jsonl[j].args[l])
  BY SecretsApart
<1>2. ASSUME NEW seq \in SequencesSeen
      PROVE  /\ IterWindows(seq) # {} => PassedInputShape(seq) # {}
             /\ \A i \in 2 .. Len(seq) : \A k \in InputMapping(seq)[i] :
                  \E j \in 1 .. (i - 1) : k \in RepresentativeWindow(seq)[j].outs
  <2>1. PICK U : seq \in Seq(U)
    BY SeenType
  <2> QED
    BY <2>1, DraftReplays, MappedWasProduced
<1>3. ASSUME NEW seq \in SequencesSeen, Recommend(seq) = "safe_to_draft", ModelCallsAreAnonymous
      PROVE  /\ Cardinality(FindWindows(seq)) = Cardinality(IterWindows(seq))
             /\ Cardinality(IterWindows(seq)) < 10 =>
                  ProducedExpectedOutput(seq) = PassedInputShape(seq)
  <2>1. Cardinality(FindWindows(seq)) = Cardinality(IterWindows(seq))
    BY <1>3, SupportIsReplayed, Zenon
  <2>2. ASSUME Cardinality(IterWindows(seq)) < 10
        PROVE  ProducedExpectedOutput(seq) = PassedInputShape(seq)
    <3>1. \A w \in IterWindows(seq) : Succeeded(w, seq)
      BY <1>3, <2>2, SafeToDraftMeans, AllSucceeded, Zenon
    <3>2. PassedInputShape(seq) \subseteq IterWindows(seq)
      BY Zenon DEF PassedInputShape
    <3> QED
      BY <3>1, <3>2, Zenon DEF ProducedExpectedOutput
  <2> QED
    BY <2>1, <2>2
<1> QED
  BY <1>1, <1>2, <1>3, SafeToDraftMeans, Zenon DEF DraftsReplay

(* Whatever an agent logs, and whenever it is loaded: a load keeps which   *)
(* secrets were equal, a draft replays the window it was made from and     *)
(* maps only what was produced before, and a sequence called safe to draft *)
(* reads only and, below ten windows, never failed in a backtest.          *)
THEOREM DraftsAreReplayed == AgentTracesSpec => []DraftsReplay
<1>1. TracesInv => DraftsReplay
  BY TracesInvMeans
<1> QED
  BY <1>1, TracesInvariant, PTL

=============================================================================
