------------------------------- MODULE Registry -------------------------------
(***************************************************************************)
(* FlowRegistry over a RegistryStore: the versions of one flow (flows of   *)
(* different names share nothing), the latest-version pointer, the         *)
(* directory scans of load_from_directory and of the poller thread that    *)
(* watch starts, and the executor's schema-drift operations.               *)
(*                                                                         *)
(* The operator calls the registry from one thread while the poller scans  *)
(* in another and an editor writes the files.  A call takes its copy of a  *)
(* flow, saves it, and moves the pointer in separate steps.                *)
(***************************************************************************)
EXTENDS Integers

CONSTANTS
  V,           \* versions of the flow, numbered in the order of list_keys
  Rank,        \* PEP 440 order of the versions; equal spellings share a rank
  Own,         \* versions the operator registers; files declare the others
  F,           \* flow files, numbered in the order of _iter_flow_files
  Hash,        \* schema hashes of the flows' tool
  Reverts,     \* whether an editor may put an earlier content back
  Serial,      \* whether the operator keeps its calls out of the scans
  MaxEdits, MaxStarts, MaxCalls,
  MaxWork      \* edits and calls together

ASSUME VersionAssumption ==
  /\ V \in Nat \ {0} /\ F \in Nat /\ MaxEdits \in Nat /\ MaxStarts \in Nat
  /\ MaxCalls \in Nat /\ MaxWork \in Nat
  /\ Rank \in [1..V -> Nat]
  /\ Own \in SUBSET (1..V)
  /\ Reverts \in BOOLEAN /\ Serial \in BOOLEAN

Version == 1..V
File == 1..F
Status == {"active", "needs_review", "disabled"}
NoHash == "no_hash"
NoFlow == [body |-> -1, status |-> "active", snap |-> NoHash]
Flows == [body : 0..MaxEdits, status : Status, snap : Hash \cup {NoHash}]

(* A file's bytes.  Only the digest of the bytes is compared, and SHA-256  *)
(* is taken to be free of collisions.  A malformed file raises             *)
(* FlowSerializationError; an invalid one parses and is refused otherwise  *)
(* (a version that is not PEP 440, a cyclic DAG).                          *)
Absent == [kind |-> "absent", v |-> 0, body |-> 0]
Malformed == [kind |-> "malformed", v |-> 0, body |-> 0]
Invalid == [kind |-> "invalid", v |-> 0, body |-> 0]
Texts == {Absent, Malformed, Invalid}
           \cup [kind : {"flow"}, v : Version \ Own, body : 1..MaxEdits]

VARIABLES
  store,   \* the RegistryStore: version -> flow
  latest,  \* _latest; 0 when there is none
  tool,    \* schema hash of the tool registered with the executor
  dir,     \* the watched directory
  edits,   \* edits of the directory so far
  starts,  \* scans, pollers and processes started so far
  calls,   \* calls of the operator so far
  known,   \* _dir_hashes of the directory
  scan,    \* the scan in progress and the poller's state
  call     \* the operator's call in progress

vars == <<store, latest, tool, dir, edits, starts, calls, known, scan, call>>

Nothing == [v \in Version |-> Absent]
NoScan == [pc |-> "off", watch |-> FALSE, stop |-> FALSE, todo |-> {},
           raw |-> Absent, cur |-> Nothing, new |-> Absent, seen |-> 0]
NoCall == [pc |-> "none", v |-> 0, copy |-> NoFlow, seen |-> 0,
           todo |-> {}, hash |-> NoHash]

Scanning == scan.pc \in {"raw", "load", "save", "touch"}
Calling == call.pc # "none"

(* The operator's thread is free to make a call.                           *)
Free == ~Calling /\ ~(Scanning /\ (Serial \/ ~scan.watch))

(* It makes one.                                                           *)
Begin == Free /\ calls < MaxCalls /\ calls + edits < MaxWork /\ calls' = calls + 1

Stored == {v \in Version : store[v] # NoFlow}

(* get_flow finds the version; otherwise it raises FlowNotFoundError.      *)
GetFlow(v) == v \in Stored

ScanStates ==
  [pc : {"off", "wait", "raw", "load", "save", "touch", "dead"},
   watch : BOOLEAN, stop : BOOLEAN, todo : SUBSET File, raw : Texts,
   cur : [Version -> Texts], new : Texts, seen : 0..V]
CallStates ==
  [pc : {"none", "save", "touch", "drift"}, v : 0..V, copy : Flows \cup {NoFlow},
   seen : 0..V, todo : SUBSET Version, hash : Hash \cup {NoHash}]

(* The type invariant; call.copy is a whole flow, so no half-built flow    *)
(* ever reaches the store.                                                 *)
TypeOK ==
  /\ store \in [Version -> Flows \cup {NoFlow}]
  /\ latest \in 0..V
  /\ tool \in Hash \cup {NoHash}
  /\ dir \in [File -> Texts]
  /\ edits \in 0..MaxEdits /\ starts \in 0..MaxStarts
  /\ known \in [Version -> Texts]
  /\ scan \in ScanStates /\ call \in CallStates
  /\ calls \in 0..MaxCalls

Init ==
  /\ store = [v \in Version |-> NoFlow] /\ latest = 0
  /\ tool = NoHash
  /\ dir = [f \in File |-> Absent] /\ edits = 0 /\ starts = 0 /\ calls = 0
  /\ known = Nothing
  /\ scan = NoScan /\ call = NoCall

-----------------------------------------------------------------------------
(* The latest pointer                                                      *)

(* Variant: any registration moves the pointer.                            *)
TouchAlways(seen, v) == v

(* _touch_latest, with the pointer that was read before.                   *)
TouchLatest(seen, v) ==
  IF seen = 0 THEN v ELSE IF Rank[v] >= Rank[seen] THEN v ELSE seen

(* _touch_latest writes only when it moves the pointer.                    *)
Pointer(seen, v) == IF TouchLatest(seen, v) = v THEN v ELSE latest

(* Variant: the last key of the listing wins.                              *)
RebuiltByName == IF Stored = {} THEN 0 ELSE CHOOSE v \in Stored : \A w \in Stored : w <= v

(* A new registry touches every key of its store in list_keys order, so    *)
(* among equal versions the last one wins.                                 *)
Rebuilt ==
  IF Stored = {} THEN 0
  ELSE CHOOSE v \in Stored : \A w \in Stored :
         Rank[w] < Rank[v] \/ (Rank[w] = Rank[v] /\ w <= v)

-----------------------------------------------------------------------------
(* The operator's calls                                                    *)

(* register_flow saves, then moves the pointer.  An existing version is    *)
(* refused without overwrite, and the call changes nothing.                *)
RegisterFlow(v, h, overwrite) ==
  /\ Begin /\ v \in Own
  /\ v \in Stored => overwrite
  /\ store' = [store EXCEPT ![v] = [body |-> 0, status |-> "active", snap |-> h]]
  /\ call' = [NoCall EXCEPT !.pc = "touch", !.v = v, !.seen = latest]
  /\ UNCHANGED <<latest, tool, dir, edits, starts, known, scan>>

(* update_flow_state and set_flow_status: copy the flow with a new status. *)
UpdateFlowState(v, status) ==
  /\ Begin /\ GetFlow(v)
  /\ call' = [NoCall EXCEPT !.pc = "save", !.v = v,
                            !.copy = [store[v] EXCEPT !.status = status]]
  /\ UNCHANGED <<store, latest, tool, dir, edits, starts, known, scan>>

(* accept_drift: snapshot the registered tool again and reactivate.        *)
AcceptDrift(v) ==
  /\ Begin /\ GetFlow(v)
  /\ call' = [NoCall EXCEPT !.pc = "save", !.v = v,
                !.copy = [store[v] EXCEPT !.status = "active", !.snap = tool]]
  /\ UNCHANGED <<store, latest, tool, dir, edits, starts, known, scan>>

(* Variant: only the latest version is reviewed.                           *)
AffectedLatest(h) == {v \in Stored : store[v].snap \notin {NoHash, h} /\ v = latest}

(* _handle_schema_drift: the versions whose snapshot names another schema. *)
Affected(h) == {v \in Stored : store[v].snap \notin {NoHash, h}}

(* register_tool.  Only a tool that replaces one with another schema       *)
(* raises drift.                                                           *)
RegisterTool(h) ==
  /\ Begin
  /\ call' = [NoCall EXCEPT !.pc = "drift", !.hash = h,
                !.todo = IF tool \in {NoHash, h} THEN {} ELSE Affected(h)]
  /\ UNCHANGED <<store, latest, tool, dir, edits, starts, known, scan>>

(* Each affected version is copied as NEEDS_REVIEW in turn.                *)
MarkNext ==
  /\ call.pc = "drift" /\ call.todo # {}
  /\ \E v \in call.todo :
       /\ \A w \in call.todo : v <= w
       /\ GetFlow(v)
       /\ call' = [call EXCEPT !.pc = "save", !.v = v,
                     !.copy = [store[v] EXCEPT !.status = "needs_review"],
                     !.todo = @ \ {v}]
  /\ UNCHANGED <<store, latest, tool, dir, edits, starts, calls, known, scan>>

MarkDone ==
  /\ call.pc = "drift" /\ call.todo = {}
  /\ tool' = call.hash
  /\ call' = NoCall
  /\ UNCHANGED <<store, latest, dir, edits, starts, calls, known, scan>>

(* store.save_flow of the copy; a FileStore replaces the file atomically.  *)
CallSave ==
  /\ call.pc = "save"
  /\ store' = [store EXCEPT ![call.v] = call.copy]
  /\ call' = [call EXCEPT !.pc = "touch", !.seen = latest]
  /\ UNCHANGED <<latest, tool, dir, edits, starts, calls, known, scan>>

CallTouch ==
  /\ call.pc = "touch"
  /\ latest' = Pointer(call.seen, call.v)
  /\ call' = IF call.hash = NoHash THEN NoCall
             ELSE [call EXCEPT !.pc = "drift", !.v = 0, !.copy = NoFlow, !.seen = 0]
  /\ UNCHANGED <<store, tool, dir, edits, starts, calls, known, scan>>

(* store.delete_flow; the registry's pointer does not follow.              *)
DeleteFlow(v) ==
  /\ Begin /\ v \in Stored \cap Own
  /\ store' = [store EXCEPT ![v] = NoFlow]
  /\ UNCHANGED <<latest, tool, dir, edits, starts, known, scan, call>>

(* The process ends at any point and another builds a registry on the same *)
(* FileStore.                                                              *)
Restart ==
  /\ starts < MaxStarts /\ starts' = starts + 1
  /\ latest' = Rebuilt
  /\ tool' = NoHash /\ known' = Nothing
  /\ scan' = NoScan /\ call' = NoCall
  /\ UNCHANGED <<store, dir, edits, calls>>

-----------------------------------------------------------------------------
(* The directory and its scans                                             *)

Edit(f) ==
  /\ edits < MaxEdits /\ calls + edits < MaxWork /\ edits' = edits + 1
  /\ \E t \in Texts \ {dir[f]} :
       /\ t.kind = "flow" => t.body = edits' \/ (Reverts /\ t.body <= edits)
       /\ t.kind = "absent" => dir[f].kind # "absent"
       /\ dir' = [dir EXCEPT ![f] = t]
  /\ UNCHANGED <<store, latest, tool, starts, calls, known, scan, call>>

(* _iter_flow_files: the flow files there are when a scan begins, in the   *)
(* order of their numbers.                                                 *)
FlowFiles == {f \in File : dir[f].kind # "absent"}
IsNext(f) == f \in scan.todo /\ \A g \in scan.todo : f <= g

(* load_from_directory registers every file.                               *)
LoadFromDirectory ==
  /\ scan.pc \in {"off", "dead"} /\ Free
  /\ starts < MaxStarts /\ starts' = starts + 1
  /\ scan' = [NoScan EXCEPT !.pc = "raw", !.todo = FlowFiles]
  /\ UNCHANGED <<store, latest, tool, dir, edits, calls, known, call>>

Watch ==
  /\ scan.pc \in {"off", "dead"} /\ Free
  /\ starts < MaxStarts /\ starts' = starts + 1
  /\ scan' = [NoScan EXCEPT !.pc = "wait", !.watch = TRUE]
  /\ UNCHANGED <<store, latest, tool, dir, edits, calls, known, call>>

(* WatchHandle.stop; the join gives up after its timeout.                  *)
StopWatch ==
  /\ scan.watch /\ ~scan.stop /\ scan.pc # "dead" /\ Free
  /\ scan' = [scan EXCEPT !.stop = TRUE]
  /\ UNCHANGED <<store, latest, tool, dir, edits, starts, calls, known, call>>

PollerStops ==
  /\ scan.pc = "wait" /\ scan.stop
  /\ scan' = NoScan
  /\ UNCHANGED <<store, latest, tool, dir, edits, starts, calls, known, call>>

(* A poll: reload_from_directory begins.                                   *)
BeginScan ==
  /\ scan.pc = "wait" /\ ~scan.stop /\ (Serial => ~Calling)
  /\ scan' = [scan EXCEPT !.pc = "raw", !.todo = FlowFiles, !.cur = Nothing]
  /\ UNCHANGED <<store, latest, tool, dir, edits, starts, calls, known, call>>

(* FlowSerializationError: the poller tries again at its next tick, a load *)
(* raises.  Either way _dir_hashes stays as it was.                        *)
Aborted == IF scan.watch THEN [NoScan EXCEPT !.pc = "wait", !.watch = TRUE, !.stop = scan.stop]
           ELSE NoScan

(* Any other exception ends the poller's thread.                           *)
Died == IF scan.watch THEN [NoScan EXCEPT !.pc = "dead"] ELSE NoScan

(* path.read_bytes                                                         *)
ReadBytes ==
  /\ scan.pc = "raw"
  /\ \E f \in File : IsNext(f) /\
       scan' = IF dir[f] = Absent THEN Died ELSE [scan EXCEPT !.pc = "load", !.raw = dir[f]]
  /\ UNCHANGED <<store, latest, tool, dir, edits, starts, calls, known, call>>

(* Variant: a file of a known version is taken to be unchanged.            *)
NewVersion(v) == ~scan.watch \/ known[v] = Absent

(* A load registers every file, a reload the new and the changed ones.     *)
Changed(v) == ~scan.watch \/ known[v] # scan.raw

(* Two files of one scan may not declare the same version.                 *)
Duplicate(v) == scan.cur[v] # Absent

(* _load_flow_file reads the file again; the digest is that of the first   *)
(* read.                                                                   *)
LoadFile ==
  /\ scan.pc = "load"
  /\ \E f \in File : IsNext(f) /\ LET t == dir[f] IN
       scan' = CASE t.kind = "malformed" -> Aborted
                 [] t.kind \in {"absent", "invalid"} -> Died
                 [] OTHER ->
                      IF Duplicate(t.v) THEN Aborted
                      ELSE [scan EXCEPT !.cur[t.v] = scan.raw, !.raw = Absent,
                              !.pc = IF Changed(t.v) THEN "save" ELSE "raw",
                              !.new = IF Changed(t.v) THEN t ELSE Absent,
                              !.todo = @ \ {f}]
  /\ UNCHANGED <<store, latest, tool, dir, edits, starts, calls, known, call>>

(* register_flow(overwrite=True) of a file's flow.                         *)
ScanSave ==
  /\ scan.pc = "save"
  /\ store' = [store EXCEPT ![scan.new.v] =
                 [body |-> scan.new.body, status |-> "active", snap |-> NoHash]]
  /\ scan' = [scan EXCEPT !.pc = "touch", !.seen = latest]
  /\ UNCHANGED <<latest, tool, dir, edits, starts, calls, known, call>>

ScanTouch ==
  /\ scan.pc = "touch"
  /\ latest' = Pointer(scan.seen, scan.new.v)
  /\ scan' = [scan EXCEPT !.pc = "raw", !.new = Absent, !.seen = 0]
  /\ UNCHANGED <<store, tool, dir, edits, starts, calls, known, call>>

(* Only a pass that reached its end replaces _dir_hashes.                  *)
EndScan ==
  /\ scan.pc = "raw" /\ scan.todo = {}
  /\ known' = scan.cur
  /\ scan' = Aborted
  /\ UNCHANGED <<store, latest, tool, dir, edits, starts, calls, call>>

-----------------------------------------------------------------------------
CallNext == CallSave \/ CallTouch \/ MarkNext \/ MarkDone
ScanNext == BeginScan \/ ReadBytes \/ LoadFile \/ ScanSave \/ ScanTouch \/ EndScan

Next ==
  \/ \E v \in Version, h \in Hash \cup {NoHash}, o \in BOOLEAN : RegisterFlow(v, h, o)
  \/ \E v \in Version, s \in Status : UpdateFlowState(v, s)
  \/ \E v \in Version : AcceptDrift(v) \/ DeleteFlow(v)
  \/ \E h \in Hash : RegisterTool(h)
  \/ CallNext
  \/ Restart
  \/ \E f \in File : Edit(f)
  \/ LoadFromDirectory \/ Watch \/ StopWatch \/ PollerStops
  \/ ScanNext

(* A call that began runs to its end, and the poller's thread keeps its    *)
(* turns: it waits poll_interval_seconds and scans again.                  *)
Fairness == WF_vars(CallNext) /\ WF_vars(ScanNext)

Spec == Init /\ [][Next]_vars
FairSpec == Spec /\ Fairness

-----------------------------------------------------------------------------
(* get_flow without a version answers with a highest version: no stored    *)
(* version outranks the pointer between registrations, whatever was        *)
(* registered, reloaded, updated, deleted or interrupted by a restart      *)
(* before.  It holds when Serial does: two overlapping _touch_latest calls *)
(* may lose the higher one.                                                *)
LatestIsHighest ==
  ~Calling /\ scan.pc # "touch" =>
    \A v \in Stored : latest # 0 /\ Rank[v] <= Rank[latest]

(* A new process that opens the store serves a version of the same rank as *)
(* the one before it did, though it rebuilds the pointer in the order of   *)
(* the keys and not in the order of the registrations.                     *)
RestartKeepsLatest ==
  [][ starts' # starts /\ ~Calling /\ scan.pc # "touch" /\ latest \in Stored
        => latest' # 0 /\ Rank[latest'] = Rank[latest] ]_vars

(* Replacing a tool by one with another schema leaves no version active    *)
(* whose snapshot names the old one, over all the versions register_tool   *)
(* has to visit one by one.                                                *)
NoSilentDrift ==
  [][ tool' # tool /\ tool # NoHash /\ tool' # NoHash =>
        \A v \in Stored : store[v].snap \in {NoHash, tool'}
                            \/ store[v].status # "active" ]_vars

(* Every version a file declares is served with the file's content.        *)
Served == \A f \in File : dir[f].kind = "flow" =>
            store[dir[f].v].body = dir[f].body

(* Two files that declare one version.                                     *)
Clash == \E f, g \in File : f # g /\ dir[f].kind = "flow" /\ dir[g].kind = "flow"
                               /\ dir[f].v = dir[g].v

(* A directory no pass can get through.                                    *)
Broken == \E f \in File : dir[f].kind \in {"malformed", "invalid"}

(* watch: once the editor stops, the registry comes to serve what the      *)
(* files say and keeps serving it, however many passes were aborted half   *)
(* way through by a malformed file and however the edits fell between the  *)
(* two reads of a file.  No two files may ever claim one version: the pass *)
(* that refuses the second has already registered the first, and forgets.  *)
Converges ==
  []~Clash => <>[](scan.pc \in {"off", "dead"} \/ scan.stop \/ Broken \/ Served)
=============================================================================
