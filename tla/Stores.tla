------------------------------- MODULE Stores -------------------------------
(***************************************************************************)
(* The file-backed stores of one directory: the trace log, rewritten whole *)
(* on every save and delete, and the step cache and checkpoint files, one  *)
(* file per key.  Writes go to a temporary file that replaces the target.  *)
(* No lock spans a read and the write that follows, so processes that      *)
(* share the directory interleave between them; each may crash anywhere.   *)
(***************************************************************************)
EXTENDS Integers, Sequences, FiniteSets, SequencesExt

CONSTANTS
  Writers,     \* processes
  TraceIds,
  StoreKeys,   \* cache or checkpoint keys, as <<tool name, hashes>>
  SafeName,    \* the file name a tool name is sanitised to
  LogCap,      \* max_traces
  MaxStoreOps

(* FileTraceStore refuses a cap below 1; a key is two values.              *)
ASSUME StoresAssumption ==
  /\ LogCap \in Nat \ {0} /\ MaxStoreOps \in Nat
  /\ \A k \in StoreKeys : k = <<k[1], k[2]>>

Gone == "absent"

VARIABLES
  log,       \* the lines of traces.jsonl: [id, rev]
  files,     \* target file name -> [key, rev] or Gone; a torn file is never seen
  orphans,   \* temporary files nobody will remove
  writer,    \* each process: operation, argument, what it read
  rev,       \* revisions saved so far
  ops,
  intended,  \* the log if every operation had been atomic
  overlapped \* two operations on the log have overlapped

storeVars == <<log, files, orphans, writer, rev, ops, intended, overlapped>>

AtRest == [op |-> "none", id |-> Gone, rev |-> 0, buf |-> <<>>, pc |-> "start"]
(* Variant: the name without its digest.                                   *)
UndigestedPath(k) == <<SafeName[k[1]], k[2]>>
(* _file_path: the sanitised name is followed by a digest of the original, *)
(* then by the schema and input hashes.                                    *)
FilePath(k) == <<SafeName[k[1]], k[1], k[2]>>
FilePaths == {FilePath(k) : k \in StoreKeys}

StoresInit ==
  /\ log = <<>> /\ intended = <<>> /\ overlapped = FALSE
  /\ files = [f \in FilePaths |-> Gone]
  /\ orphans = 0
  /\ writer = [w \in Writers |-> AtRest]
  /\ rev = 0 /\ ops = 0

------------------------------------------------------------------------------
(* FileTraceStore.                                                         *)

Without(ls, id) ==
  LET kept[i \in 0..Len(ls)] ==
        IF i = 0 THEN <<>>
        ELSE IF ls[i].id = id THEN kept[i - 1] ELSE Append(kept[i - 1], ls[i])
  IN  kept[Len(ls)]
(* The result replaces the trace's older line, at the end; the oldest      *)
(* lines beyond the cap are dropped.                                       *)
Saved(ls, id, r) ==
  LET all == Append(Without(ls, id), [id |-> id, rev |-> r])
  IN  IF Len(all) > LogCap THEN SubSeq(all, Len(all) - LogCap + 1, Len(all)) ELSE all

Busy(w) == writer[w].op \in {"save", "delete"}

(* _read_all of a save or a delete.                                        *)
BeginSave(w, id) ==
  /\ writer[w] = AtRest /\ ops < MaxStoreOps
  /\ ops' = ops + 1 /\ rev' = rev + 1
  /\ writer' = [writer EXCEPT ![w] = [op |-> "save", id |-> id, rev |-> rev + 1,
                                      buf |-> Saved(log, id, rev + 1), pc |-> "read"]]
  /\ overlapped' = (overlapped \/ \E v \in Writers : Busy(v))
  /\ UNCHANGED <<log, files, orphans, intended>>

BeginDelete(w, id) ==
  /\ writer[w] = AtRest /\ ops < MaxStoreOps
  /\ ops' = ops + 1
  /\ writer' = [writer EXCEPT ![w] = [op |-> "delete", id |-> id, rev |-> 0,
                                      buf |-> Without(log, id), pc |-> "read"]]
  /\ overlapped' = (overlapped \/ \E v \in Writers : Busy(v))
  /\ UNCHANGED <<log, files, orphans, rev, intended>>

(* _write_all: the temporary file, then os.replace.  An error in between   *)
(* removes the temporary file and leaves the log alone.                    *)
WriteTemp(w) ==
  /\ writer[w].op # "none" /\ writer[w].pc = "read"
  /\ writer' = [writer EXCEPT ![w].pc = "temp"]
  /\ UNCHANGED <<log, files, orphans, rev, ops, intended, overlapped>>

ReplaceLog(w) ==
  /\ Busy(w) /\ writer[w].pc = "temp"
  /\ log' = writer[w].buf
  /\ intended' = IF writer[w].op = "save" THEN Saved(intended, writer[w].id, writer[w].rev)
                 ELSE Without(intended, writer[w].id)
  /\ writer' = [writer EXCEPT ![w] = AtRest]
  /\ UNCHANGED <<files, orphans, rev, ops, overlapped>>

WriteFails(w) ==
  /\ writer[w].op # "none" /\ writer[w].pc = "temp"
  /\ writer' = [writer EXCEPT ![w] = AtRest]
  /\ UNCHANGED <<log, files, orphans, rev, ops, intended, overlapped>>

------------------------------------------------------------------------------
(* FileStepCache and FileCheckpointer: set / save, get / load, and delete. *)

BeginSet(w, k) ==
  /\ writer[w] = AtRest /\ ops < MaxStoreOps
  /\ ops' = ops + 1 /\ rev' = rev + 1
  /\ writer' = [writer EXCEPT ![w] = [op |-> "set", id |-> k, rev |-> rev + 1, buf |-> <<>>,
                                      pc |-> "read"]]
  /\ UNCHANGED <<log, files, orphans, intended, overlapped>>

ReplaceFile(w) ==
  /\ writer[w].op = "set" /\ writer[w].pc = "temp"
  /\ files' = [files EXCEPT ![FilePath(writer[w].id)] = <<writer[w].id, writer[w].rev>>]
  /\ writer' = [writer EXCEPT ![w] = AtRest]
  /\ UNCHANGED <<log, orphans, rev, ops, intended, overlapped>>

Get(k) == files[FilePath(k)]

DeleteFile(w, k) ==
  /\ writer[w] = AtRest /\ ops < MaxStoreOps
  /\ ops' = ops + 1
  /\ files' = [files EXCEPT ![FilePath(k)] = Gone]
  /\ UNCHANGED <<log, orphans, writer, rev, intended, overlapped>>

(* clear lists the directory and unlinks what it listed, one by one: a     *)
(* file another process removed meanwhile raises.                          *)
BeginClear(w) ==
  /\ writer[w] = AtRest /\ ops < MaxStoreOps
  /\ ops' = ops + 1
  /\ writer' = [writer EXCEPT ![w] =
       [AtRest EXCEPT !.op = "clear", !.pc = "unlink",
                      !.buf = SetToSeq({f \in FilePaths : files[f] # Gone})]]
  /\ UNCHANGED <<log, files, orphans, rev, intended, overlapped>>

Unlink(w) ==
  /\ writer[w].op = "clear"
  /\ IF writer[w].buf = <<>> \/ files[Head(writer[w].buf)] = Gone
     THEN /\ writer' = [writer EXCEPT ![w] = AtRest]
          /\ UNCHANGED files
     ELSE /\ files' = [files EXCEPT ![Head(writer[w].buf)] = Gone]
          /\ writer' = [writer EXCEPT ![w].buf = Tail(@)]
  /\ UNCHANGED <<log, orphans, rev, ops, intended, overlapped>>

(* The process dies; its temporary file stays.                             *)
StoreCrash(w) ==
  /\ writer[w].op # "none"
  /\ orphans' = IF writer[w].pc = "temp" THEN orphans + 1 ELSE orphans
  /\ writer' = [writer EXCEPT ![w] = AtRest]
  /\ UNCHANGED <<log, files, rev, ops, intended, overlapped>>

StoresNext ==
  \/ \E w \in Writers, id \in TraceIds : BeginSave(w, id) \/ BeginDelete(w, id)
  \/ \E w \in Writers, k \in StoreKeys : BeginSet(w, k) \/ DeleteFile(w, k)
  \/ \E w \in Writers : \/ WriteTemp(w) \/ ReplaceLog(w) \/ WriteFails(w) \/ ReplaceFile(w)
                        \/ BeginClear(w) \/ Unlink(w) \/ StoreCrash(w)

StoresSpec == StoresInit /\ [][StoresNext]_storeVars

------------------------------------------------------------------------------
(* However processes interleave and wherever they die: the log holds each  *)
(* trace once, newest last and within the cap; while no two operations     *)
(* overlapped it is what atomic operations would have left; and a cache or *)
(* checkpoint key never reads what was stored under another, even when     *)
(* their tool names sanitise to one file name.                             *)
StoresAreConsistent ==
  /\ \A i, j \in DOMAIN log : i < j => log[i].id # log[j].id /\ log[i].rev < log[j].rev
  /\ Len(log) <= LogCap
  /\ ~overlapped => log = intended
  /\ \A k \in StoreKeys : Get(k) # Gone => Get(k)[1] = k
=============================================================================
