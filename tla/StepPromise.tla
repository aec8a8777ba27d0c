----------------------------- MODULE StepPromise ------------------------------
(***************************************************************************)
(* What the flow loops rely on when they execute a step: it ends with one  *)
(* record, and the record's outcome is one the step's on_error policy      *)
(* allows.  LinearRun and DagRun take a step's outcome from these sets;    *)
(* StepExec shows that the step pipeline keeps the promise.                *)
(***************************************************************************)
CONSTANTS Sid, OnError

VARIABLES
  step,      \* the step being executed, or "none"
  dry,       \* it is rehearsed: execute_flow(dry_run=True)
  res        \* the outcome of the latest step

vars == <<step, dry, res>>

Allowed(s, d) ==
  {"ok", "failed"} \cup {r \in {"skipped", "fallback"} :
     \/ r = "skipped" /\ (OnError[s] = "skip" \/ d)
     \/ r = "fallback" /\ OnError[s] = "fallback"}

Init == step = "none" /\ dry = FALSE /\ res = "none"

Begin ==
  /\ step = "none" /\ res' = "none"
  /\ step' \in Sid /\ dry' \in BOOLEAN

End ==
  /\ step # "none" /\ step' = "none" /\ dry' = FALSE
  /\ res' \in Allowed(step, dry)

Next == Begin \/ End

Spec == Init /\ [][Next]_vars
=============================================================================
