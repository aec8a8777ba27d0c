----------------------------- MODULE MCStepExec ------------------------------
(* Instances of StepExec for TLC. *)
EXTENDS StepExec

(* pay writes, needs approval and must not be retried; look reads and is   *)
(* cacheable; note writes and has no dry_run_fn.                           *)
Tools    == {"look", "note", "pay"}
Effects  == [t \in Tools |-> IF t = "look" THEN 1 ELSE 2]

(* ask: look, retried, with a contract, falls back to pay.  buy: pay, may  *)
(* be decided to be look, retried, skipped on error.  put: note alone.     *)
Sids       == {"ask", "buy", "put"}
Primaries  == [s \in Sids |-> CASE s = "ask" -> "look" [] s = "buy" -> "pay" [] OTHER -> "note"]
Choices    == [s \in Sids |-> IF s = "buy" THEN {"look", "pay"} ELSE {}]
Policies   == [s \in Sids |-> CASE s = "ask" -> "fallback" [] s = "buy" -> "skip" [] OTHER -> "fail"]
Fallbacks  == [s \in Sids |-> IF s = "buy" THEN "look" ELSE "pay"]
RetryMax   == [s \in Sids |-> IF s = "put" THEN -1 ELSE 1]
Contracts  == [s \in Sids |-> IF s = "ask" THEN {"v"} ELSE {"v", "w"}]

Config(strict, ceiling, approves, guards, decides) ==
  [strict |-> strict, ceiling |-> ceiling, approves |-> approves, guards |-> guards,
   caches |-> TRUE, decides |-> decides]

(* A guarded executor that cannot approve, one that can, and strict ones   *)
(* below and above what pay needs.                                         *)
Executors == {Config(FALSE, 2, FALSE, TRUE, "error"), Config(FALSE, 2, TRUE, FALSE, "default"),
              Config(TRUE, 1, TRUE, FALSE, "untimed"), Config(TRUE, 2, TRUE, FALSE, "untimed")}
=============================================================================
