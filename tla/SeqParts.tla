------------------------------ MODULE SeqParts ------------------------------
(***************************************************************************)
(* Sequences put end to end, and the part of a sequence that lies in a     *)
(* set, as recursive functions: the proofs unfold them step by step.       *)
(***************************************************************************)
EXTENDS Integers, Sequences

Concat(ss) ==
  LET all[n \in 0 .. Len(ss)] == IF n = 0 THEN <<>> ELSE all[n - 1] \o ss[n]
  IN  all[Len(ss)]

Only(s, S) == Concat([i \in DOMAIN s |-> IF s[i] \in S THEN <<s[i]>> ELSE <<>>])
=============================================================================
