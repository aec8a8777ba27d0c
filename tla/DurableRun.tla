----------------------------- MODULE DurableRun ------------------------------
(***************************************************************************)
(* What crash-resume promises of a linear run, without the machinery: the  *)
(* steps 1 .. N are attempted in order, possibly several times each, until *)
(* each one is committed once; a committed step is never attempted again,  *)
(* and no step is committed that was not attempted.                        *)
(***************************************************************************)
EXTENDS Naturals

CONSTANT N

VARIABLES
  frontier,  \* how many steps are committed
  attempts   \* attempts[s]: how often step s was attempted

vars == <<frontier, attempts>>

Init == frontier = 0 /\ attempts = [s \in 1 .. N |-> 0]

Attempt ==
  /\ frontier < N
  /\ attempts' = [attempts EXCEPT ![frontier + 1] = @ + 1]
  /\ UNCHANGED frontier

Commit ==
  /\ frontier < N /\ attempts[frontier + 1] > 0
  /\ frontier' = frontier + 1
  /\ UNCHANGED attempts

Next == Attempt \/ Commit

Spec == Init /\ [][Next]_vars
=============================================================================
