---------------------------- MODULE MCComposition ----------------------------
(* Instances of Composition for TLC.                                       *)
EXTENDS Composition

Step(f, decides, effect) == [sub |-> f, decides |-> decides, effect |-> effect]
SubFlow(f) == Step(f, FALSE, FALSE)
Decision   == Step(NoFlow, TRUE, FALSE)
Write      == Step(NoFlow, FALSE, TRUE)
Read       == Step(NoFlow, FALSE, FALSE)

(* One decision in the root flow, behind a sub-flow, and none elsewhere.   *)
OneDecision == [r |-> {<<SubFlow("m"), Decision>>}, m |-> {<<Read>>}]
=============================================================================
