---------------------------- MODULE MCAsyncStream -----------------------------
(* Instances of AsyncStream for TLC. *)
EXTENDS AsyncStream

(* Three siblings, two of which write one key and one of which is composed, *)
(* and a last step that may be a capability step.                          *)
Levels == <<1, 4, 5>>
Writes == <<{"x"}, {"y"}, {"x"}, {"y"}>>
=============================================================================
