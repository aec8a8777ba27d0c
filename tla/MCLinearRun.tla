---------------------------- MODULE MCLinearRun ------------------------------
(* Instances of LinearRun for TLC. *)
EXTENDS LinearRun

(* Two steps: step 1 declares an output_mapping and can be skipped, step    *)
(* 2 has a fallback that produces nothing.                                 *)
TwoIn       == <<{}, {"a"}>>
TwoOut      == <<{"a"}, {"b"}>>
TwoFallback == <<{}, {}>>
TwoMapped   == <<TRUE, FALSE>>
TwoOnError  == <<"skip", "fallback">>

(* Two steps that write the same key.                                      *)
ClashOut     == <<{"a"}, {"a"}>>
ClashMapped  == <<FALSE, FALSE>>
ClashOnError == <<"fail", "fail">>
NoKeys       == <<{}, {}>>
=============================================================================
