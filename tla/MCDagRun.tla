------------------------------ MODULE MCDagRun -------------------------------
(* Instances of DagRun for TLC. *)
EXTENDS DagRun

(* Five steps in three levels.  The roots 1 and 2 both route among 3 and   *)
(* 4, 1 with default_next; 3 and 4 write the same key; the capability step *)
(* 5 joins them and reads it.                                              *)
MeshFirst    == <<1, 3, 5, 6>>
MeshDeps     == <<{}, {}, {1, 2}, {1, 2}, {3, 4}>>
MeshTargets  == <<{3, 4}, {3, 4}, {}, {}, {}>>
MeshDefault  == <<TRUE, FALSE, FALSE, FALSE, FALSE>>
MeshIn       == <<{}, {}, {"x"}, {}, {"y"}>>
MeshOut      == <<{"x"}, {}, {"y"}, {"y"}, {"w"}>>
MeshFallback == <<{}, {}, {"z"}, {}, {}>>
MeshMapped   == <<TRUE, FALSE, FALSE, FALSE, FALSE>>
MeshOnError  == <<"skip", "fail", "fallback", "fail", "skip">>

(* Five steps in three levels.  Step 1 routes to 2 or 3, or to both when   *)
(* no predicate holds; 2 and 3 write the same key; 4 joins them; 5 hangs   *)
(* on 3 alone and reads what it wrote.                                     *)
JoinFirst    == <<1, 2, 4, 6>>
JoinDeps     == <<{}, {1}, {1}, {2, 3}, {3}>>
JoinTargets  == <<{2, 3}, {}, {}, {}, {}>>
JoinDefault  == <<FALSE, FALSE, FALSE, FALSE, FALSE>>
JoinIn       == <<{}, {"x"}, {}, {"y"}, {}>>
JoinOut      == <<{"x"}, {"y"}, {"y"}, {"x"}, {"z"}>>
JoinFallback == <<{}, {}, {"z"}, {}, {}>>
JoinMapped   == <<FALSE, FALSE, FALSE, FALSE, FALSE>>
JoinOnError  == <<"fail", "fail", "fallback", "skip", "fail">>
=============================================================================
