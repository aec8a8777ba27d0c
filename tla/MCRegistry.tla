------------------------------ MODULE MCRegistry ------------------------------
(* Instances of Registry for TLC. *)
EXTENDS Registry

(* 1.10, 1.10.0 and 1.9 in the order of their names: the first two are     *)
(* equal, and the last name is the lowest version.                         *)
Ranks == <<2, 2, 1>>

(* One version. *)
OneRank == <<1>>
=============================================================================
