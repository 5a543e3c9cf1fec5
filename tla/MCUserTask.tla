----------------------------- MODULE MCUserTask -----------------------------
(* Bounded instances of the user tasks for TLC. *)
EXTENDS UserTask
=============================================================================
