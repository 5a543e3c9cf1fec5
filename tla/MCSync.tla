------------------------------- MODULE MCSync -------------------------------
(* Bounded instances of the mutex layer for TLC. *)
EXTENDS Sync
=============================================================================
