------------------------------ MODULE MCTrace -------------------------------
(* Bounded instance of the timer and the trace ring for TLC. *)
EXTENDS Trace
=============================================================================
