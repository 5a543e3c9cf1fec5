------------------------------ MODULE MCThread ------------------------------
(* Bounded instances of the scheduler for TLC. *)
EXTENDS Thread
=============================================================================
