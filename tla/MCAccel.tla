------------------------------ MODULE MCAccel ------------------------------
(* Bounded instances of the accelerator for TLC. *)
EXTENDS Accel
=============================================================================
