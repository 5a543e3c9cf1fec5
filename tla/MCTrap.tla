------------------------------- MODULE MCTrap -------------------------------
(* Bounded instance of traps, system calls and user copies for TLC. *)
EXTENDS Usercopy, TLC
CONSTANTS u1, u2, k1, k2
Programs ==
  u1 :> <<"step", "u_memset", "u_exit">>
  @@ u2 :> <<"u_noop", "u_unknown", "u_yield", "u_sleep", "u_exit">>
  @@ k1 :> <<"mask", "wait", "unmask", "remap", "exit">>
  @@ k2 :> <<"sleep", "copy", "exit">>
  @@ Idle :> <<"yield", "loop">>
(* Empty, NULL, across two pages, into and after the devices, to the end of  *)
(* the address space and past it.                                            *)
Args == {<<0, 1>>, <<3, 0>>, <<3, 2>>, <<5, 2>>, <<8, 1>>, <<8, 2>>, <<8, 8>>, <<15, 4>>}
=============================================================================
