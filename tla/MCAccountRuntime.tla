-------------------------- MODULE MCAccountRuntime --------------------------
(* AccountRuntime on a small instance.                                       *)
EXTENDS AccountRuntime
=============================================================================
