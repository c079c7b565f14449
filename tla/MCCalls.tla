-------------------------------- MODULE MCCalls --------------------------------
(* Calls on a small instance.                                              *)
EXTENDS Calls, TLC
===============================================================================
