-------------------------------- MODULE MCTui --------------------------------
(* Tui on a small instance.                                                *)
EXTENDS Tui

\* The clock of the device agrees with the server's.
NoSkew == [d \in Devices |-> 0]
===============================================================================
