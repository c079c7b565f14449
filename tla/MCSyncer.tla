------------------------------- MODULE MCSyncer -------------------------------
(* Syncer on small instances.                                              *)
EXTENDS Syncer, TLC

\* Clocks that agree with the server's.
NoSkew == [d \in Devices |-> 0]

\* One device, the first, whose clock is far ahead.
OneAhead == [d \in Devices |-> IF d = CHOOSE e \in Devices : TRUE THEN 10 ELSE 0]

\* Devices with the same clock are interchangeable.
Symmetry == Permutations(Devices)
===============================================================================
