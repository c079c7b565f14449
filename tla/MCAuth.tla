-------------------------------- MODULE MCAuth --------------------------------
(* Auth on small instances.                                                *)
EXTENDS Auth, TLC

\* Devices are interchangeable, and so are workers.
Symmetry == Permutations(Devices) \union Permutations(Workers)
===============================================================================
