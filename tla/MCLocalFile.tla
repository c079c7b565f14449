------------------------------ MODULE MCLocalFile ------------------------------
(* LocalFile on small instances.                                           *)
EXTENDS LocalFile, TLC

\* Processes and accounts are interchangeable.
Symmetry == Permutations(Processes) \union Permutations(Accounts)
===============================================================================
