---------------------------- MODULE MCDeployment ----------------------------
(* StoreDeployment on small instances: processes are interchangeable, and so *)
(* are writers.                                                              *)
EXTENDS StoreDeployment, TLC

Symmetry == Permutations(Processes) \cup Permutations(Writers)
=============================================================================
