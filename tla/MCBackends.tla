------------------------------ MODULE MCBackends ------------------------------
(* Backends on a small instance.                                           *)
EXTENDS Backends, TLC

Symmetry == Permutations(Users) \cup Permutations(Messages) \cup Permutations(TaskIds)
================================================================================
