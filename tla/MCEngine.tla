------------------------------ MODULE MCEngine ------------------------------
(* Model-checking instance of Engine: invocations are model values and    *)
(* every property treats them alike, so they are symmetric.              *)
EXTENDS Engine, TLC

CONSTANTS p1, p2, p3

Symmetry == Permutations(Procs)
=============================================================================
