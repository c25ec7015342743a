----------------------------- MODULE MCUserRows -----------------------------
(* Processes are interchangeable: no step and no property names one.       *)
EXTENDS UserRows, TLC

Symmetry == Permutations(Processes)
=============================================================================
