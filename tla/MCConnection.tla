---------------------------- MODULE MCConnection ----------------------------
(* Connection with interchangeable workers.                                *)
EXTENDS Connection, TLC

Symmetry == Permutations(Conns)
=============================================================================
