------------------------------ MODULE MCLogin ------------------------------
(* Model-checking instance of Login: workers are interchangeable, and so    *)
(* are hashes and keys of one kind.                                        *)
EXTENDS Login, TLC

Symmetry == Permutations(Workers) \cup Permutations(Hashes)
=============================================================================
