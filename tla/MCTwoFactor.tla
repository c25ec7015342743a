---------------------------- MODULE MCTwoFactor ----------------------------
(* Model-checking instance of TwoFactor: sessions, users and passwords are  *)
(* interchangeable.                                                        *)
EXTENDS TwoFactor, TLC

Symmetry == Permutations(Sessions) \cup Permutations(Users) \cup Permutations(Verifiers)
=============================================================================
