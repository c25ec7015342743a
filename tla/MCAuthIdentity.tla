--------------------------- MODULE MCAuthIdentity ---------------------------
(* AuthIdentity with three permanent keys, the first and the third of which *)
(* share a lock, and one temporary key.                                    *)
EXTENDS AuthIdentity, TLC

MCHash == 1 :> 20 @@ 2 :> 10 @@ 3 :> 20

Symmetry == Permutations(Txs) \cup Permutations(Users)
=============================================================================
