----------------------------- MODULE MCExchange -----------------------------
(* Exchange with 4-bit integers: one lifetime that is too short, one that   *)
(* always fits and one that only fits early.                               *)
EXTENDS Exchange

MCTimes == {1, 6}

MCLifetimes == {-1, 0, 1, 6}
=============================================================================
