---------------------------- MODULE KeyAgreement ----------------------------
(***************************************************************************)
(* What a key exchange promises, without messages: the server makes a key  *)
(* that is new, permanent if a permanent one was asked for and otherwise   *)
(* temporary with an end inside the int32 range, and the client takes it   *)
(* into use as what it asked for.  Exchange implements it.                 *)
(***************************************************************************)
EXTENDS Integers

CONSTANTS MaxInt,    \* largest signed 32-bit number
          AuthKeys   \* the keys there can be

VARIABLES made,      \* the server's keys: function from keys to expires_at
          taken      \* the client's keys: function from keys to "is temporary"

agreement == <<made, taken>>

Init == made = <<>> /\ taken = <<>>

(* expires_at is 0 for a permanent key and positive for a temporary one.   *)
Make ==
    /\ \E k \in AuthKeys \ DOMAIN made, expires_at \in 0 .. MaxInt :
        made' = [x \in DOMAIN made \cup {k} |-> IF x = k THEN expires_at ELSE made[x]]
    /\ UNCHANGED taken

Take ==
    /\ \E k \in DOMAIN made \ DOMAIN taken :
        taken' = [x \in DOMAIN taken \cup {k} |-> IF x = k THEN made[k] > 0 ELSE taken[x]]
    /\ UNCHANGED made

Spec == Init /\ [][Make \/ Take]_agreement
=============================================================================
