---------------------------- MODULE LoginTicket ----------------------------
(***************************************************************************)
(* What a phone_code_hash promises, without handlers, stores or owners: a  *)
(* ticket that is issued once, proven by its code once, and then used for  *)
(* one login, or discarded at any moment before.                           *)
(***************************************************************************)
EXTENDS Naturals

CONSTANT Hashes

VARIABLES
    ticket,   \* the state of each ticket
    logins    \* how many sessions it has logged in

States == {"unissued", "open", "proven", "used", "discarded"}

Init ==
    /\ ticket = [h \in Hashes |-> "unissued"]
    /\ logins = [h \in Hashes |-> 0]

Move(h, from, to) ==
    /\ ticket[h] \in from
    /\ ticket' = [ticket EXCEPT ![h] = to]

Issue(h) == Move(h, {"unissued"}, "open") /\ UNCHANGED logins

Prove(h) == Move(h, {"open"}, "proven") /\ UNCHANGED logins

(* The only step that logs anyone in.                                      *)
Use(h) ==
    /\ Move(h, {"proven"}, "used")
    /\ logins' = [logins EXCEPT ![h] = @ + 1]

Discard(h) == Move(h, {"open", "proven"}, "discarded") /\ UNCHANGED logins

(* A restart discards every ticket that has not been used.                 *)
DiscardAll ==
    /\ ticket' = [h \in Hashes |-> IF ticket[h] \in {"open", "proven"}
                                   THEN "discarded" ELSE ticket[h]]
    /\ UNCHANGED logins

Next ==
    \/ \E h \in Hashes : Issue(h) \/ Prove(h) \/ Use(h) \/ Discard(h)
    \/ DiscardAll

Spec == Init /\ [][Next]_<<ticket, logins>>
=============================================================================
