----------------------------- MODULE MCSession -----------------------------
(* Session with one message of each kind and two containers that carry      *)
(* them: one between the messages and one newer than all of them.          *)
EXTENDS Session

MCBody ==
    <<"rpc", "ack", "container", "unknown", "malformed", "ping", "badwrapper", "container">>
=============================================================================
