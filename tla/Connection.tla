----------------------------- MODULE Connection -----------------------------
(***************************************************************************)
(* A connection's worker thread in TcpHandshakeServer::Run: key exchanges  *)
(* (ServerExchange::Run) until an encrypted frame arrives, the key of that *)
(* frame found on this connection or by auth_key_resolver, then the        *)
(* session loop.  on_success saves a new key in auth_keys; the resolver    *)
(* reads it there.  Both lambdas are in cmd/shuzagram_server/main.cpp.     *)
(*                                                                         *)
(* A plaintext msgs_ack is skipped wherever a frame is read, and a         *)
(* repeated req_pq only makes the server send ResPQ again: both are        *)
(* stuttering steps and have no action.                                    *)
(***************************************************************************)
EXTENDS Naturals

CONSTANTS
    Conns,       \* worker threads, one per accepted connection
    Keys,        \* auth keys; their number bounds the completed exchanges
    TempKeys,    \* those negotiated with p_q_inner_data_temp_dc
    LegacyKeys,  \* rows of auth_keys with expires_at = -1, older than this server
    MaxFrames,   \* bound on the encrypted frames one connection sends
    None         \* no connection, no key

ASSUME ConnectionConstants ==
    /\ TempKeys \subseteq Keys
    /\ LegacyKeys \subseteq Keys \ TempKeys
    /\ MaxFrames \in Nat \ {0}
    /\ None \notin Keys

(* Where the worker stands: the frame it waits for, or what it does next.  *)
Reads == {"req_pq", "req_DH_params", "set_client_DH"}

Pcs == Reads \cup {"save", "lookup", "deny", "serve", "session"}

Connection == [pc     : Pcs,
               key    : Keys \cup {None},  \* session_auth_key
               own    : BOOLEAN,           \* have_key: this connection derived it
               temp   : BOOLEAN,           \* the exchange asked for a temporary key
               asked  : Keys \cup {None},  \* key of the first encrypted frame, or
                                           \* the key that was just derived
               known  : BOOLEAN,           \* history: asked was valid when its frame came
               failed : BOOLEAN,           \* history: its lookup threw
               read   : Nat,               \* history: encrypted frames read
               served : Nat]               \* history: frames given to MtprotoSession

ASSUME NoneIsNoConnection == None \notin Connection

VARIABLES
    auth_keys,   \* the keys that have a row in auth_keys
    expired,     \* temporary keys whose expires_at has passed
    acked,       \* history: keys the client was sent dh_gen_ok for
    revoked,     \* history: keys whose row another process deleted
    lost,        \* history: keys whose row was never written: Save failed, or
                 \* the process died before it
    conn         \* the connections

vars == <<auth_keys, expired, acked, revoked, lost, conn>>

-----------------------------------------------------------------------------
TypeOK ==
    /\ auth_keys \subseteq Keys
    /\ expired \subseteq TempKeys
    /\ acked \subseteq Keys
    /\ revoked \subseteq Keys
    /\ lost \subseteq Keys
    /\ conn \in [Conns -> Connection \cup {None}]

Init ==
    /\ auth_keys = LegacyKeys
    /\ expired = {}
    /\ acked = {}
    /\ revoked = {}
    /\ lost = {}
    /\ conn = [c \in Conns |-> None]

At(c, pcs) == conn[c] # None /\ conn[c].pc \in pcs

Step(c, next) == conn' = [conn EXCEPT ![c] = next]

keys == <<auth_keys, expired, acked, revoked, lost>>

-----------------------------------------------------------------------------
(* ServerExchange::Run                                                     *)

NewConnection == [pc |-> "req_pq", key |-> None, own |-> FALSE, temp |-> FALSE,
                  asked |-> None, known |-> FALSE, failed |-> FALSE,
                  read |-> 0, served |-> 0]

(* Accepted, and DetectTransport recognised the codec.                     *)
Accept(c) ==
    /\ conn[c] = None
    /\ Step(c, NewConnection)
    /\ UNCHANGED keys

ReqPq(c) ==
    /\ At(c, {"req_pq"})
    /\ Step(c, [conn[c] EXCEPT !.pc = "req_DH_params"])
    /\ UNCHANGED keys

(* A temporary key's lifetime that is not positive, or ends after the int32 *)
(* range, ends the connection instead: Drop.                               *)
ReqDhParams(c, temp) ==
    /\ At(c, {"req_DH_params"})
    /\ Step(c, [conn[c] EXCEPT !.pc = "set_client_DH", !.temp = temp])
    /\ UNCHANGED keys

(* The new key is derived and dh_gen_ok is written, before Run returns.    *)
SetClientDh(c, k) ==
    /\ At(c, {"set_client_DH"})
    /\ k \in Keys \ (acked \cup LegacyKeys)
    /\ k \in TempKeys <=> conn[c].temp
    /\ acked' = acked \cup {k}
    /\ Step(c, [conn[c] EXCEPT !.pc = "save", !.asked = k])
    /\ UNCHANGED <<auth_keys, expired, revoked, lost>>

-----------------------------------------------------------------------------
(* on_success, and the next turn of the exchange loop.                     *)

NextExchange(c) ==
    Step(c, [conn[c] EXCEPT !.pc = "req_pq", !.key = conn[c].asked, !.own = TRUE,
                            !.asked = None])

(* A mutation: a temporary key is not worth a row.                         *)
Save_PermanentOnly(c) ==
    /\ At(c, {"save"})
    /\ auth_keys' = auth_keys \cup ({conn[c].asked} \ TempKeys)
    /\ NextExchange(c)
    /\ UNCHANGED <<expired, acked, revoked, lost>>

Save(c) ==
    /\ At(c, {"save"})
    /\ auth_keys' = auth_keys \cup {conn[c].asked}
    /\ NextExchange(c)
    /\ UNCHANGED <<expired, acked, revoked, lost>>

(* The exception is logged and the connection goes on with an unsaved key. *)
SaveFails(c) ==
    /\ At(c, {"save"})
    /\ lost' = lost \cup {conn[c].asked}
    /\ NextExchange(c)
    /\ UNCHANGED <<auth_keys, expired, acked, revoked>>

-----------------------------------------------------------------------------
(* UnexpectedEncryptedFrameError: a frame whose auth_key_id is not zero.   *)

Valid(k) == k \in auth_keys /\ k \notin LegacyKeys /\ k \notin expired

EncryptedFrame(c, k) ==
    /\ At(c, Reads)
    /\ k \in acked \cup LegacyKeys
    /\ conn[c].read < MaxFrames
    /\ Step(c, IF conn[c].own /\ k = conn[c].key
               THEN [conn[c] EXCEPT !.pc = "serve", !.read = @ + 1]
               ELSE [conn[c] EXCEPT !.pc = "lookup", !.asked = k, !.known = Valid(k),
                                    !.read = @ + 1])
    /\ UNCHANGED keys

(* A mutation: rows with expires_at = -1 are accepted.                     *)
LookupFound_AcceptsLegacy(c) ==
    LET k == conn[c].asked IN
    /\ At(c, {"lookup"})
    /\ k \in auth_keys
    /\ k \notin expired
    /\ Step(c, [conn[c] EXCEPT !.pc = "serve", !.key = k])
    /\ UNCHANGED keys

(* auth_key_resolver finds a key it may resume.                            *)
LookupFound(c) ==
    LET k == conn[c].asked IN
    /\ At(c, {"lookup"})
    /\ Valid(k)
    /\ Step(c, [conn[c] EXCEPT !.pc = "serve", !.key = k])
    /\ UNCHANGED keys

(* A mutation: a permanent key is taken for one that has expired.          *)
LookupMissing_ExpiresPermanent(c) ==
    LET k == conn[c].asked IN
    /\ At(c, {"lookup"})
    /\ ~Valid(k) \/ k \notin TempKeys
    /\ Step(c, [conn[c] EXCEPT !.pc = "deny"])
    /\ UNCHANGED keys

(* ... or no such row, one that proves nothing, or an expired one.         *)
LookupMissing(c) ==
    LET k == conn[c].asked IN
    /\ At(c, {"lookup"})
    /\ ~Valid(k)
    /\ Step(c, [conn[c] EXCEPT !.pc = "deny"])
    /\ UNCHANGED keys

(* Get throws: the resolver returns nullopt, as for an unknown key.        *)
LookupFails(c) ==
    /\ At(c, {"lookup"})
    /\ Step(c, [conn[c] EXCEPT !.pc = "deny", !.failed = TRUE])
    /\ UNCHANGED keys

(* -404 is written and the exception rethrown.                             *)
Deny(c) ==
    /\ At(c, {"deny"})
    /\ Step(c, None)
    /\ UNCHANGED keys

-----------------------------------------------------------------------------
(* The session loop.                                                       *)

(* A mutation: the frame that ended the exchange is not handled.           *)
ServeFirst_Drops(c) ==
    /\ At(c, {"serve"})
    /\ Step(c, [conn[c] EXCEPT !.pc = "session"])
    /\ UNCHANGED keys

(* pending_first_frame                                                     *)
ServeFirst(c) ==
    /\ At(c, {"serve"})
    /\ Step(c, [conn[c] EXCEPT !.pc = "session", !.served = @ + 1])
    /\ UNCHANGED keys

(* A frame under the session's key; under any other key DecryptMessage     *)
(* throws and the connection ends: Drop.                                   *)
SessionFrame(c) ==
    /\ At(c, {"session"})
    /\ conn[c].read < MaxFrames
    /\ Step(c, [conn[c] EXCEPT !.read = @ + 1, !.served = @ + 1])
    /\ UNCHANGED keys

(* A read or write fails, the peer sends something else, an exchange or a  *)
(* handler throws.  on_success and the resolver catch what they call.      *)
Drop(c) ==
    /\ At(c, Pcs \ {"save", "lookup"})
    /\ Step(c, None)
    /\ UNCHANGED keys

-----------------------------------------------------------------------------
(* What the workers do not control.                                        *)

(* expires_at of a temporary key passes.                                   *)
Expire(k) ==
    /\ k \in (acked \cap TempKeys) \ expired
    /\ expired' = expired \cup {k}
    /\ UNCHANGED <<auth_keys, acked, revoked, lost, conn>>

(* AuthKeyStore::Delete by the process that ends sessions.                 *)
Revoke(k) ==
    /\ k \in auth_keys
    /\ auth_keys' = auth_keys \ {k}
    /\ revoked' = revoked \cup {k}
    /\ UNCHANGED <<expired, acked, lost, conn>>

(* The process dies and starts again: every connection is gone.            *)
Restart ==
    /\ conn' = [c \in Conns |-> None]
    /\ lost' = lost \cup {conn[c].asked : c \in {d \in Conns : At(d, {"save"})}}
    /\ UNCHANGED <<auth_keys, expired, acked, revoked>>

(* What a worker does between two frames that it reads, and what may go    *)
(* wrong instead.                                                          *)
Work(c) ==
    \/ Save(c)
    \/ LookupFound(c) \/ LookupMissing(c)
    \/ Deny(c)
    \/ ServeFirst(c)

Fault(c) == SaveFails(c) \/ LookupFails(c)

Receive(c) ==
    \/ Accept(c)
    \/ ReqPq(c)
    \/ \E temp \in BOOLEAN : ReqDhParams(c, temp)
    \/ \E k \in Keys : SetClientDh(c, k) \/ EncryptedFrame(c, k)
    \/ SessionFrame(c)
    \/ Drop(c)

Next ==
    \/ \E c \in Conns : Work(c) \/ Fault(c) \/ Receive(c)
    \/ \E k \in Keys : Expire(k) \/ Revoke(k)
    \/ Restart

(* No fairness: -404 and the answer to a first frame are written to a      *)
(* socket without a send timeout, so a peer that reads nothing keeps its   *)
(* worker for as long as it likes.                                         *)
Spec == Init /\ [][Next]_vars

-----------------------------------------------------------------------------
(* Properties.                                                             *)

(* A session runs under a key that an exchange with this server produced:  *)
(* one derived on the connection or resolved from auth_keys, and never a   *)
(* row of which nobody knows whether it was permanent.                     *)
SessionKeysAreProven ==
    \A c \in Conns : At(c, {"serve", "session"}) => conn[c].key \in acked

(* dh_gen_ok is sent before the key is saved, and the client may use the   *)
(* key on any connection from then on.  -404, which makes it forget the    *)
(* key, is the answer only if the key has expired or been deleted, if its  *)
(* row was never written, or while the connection that made it has yet to  *)
(* write it; or if the lookup throws.                                      *)
AckedKeyFound ==
    [][\A c \in Conns :
        /\ At(c, {"lookup"}) /\ At(c, {"deny"})' /\ ~conn'[c].failed
        /\ conn[c].asked \in acked
        => \/ conn[c].asked \in expired \cup revoked \cup lost
           \/ \E d \in Conns : At(d, {"save"}) /\ conn[d].asked = conn[c].asked]_vars

(* Every encrypted frame read is given to the session, the one that ended  *)
(* the exchanges included, unless the connection ends.                     *)
NoFrameLost ==
    \A c \in Conns :
        /\ At(c, {"session"}) => conn[c].served = conn[c].read
        /\ At(c, {"serve", "lookup", "deny"}) => conn[c].served + 1 = conn[c].read

(* A key that was valid when its frame arrived, and whose lookup does not  *)
(* throw, is told -404 only if it expired or was revoked meanwhile.        *)
ValidKeyNotDenied ==
    \A c \in Conns :
        At(c, {"deny"}) /\ conn[c].known /\ ~conn[c].failed =>
            conn[c].asked \in expired \cup revoked
=============================================================================
