-------------------------- MODULE ConnectionProofs --------------------------
(***************************************************************************)
(* Proofs about a connection: first its thread (Connection), for every     *)
(* number of connections, keys and frames, then the bytes below it         *)
(* (Transport), for every base, size limit and number of frames.  The two  *)
(* specifications share no constant and no variable.                       *)
(***************************************************************************)
EXTENDS Connection, Transport, SequenceTheorems, TLAPS

(* What the worker of a connection relies on at each place.                *)
KeysOK(r) ==
    /\ r.own => r.key \in acked
    /\ r.pc = "save" => r.asked \in acked
    /\ r.pc = "lookup" => r.asked \in acked \cup LegacyKeys
    /\ r.pc \in {"serve", "session"} => r.key \in acked

FramesOK(r) ==
    /\ r.pc \in Reads \cup {"save"} => r.read = 0 /\ r.served = 0
    /\ r.pc \in {"serve", "lookup", "deny"} => r.served + 1 = r.read
    /\ r.pc = "session" => r.served = r.read

(* A row that was there when the frame came can only have been revoked.    *)
LookupOK(r) ==
    /\ r.pc = "lookup" /\ r.known => r.asked \notin LegacyKeys /\ r.asked \in auth_keys \cup revoked
    /\ r.pc = "deny" /\ r.known /\ ~ r.failed => r.asked \in expired \cup revoked

WorkerOK(r) == KeysOK(r) /\ FramesOK(r) /\ LookupOK(r)

ConnectionInv == TypeOK /\ \A c \in Conns : conn[c] # None => WorkerOK(conn[c])
-----------------------------------------------------------------------------
(* Keys are only ever added to acked, expired and revoked, and a row that  *)
(* is gone was revoked: what a worker relies on stays true.                *)
KeysGrow ==
    /\ acked \subseteq acked' /\ expired \subseteq expired' /\ revoked \subseteq revoked'
    /\ auth_keys \subseteq auth_keys' \cup revoked'

KeysTypeOK ==
    /\ auth_keys \subseteq Keys /\ expired \subseteq TempKeys
    /\ acked \subseteq Keys /\ revoked \subseteq Keys /\ lost \subseteq Keys

(* What a connection thread knows stays true while keys are only added.    *)
LEMMA WorkerStays ==
    ASSUME NEW r, WorkerOK(r), KeysGrow
    PROVE  WorkerOK(r)'
BY DEF WorkerOK, KeysOK, FramesOK, LookupOK, KeysGrow

(* The worker of c moves to r; the others stay where they are.             *)
LEMMA WorkerMoves ==
    ASSUME ConnectionInv, NEW c \in Conns, NEW r \in Connection \cup {None}, Step(c, r),
           r # None => WorkerOK(r)', KeysGrow, KeysTypeOK'
    PROVE  ConnectionInv'
<1>a. conn' = [conn EXCEPT ![c] = r] /\ conn \in [Conns -> Connection \cup {None}]
    BY DEF Step, ConnectionInv, TypeOK
<1>1. TypeOK'
    BY <1>a DEF TypeOK, KeysTypeOK
<1>2. ASSUME NEW d \in Conns, conn'[d] # None PROVE WorkerOK(conn[d])'
  <2>1. CASE d = c
    <3>1. conn'[d] = r
        BY <1>a, <2>1
    <3> QED
        BY <1>2, <3>1 DEF WorkerOK, KeysOK, FramesOK, LookupOK
  <2>2. CASE d # c
    <3>1. conn'[d] = conn[d]
        BY <1>a, <2>2
    <3>2. PICK q : q = conn[d]
        OBVIOUS
    <3>3. WorkerOK(q)
        BY <1>2, <3>1, <3>2 DEF ConnectionInv
    <3>4. WorkerOK(q)'
        BY <3>3, WorkerStays
    <3> QED
        BY <3>1, <3>2, <3>4 DEF WorkerOK, KeysOK, FramesOK, LookupOK
  <2> QED
      BY <2>1, <2>2
<1> QED
    BY <1>1, <1>2 DEF ConnectionInv

(* The keys do not change.                                                 *)
LEMMA SameKeys ==
    ASSUME ConnectionInv, UNCHANGED keys
    PROVE  KeysGrow /\ KeysTypeOK' /\ \A r : WorkerOK(r)' <=> WorkerOK(r)
<1>1. UNCHANGED <<auth_keys, expired, acked, revoked, lost>>
    BY DEF keys
<1>2. KeysGrow /\ KeysTypeOK'
    BY <1>1 DEF KeysGrow, KeysTypeOK, ConnectionInv, TypeOK
<1>3. ASSUME NEW r PROVE WorkerOK(r)' <=> WorkerOK(r)
    BY <1>1 DEF WorkerOK, KeysOK, FramesOK, LookupOK
<1> QED
    BY <1>2, <1>3

(* The record of a connection that is somewhere.                           *)
LEMMA WorkerAt ==
    ASSUME ConnectionInv, NEW c \in Conns, NEW pcs, At(c, pcs)
    PROVE  /\ conn[c] \in Connection /\ conn[c].pc \in pcs /\ WorkerOK(conn[c])
BY DEF ConnectionInv, TypeOK, At

(* A new connection knows nothing yet.                                     *)
LEMMA AcceptInv ==
    ASSUME ConnectionInv, NEW c \in Conns, Accept(c)
    PROVE  ConnectionInv'
<1>1. NewConnection \in Connection /\ WorkerOK(NewConnection)
    BY DEF NewConnection, Connection, Pcs, Reads, WorkerOK, KeysOK, FramesOK, LookupOK
<1> QED
    BY <1>1, SameKeys, WorkerMoves DEF Accept

(* A connection that ends, with or without -404, has nothing left to       *)
(* serve.                                                                  *)
LEMMA EndInv ==
    ASSUME ConnectionInv, NEW c \in Conns, Deny(c) \/ Drop(c)
    PROVE  ConnectionInv'
BY SameKeys, WorkerMoves DEF Deny, Drop

(* The exchange moves on.                                                  *)
LEMMA ExchangeInv ==
    ASSUME ConnectionInv, NEW c \in Conns, ReqPq(c) \/ \E temp \in BOOLEAN : ReqDhParams(c, temp)
    PROVE  ConnectionInv'
<1>1. PICK r \in Connection : r = conn[c] /\ WorkerOK(r) /\ r.pc \in Reads
    BY WorkerAt DEF ReqPq, ReqDhParams, Reads
<1>2. PICK pc \in Reads, temp \in BOOLEAN : Step(c, [r EXCEPT !.pc = pc, !.temp = temp])
  <2>1. CASE ReqPq(c)
    <3>1. [r EXCEPT !.pc = "req_DH_params"] = [r EXCEPT !.pc = "req_DH_params", !.temp = r.temp]
          /\ r.temp \in BOOLEAN
        BY DEF Connection
    <3> QED
        BY <1>1, <2>1, <3>1 DEF ReqPq, Reads
  <2>2. CASE \E temp \in BOOLEAN : ReqDhParams(c, temp)
      BY <1>1, <2>2 DEF ReqDhParams, Reads
  <2> QED
      BY <2>1, <2>2
<1>3. /\ [r EXCEPT !.pc = pc, !.temp = temp] \in Connection
      /\ WorkerOK([r EXCEPT !.pc = pc, !.temp = temp])
    BY <1>1 DEF Connection, Pcs, Reads, WorkerOK, KeysOK, FramesOK, LookupOK
<1> QED
    BY <1>2, <1>3, SameKeys, WorkerMoves DEF ReqPq, ReqDhParams

(* dh_gen_ok: the client has proven a new key, on this connection.         *)
LEMMA SetClientDhInv ==
    ASSUME ConnectionInv, NEW c \in Conns, NEW k \in Keys, SetClientDh(c, k)
    PROVE  ConnectionInv'
<1>1. PICK r \in Connection : r = conn[c] /\ WorkerOK(r) /\ r.pc = "set_client_DH"
    BY WorkerAt DEF SetClientDh
<1>2. KeysGrow /\ KeysTypeOK'
    BY DEF SetClientDh, KeysGrow, KeysTypeOK, ConnectionInv, TypeOK
<1>3. /\ [r EXCEPT !.pc = "save", !.asked = k] \in Connection
      /\ WorkerOK([r EXCEPT !.pc = "save", !.asked = k])'
    BY <1>1 DEF SetClientDh, Connection, Pcs, Reads, WorkerOK, KeysOK, FramesOK, LookupOK
<1> QED
    BY <1>1, <1>2, <1>3, WorkerMoves DEF SetClientDh

(* on_success writes the key of the exchange, or swallows the exception.   *)
LEMMA SaveInv ==
    ASSUME ConnectionInv, NEW c \in Conns, Save(c) \/ SaveFails(c)
    PROVE  ConnectionInv'
<1>1. PICK r \in Connection : r = conn[c] /\ WorkerOK(r) /\ r.pc = "save"
    BY WorkerAt DEF Save, SaveFails
<1>2. r.asked \in acked /\ r.asked \in Keys
    BY <1>1 DEF WorkerOK, KeysOK, ConnectionInv, TypeOK
<1>3. KeysGrow /\ KeysTypeOK'
    BY <1>1, <1>2 DEF Save, SaveFails, keys, KeysGrow, KeysTypeOK, ConnectionInv, TypeOK
<1>4. Step(c, [r EXCEPT !.pc = "req_pq", !.key = r.asked, !.own = TRUE, !.asked = None])
    BY <1>1 DEF Save, SaveFails, NextExchange
<1>5. /\ [r EXCEPT !.pc = "req_pq", !.key = r.asked, !.own = TRUE, !.asked = None] \in Connection
      /\ WorkerOK([r EXCEPT !.pc = "req_pq", !.key = r.asked, !.own = TRUE, !.asked = None])'
    BY <1>1, <1>2, <1>3
    DEF Connection, Pcs, Reads, WorkerOK, KeysOK, FramesOK, LookupOK, KeysGrow
<1> QED
    BY <1>3, <1>4, <1>5, WorkerMoves

(* The first encrypted frame is served under the key just derived, or its  *)
(* key is looked up.                                                       *)
LEMMA EncryptedFrameInv ==
    ASSUME ConnectionInv, NEW c \in Conns, NEW k \in Keys, EncryptedFrame(c, k)
    PROVE  ConnectionInv'
<1>1. PICK r \in Connection : r = conn[c] /\ WorkerOK(r) /\ r.pc \in Reads
    BY WorkerAt DEF EncryptedFrame
<1>2. r.read = 0 /\ r.served = 0 /\ k \in acked \cup LegacyKeys
    BY <1>1 DEF WorkerOK, FramesOK, EncryptedFrame
<1>3. CASE r.own /\ k = r.key
  <2> DEFINE next == [r EXCEPT !.pc = "serve", !.read = 1]
  <2>1. Step(c, next)
      BY <1>1, <1>2, <1>3 DEF EncryptedFrame
  <2>2. /\ next \in Connection /\ next.pc = "serve" /\ next.own = r.own /\ next.key = r.key
        /\ next.read = 1 /\ next.served = 0
      BY <1>2 DEF Connection, Pcs
  <2> HIDE DEF next
  <2>3. WorkerOK(next)
      BY <1>1, <1>3, <2>2 DEF Reads, WorkerOK, KeysOK, FramesOK, LookupOK
  <2> QED
      BY <2>1, <2>2, <2>3, SameKeys, WorkerMoves DEF EncryptedFrame
<1>4. CASE ~ (r.own /\ k = r.key)
  <2>1. PICK known \in BOOLEAN : known = Valid(k)
      BY DEF Valid
  <2> DEFINE next == [r EXCEPT !.pc = "lookup", !.asked = k, !.known = known, !.read = 1]
  <2>2. Step(c, next)
      BY <1>1, <1>2, <1>4, <2>1 DEF EncryptedFrame
  <2>3. next \in Connection
      BY <1>2 DEF Connection, Pcs
  <2>4. /\ next.pc = "lookup" /\ next.asked = k /\ next.known = known /\ next.own = r.own
        /\ next.key = r.key /\ next.read = 1 /\ next.served = 0
      BY <1>2 DEF Connection
  <2> HIDE DEF next
  <2>5. WorkerOK(next)
    <3>1. known => k \notin LegacyKeys /\ k \in auth_keys
        BY <2>1 DEF Valid
    <3> QED
        BY <1>1, <1>2, <1>4, <2>4, <3>1 DEF Reads, WorkerOK, KeysOK, FramesOK, LookupOK
  <2> QED
      BY <2>2, <2>3, <2>5, SameKeys, WorkerMoves DEF EncryptedFrame
<1> QED
    BY <1>3, <1>4

(* The resolver's three outcomes: a row, none, or an exception.            *)
LEMMA LookupInv ==
    ASSUME ConnectionInv, NEW c \in Conns, LookupFound(c) \/ LookupMissing(c) \/ LookupFails(c)
    PROVE  ConnectionInv'
<1>1. PICK r \in Connection : r = conn[c] /\ WorkerOK(r) /\ r.pc = "lookup"
    BY WorkerAt DEF LookupFound, LookupMissing, LookupFails
<1>2. CASE LookupFound(c)
  <2>1. Valid(r.asked) /\ Step(c, [r EXCEPT !.pc = "serve", !.key = r.asked])
      BY <1>1, <1>2 DEF LookupFound
  <2>2. r.asked \in acked
      BY <1>1, <2>1 DEF WorkerOK, KeysOK, Valid
  <2>3. /\ [r EXCEPT !.pc = "serve", !.key = r.asked] \in Connection
        /\ WorkerOK([r EXCEPT !.pc = "serve", !.key = r.asked])
      BY <1>1, <2>2 DEF Connection, Pcs, Reads, WorkerOK, KeysOK, FramesOK, LookupOK
  <2> QED
      BY <1>2, <2>1, <2>3, SameKeys, WorkerMoves DEF LookupFound
<1>3. CASE LookupMissing(c)
  <2>1. ~ Valid(r.asked) /\ Step(c, [r EXCEPT !.pc = "deny"])
      BY <1>1, <1>3 DEF LookupMissing
  <2>2. r.known => r.asked \in expired \cup revoked
      BY <1>1, <2>1 DEF WorkerOK, LookupOK, Valid
  <2>3. /\ [r EXCEPT !.pc = "deny"] \in Connection
        /\ WorkerOK([r EXCEPT !.pc = "deny"])
      BY <1>1, <2>2 DEF Connection, Pcs, Reads, WorkerOK, KeysOK, FramesOK, LookupOK
  <2> QED
      BY <1>3, <2>1, <2>3, SameKeys, WorkerMoves DEF LookupMissing
<1>4. CASE LookupFails(c)
  <2>1. Step(c, [r EXCEPT !.pc = "deny", !.failed = TRUE])
      BY <1>1, <1>4 DEF LookupFails
  <2>2. /\ [r EXCEPT !.pc = "deny", !.failed = TRUE] \in Connection
        /\ WorkerOK([r EXCEPT !.pc = "deny", !.failed = TRUE])
      BY <1>1 DEF Connection, Pcs, Reads, WorkerOK, KeysOK, FramesOK, LookupOK
  <2> QED
      BY <1>4, <2>1, <2>2, SameKeys, WorkerMoves DEF LookupFails
<1> QED
    BY <1>2, <1>3, <1>4

(* The frame that ended the exchange is served first, then those after it, *)
(* each once.                                                              *)
LEMMA SessionFramesInv ==
    ASSUME ConnectionInv, NEW c \in Conns, ServeFirst(c) \/ SessionFrame(c)
    PROVE  ConnectionInv'
<1>1. PICK r \in Connection : r = conn[c] /\ WorkerOK(r) /\ r.pc \in {"serve", "session"}
    BY WorkerAt DEF ServeFirst, SessionFrame
<1>2. PICK read \in Nat :
        /\ read = r.served + 1
        /\ Step(c, [r EXCEPT !.pc = "session", !.read = read, !.served = r.served + 1])
  <2>0. r.read \in Nat /\ r.served \in Nat
      BY DEF Connection
  <2>1. CASE ServeFirst(c)
    <3>1. r.served + 1 = r.read
        BY <1>1, <2>1, WorkerAt DEF ServeFirst, WorkerOK, FramesOK
    <3>2. [r EXCEPT !.pc = "session", !.served = r.served + 1]
            = [r EXCEPT !.pc = "session", !.read = r.read, !.served = r.served + 1]
        BY DEF Connection
    <3> QED
        BY <1>1, <2>0, <2>1, <3>1, <3>2 DEF ServeFirst
  <2>2. CASE SessionFrame(c)
    <3>1. r.served = r.read /\ r.pc = "session"
        BY <1>1, <2>2, WorkerAt DEF SessionFrame, WorkerOK, FramesOK
    <3>2. [r EXCEPT !.read = r.read + 1, !.served = r.served + 1]
            = [r EXCEPT !.pc = "session", !.read = r.read + 1, !.served = r.served + 1]
        BY <3>1 DEF Connection
    <3>3. Step(c, [r EXCEPT !.read = r.read + 1, !.served = r.served + 1])
        BY <1>1, <2>2 DEF SessionFrame
    <3>4. Step(c, [r EXCEPT !.pc = "session", !.read = r.read + 1, !.served = r.served + 1])
        BY <3>2, <3>3
    <3>5. r.read + 1 \in Nat /\ r.read + 1 = r.served + 1
        BY <2>0, <3>1
    <3> QED
        BY <3>4, <3>5, Zenon
  <2> QED
      BY <2>1, <2>2
<1>3. /\ [r EXCEPT !.pc = "session", !.read = read, !.served = r.served + 1] \in Connection
      /\ WorkerOK([r EXCEPT !.pc = "session", !.read = read, !.served = r.served + 1])
    BY <1>1, <1>2 DEF Connection, Pcs, Reads, WorkerOK, KeysOK, FramesOK, LookupOK
<1> QED
    BY <1>2, <1>3, SameKeys, WorkerMoves DEF ServeFirst, SessionFrame

(* Expiry, revocation and a restart.                                       *)
LEMMA OutsideInv ==
    ASSUME ConnectionInv, Restart \/ \E k \in Keys : Expire(k) \/ Revoke(k)
    PROVE  ConnectionInv'
<1>1. CASE Restart
  <2>1. conn' = [c \in Conns |-> None] /\ UNCHANGED <<auth_keys, expired, acked, revoked>>
        /\ lost' = lost \cup {conn[c].asked : c \in {d \in Conns : At(d, {"save"})}}
      BY <1>1 DEF Restart
  <2>2. \A c \in Conns : At(c, {"save"}) => conn[c].asked \in Keys
      BY WorkerAt DEF WorkerOK, KeysOK, ConnectionInv, TypeOK
  <2> QED
      BY <2>1, <2>2 DEF ConnectionInv, TypeOK
<1>2. ASSUME NEW k \in Keys, Expire(k) \/ Revoke(k) PROVE ConnectionInv'
  <2>1. KeysGrow /\ KeysTypeOK' /\ conn' = conn
      BY <1>2, ConnectionConstants DEF Expire, Revoke, KeysGrow, KeysTypeOK, ConnectionInv, TypeOK
  <2>2. TypeOK'
      BY <2>1 DEF ConnectionInv, TypeOK, KeysTypeOK
  <2>3. ASSUME NEW c \in Conns, conn'[c] # None PROVE WorkerOK(conn[c])'
    <3>1. PICK r : r = conn[c] /\ WorkerOK(r)
        BY <2>1, <2>3 DEF ConnectionInv
    <3>2. WorkerOK(r)'
        BY <2>1, <3>1, WorkerStays
    <3> QED
        BY <2>1, <3>1, <3>2 DEF WorkerOK, KeysOK, FramesOK, LookupOK
  <2> QED
      BY <2>2, <2>3 DEF ConnectionInv
<1> QED
    BY <1>1, <1>2

(* Every step keeps the invariant.                                         *)
LEMMA NextInv == ConnectionInv /\ [Next]_vars => ConnectionInv'
<1> SUFFICES ASSUME ConnectionInv, [Next]_vars PROVE ConnectionInv'
    OBVIOUS
<1>1. ASSUME NEW c \in Conns, Work(c) \/ Fault(c) \/ Receive(c) PROVE ConnectionInv'
    BY <1>1, SaveInv, LookupInv, EndInv, SessionFramesInv, AcceptInv, ExchangeInv,
       SetClientDhInv, EncryptedFrameInv DEF Work, Fault, Receive
<1>2. CASE UNCHANGED vars
    BY <1>2 DEF vars, ConnectionInv, TypeOK, WorkerOK, KeysOK, FramesOK, LookupOK
<1> QED
    BY <1>1, <1>2, OutsideInv DEF Next

(* The invariant holds in every reachable state.                           *)
THEOREM Invariance == Spec => []ConnectionInv
<1>1. Init => ConnectionInv
    BY ConnectionConstants DEF Init, ConnectionInv, TypeOK
<1> QED
    BY <1>1, NextInv, PTL DEF Spec

(* A session runs under a key that an exchange with this server produced.  *)
THEOREM SessionsUnderProvenKeys == Spec => []SessionKeysAreProven
<1>1. ConnectionInv => SessionKeysAreProven
    BY DEF ConnectionInv, WorkerOK, KeysOK, SessionKeysAreProven, At
<1> QED
    BY <1>1, Invariance, PTL

(* A key the client was told of has its row, unless the row was deleted or *)
(* never written, or the connection that made it has yet to write it.      *)
Unsaved(k) == \E c \in Conns : At(c, {"save"}) /\ conn[c].asked = k

RowsInv == \A k \in acked : /\ k \notin LegacyKeys
                            /\ k \in auth_keys \cup revoked \cup lost \/ Unsaved(k)

(* A worker that is not about to save moves.                               *)
LEMMA RowsStay ==
    ASSUME RowsInv, NEW c \in Conns, NEW r, Step(c, r), ~ At(c, {"save"}), UNCHANGED keys
    PROVE  RowsInv'
<1>1. UNCHANGED <<auth_keys, acked, revoked, lost>> /\ conn' = [conn EXCEPT ![c] = r]
    BY DEF keys, Step
<1>2. ASSUME NEW k, Unsaved(k) PROVE Unsaved(k)'
  <2>1. PICK d \in Conns : At(d, {"save"}) /\ conn[d].asked = k
      BY <1>2 DEF Unsaved
  <2>2. d # c /\ conn'[d] = conn[d]
      BY <1>1, <2>1
  <2> QED
      BY <2>1, <2>2 DEF Unsaved, At
<1> QED
    BY <1>1, <1>2 DEF RowsInv

(* The save of a new key, whatever becomes of it, accounts for its row.    *)
LEMMA RowsNext == ConnectionInv /\ RowsInv /\ [Next]_vars => RowsInv'
<1> SUFFICES ASSUME ConnectionInv, RowsInv, [Next]_vars PROVE RowsInv'
    OBVIOUS
<1>1. ASSUME NEW c \in Conns, Work(c) \/ Fault(c) \/ Receive(c) PROVE RowsInv'
  <2>1. CASE Save(c) \/ SaveFails(c)
    <3>1. /\ At(c, {"save"}) /\ UNCHANGED <<acked, revoked>>
          /\ \E r : conn' = [conn EXCEPT ![c] = r]
          /\ auth_keys \subseteq auth_keys' /\ lost \subseteq lost'
          /\ conn[c].asked \in auth_keys' \cup lost'
        BY <2>1 DEF Save, SaveFails, NextExchange, Step
    <3>2. \A d \in Conns \ {c} : conn'[d] = conn[d]
        BY <3>1
    <3>3. ASSUME NEW k, Unsaved(k), k # conn[c].asked PROVE Unsaved(k)'
        BY <3>2, <3>3 DEF Unsaved, At
    <3> QED
        BY <3>1, <3>3 DEF RowsInv
  <2>2. CASE \E k \in Keys : SetClientDh(c, k)
    <3>1. PICK k \in Keys : SetClientDh(c, k)
        BY <2>2
    <3>2. PICK r \in Connection : r = conn[c] /\ r.pc = "set_client_DH"
        BY <3>1, WorkerAt DEF SetClientDh
    <3>3. PICK next : next = [r EXCEPT !.pc = "save", !.asked = k]
        OBVIOUS
    <3>4. next \in Connection /\ next.pc = "save" /\ next.asked = k /\ next # None
        BY <3>3, NoneIsNoConnection DEF Connection, Pcs
    <3>5. /\ acked' = acked \cup {k} /\ k \notin LegacyKeys /\ UNCHANGED <<auth_keys, revoked, lost>>
          /\ conn' = [conn EXCEPT ![c] = next]
        BY <3>1, <3>2, <3>3 DEF SetClientDh, Step
    <3>6. conn'[c] = next /\ \A d \in Conns \ {c} : conn'[d] = conn[d]
        BY <3>5 DEF ConnectionInv, TypeOK
    <3>7. Unsaved(k)'
        BY <3>4, <3>6 DEF Unsaved, At
    <3>8. ASSUME NEW j, Unsaved(j) PROVE Unsaved(j)'
        BY <3>2, <3>6, <3>8 DEF Unsaved, At
    <3> QED
        BY <3>5, <3>7, <3>8 DEF RowsInv
  <2>3. CASE \E k \in Keys : EncryptedFrame(c, k)
    <3>1. PICK k \in Keys : EncryptedFrame(c, k)
        BY <2>3
    <3>2. UNCHANGED keys /\ ~ At(c, {"save"}) /\ \E r : Step(c, r)
        BY <3>1 DEF EncryptedFrame, At, Reads
    <3> QED
        BY <3>2, RowsStay
  <2>4. CASE \/ LookupFound(c) \/ LookupMissing(c) \/ LookupFails(c)
             \/ Deny(c) \/ ServeFirst(c) \/ SessionFrame(c) \/ Drop(c)
    <3>1. UNCHANGED keys /\ ~ At(c, {"save"}) /\ \E r : Step(c, r)
        BY <2>4 DEF LookupFound, LookupMissing, LookupFails, Deny, ServeFirst, SessionFrame, Drop, At
    <3> QED
        BY <3>1, RowsStay
  <2>5. CASE Accept(c) \/ ReqPq(c) \/ \E temp \in BOOLEAN : ReqDhParams(c, temp)
    <3>1. UNCHANGED keys /\ ~ At(c, {"save"}) /\ \E r : Step(c, r)
        BY <2>5 DEF Accept, ReqPq, ReqDhParams, At
    <3> QED
        BY <3>1, RowsStay
  <2> QED
      BY <1>1, <2>1, <2>2, <2>3, <2>4, <2>5 DEF Work, Fault, Receive
<1>2. CASE \E k \in Keys : Expire(k) \/ Revoke(k)
    BY <1>2 DEF Expire, Revoke, RowsInv, Unsaved, At
<1>3. CASE Restart
  <2>1. /\ UNCHANGED <<auth_keys, acked, revoked>> /\ lost \subseteq lost'
        /\ \A k : Unsaved(k) => k \in lost'
      BY <1>3 DEF Restart, Unsaved
  <2> QED
      BY <2>1 DEF RowsInv
<1>4. CASE UNCHANGED vars
    BY <1>4 DEF vars, RowsInv, Unsaved, At
<1> QED
    BY <1>1, <1>2, <1>3, <1>4 DEF Next

(* A key the client was told of is denied, on any connection, only when it *)
(* has expired or been deleted, when its row was never written or is yet   *)
(* to be written, or when the lookup threw.                                *)
THEOREM AckedKeysFound == Spec => AckedKeyFound
<1>1. Init => RowsInv
    BY DEF Init, RowsInv
<1>2. Spec => []RowsInv
    BY <1>1, RowsNext, Invariance, PTL DEF Spec
<1> DEFINE Found == \A c \in Conns :
            /\ At(c, {"lookup"}) /\ At(c, {"deny"})' /\ ~conn'[c].failed
            /\ conn[c].asked \in acked
            => \/ conn[c].asked \in expired \cup revoked \cup lost
               \/ \E d \in Conns : At(d, {"save"}) /\ conn[d].asked = conn[c].asked
<1>3. ConnectionInv /\ RowsInv /\ [Next]_vars => [Found]_vars
  <2> SUFFICES ASSUME ConnectionInv, RowsInv, Next, NEW c \in Conns,
                      At(c, {"lookup"}), At(c, {"deny"})', ~ conn'[c].failed, conn[c].asked \in acked
               PROVE  conn[c].asked \in expired \cup revoked \cup lost \/ Unsaved(conn[c].asked)
      BY DEF Unsaved
  <2>1. LookupMissing(c) => ~ Valid(conn[c].asked)
      BY DEF LookupMissing
  <2>2. LookupMissing(c)
    <3>1. PICK r \in Connection : r = conn[c] /\ r.pc = "lookup"
        BY WorkerAt
    <3>2. /\ conn \in [Conns -> Connection \cup {None}]
          /\ conn'[c] # None /\ conn'[c] # conn[c] /\ conn'[c].pc = "deny"
        BY <3>1 DEF ConnectionInv, TypeOK, At
    <3>3. \A d \in Conns \ {c} : \A q : ~ Step(d, q)
        BY <3>2 DEF Step
    <3>4. ~ Restart /\ \A k \in Keys : ~ Expire(k) /\ ~ Revoke(k)
        BY <3>2 DEF Restart, Expire, Revoke
    <3>5. PICK d \in Conns : Work(d) \/ Fault(d) \/ Receive(d)
        BY <3>4 DEF Next
    <3>6. \E q : Step(d, q)
      <4>1. CASE Work(d)
          BY <4>1 DEF Work, Save, NextExchange, LookupFound, LookupMissing, Deny, ServeFirst
      <4>2. CASE Fault(d)
          BY <4>2 DEF Fault, SaveFails, NextExchange, LookupFails
      <4>3. CASE Receive(d)
          BY <4>3 DEF Receive, Accept, ReqPq, ReqDhParams, SetClientDh, EncryptedFrame, SessionFrame,
              Drop
      <4> QED
          BY <3>5, <4>1, <4>2, <4>3
    <3>7. d = c
        BY <3>3, <3>6
    <3>8. ~ LookupFails(c)
      <4>1. ASSUME LookupFails(c) PROVE FALSE
        <5>1. PICK next : next = [r EXCEPT !.pc = "deny", !.failed = TRUE]
            OBVIOUS
        <5>2. next.failed
            BY <5>1 DEF Connection
        <5>3. conn'[c] = next
            BY <3>1, <3>2, <4>1, <5>1 DEF LookupFails, Step
        <5> QED
            BY <5>2, <5>3
      <4> QED
          BY <4>1
    <3>9. ~ LookupFound(c)
      <4>1. ASSUME LookupFound(c) PROVE FALSE
        <5>1. PICK next : next = [r EXCEPT !.pc = "serve", !.key = r.asked]
            OBVIOUS
        <5>2. next.pc = "serve"
            BY <5>1 DEF Connection
        <5>3. conn'[c] = next
            BY <3>1, <3>2, <4>1, <5>1 DEF LookupFound, Step
        <5> QED
            BY <3>2, <5>2, <5>3
      <4> QED
          BY <4>1
    <3>10. ~ Receive(c)
        BY <3>1, NoneIsNoConnection DEF Receive, Accept, ReqPq, ReqDhParams, SetClientDh,
           EncryptedFrame, SessionFrame, Drop, At, Reads, Pcs
    <3>11. ~ Save(c) /\ ~ Deny(c) /\ ~ ServeFirst(c) /\ ~ SaveFails(c)
        BY <3>1 DEF Save, Deny, ServeFirst, SaveFails, At
    <3> QED
        BY <3>5, <3>7, <3>8, <3>9, <3>10, <3>11 DEF Work, Fault
  <2> QED
      BY <2>1, <2>2 DEF RowsInv, Valid
<1> QED
    BY <1>2, <1>3, Invariance, PTL DEF Spec, AckedKeyFound
(* Every encrypted frame that was read is given to the session, the one    *)
(* that ended the exchanges included.                                      *)
THEOREM FramesServed == Spec => []NoFrameLost
<1>1. ConnectionInv => NoFrameLost
    BY DEF ConnectionInv, WorkerOK, FramesOK, NoFrameLost, At
<1> QED
    BY <1>1, Invariance, PTL

(* A key that was valid when its frame came is denied only if it expired   *)
(* or was revoked during the lookup, or the lookup threw.                  *)
THEOREM ValidKeyAccepted == Spec => []ValidKeyNotDenied
<1>1. ConnectionInv => ValidKeyNotDenied
    BY DEF ConnectionInv, WorkerOK, LookupOK, ValidKeyNotDenied, At
<1> QED
    BY <1>1, Invariance, PTL
-----------------------------------------------------------------------------
(* The bytes below the connection thread: the codecs of Transport, for     *)
(* every base, every size limit and every number of frames that an int32   *)
(* can number.                                                             *)

Byte == 0 .. Base - 1

(* The constants: every length that Write may put into four bytes fits in  *)
(* them.                                                                   *)
LEMMA BaseFacts == /\ Base \in Nat /\ Base >= 8
                   /\ U32Range \in Nat /\ U32Range \div 2 \in Nat /\ U32Range \div 2 <= U32Range
                   /\ kMaxMessageSize \in Nat /\ kMaxMessageSize + 12 < U32Range
<1>1. Base \in Nat /\ Base >= 8 /\ kMaxMessageSize \in Nat /\ kMaxMessageSize <= Base * Base * Base
    BY TransportConstants
<1>2. PICK q \in Nat : q = Base * Base * Base /\ q >= 8
  <2>1. PICK m \in Nat : m = Base * Base /\ m >= 8
      BY <1>1
  <2> QED BY <1>1, <2>1
<1>3. U32Range = q * Base
    BY <1>2 DEF U32Range
<1>4. U32Range \in Nat /\ q + 12 < U32Range
    BY <1>1, <1>2, <1>3
<1> QED
    BY <1>1, <1>2, <1>4

(* A number is its last digit and the rest.                                *)
LEMMA DivMod ==
    ASSUME NEW n \in Nat
    PROVE  /\ n % Base \in Byte /\ High(n) \in Nat
           /\ n = Base * High(n) + (n % Base)
<1>1. n % Base \in 0 .. Base - 1
    BY BaseFacts
<1>2. n \div Base \in Nat
    BY BaseFacts
<1>3. n = Base * (n \div Base) + (n % Base)
    BY BaseFacts
<1> QED
    BY <1>1, <1>2, <1>3 DEF Byte, High

(* Adding and taking off the same keystream byte is the identity.          *)
LEMMA CipherInverse ==
    ASSUME NEW x \in Byte, NEW p \in Byte
    PROVE  /\ (x + p) % Base \in Byte
           /\ (((x + p) % Base) + Base - p) % Base = x
BY BaseFacts DEF Byte

(* The four bytes of a number, the lowest first.                           *)
LEMMA U32Type ==
    ASSUME NEW n \in Nat
    PROVE  /\ U32(n) \in Seq(Byte) /\ Len(U32(n)) = 4
           /\ U32(n)[1] = n % Base /\ U32(n)[2] = High(n) % Base
           /\ U32(n)[3] = High(High(n)) % Base /\ U32(n)[4] = High(High(High(n))) % Base
<1>1. n % Base \in Byte /\ High(n) % Base \in Byte /\ High(High(n)) % Base \in Byte
      /\ High(High(High(n))) % Base \in Byte
    BY DivMod
<1> QED
    BY <1>1 DEF U32

(* Four bytes give back the number that they were made from.               *)
LEMMA U32Inverse ==
    ASSUME NEW n \in Nat, n < U32Range, NEW s, \A i \in 1 .. 4 : s[i] = U32(n)[i]
    PROVE  FromU32(s) = n
<1>1. FromU32(U32(n)) = n
    BY BaseFacts DEF FromU32, U32, High, U32Range
<1> QED
    BY <1>1 DEF FromU32

-----------------------------------------------------------------------------
(* Codec::Read undoes Codec::Write.                                        *)

(* As far as s goes, it is the beginning of t, which it may go beyond.     *)
Agrees(s, t) == \A i \in 1 .. Len(t) : i <= Len(s) => s[i] = t[i]

(* What Read may make of bytes that begin with a frame, or are a part of   *)
(* one: it waits until the frame is complete and then takes exactly that   *)
(* frame and its payload, or refuses a length that is over the limit.      *)
ReadsAs(codec, seq_no, payload, s) ==
    LET frame == Framed(codec, seq_no, payload)
        read  == ReadFrame(codec, seq_no, s)
    IN  /\ read \in {More, Invalid, Chunk(Len(frame), payload)}
        /\ read = Invalid => TooLong(codec, payload)
        /\ read.status = "frame" => Len(s) >= Len(frame)
        /\ Len(s) >= Len(frame) => read # More

(* Two byte sequences one after the other.                                 *)
LEMMA HeadedFrame ==
    ASSUME NEW h \in Seq(Byte), NEW p \in Seq(Byte)
    PROVE  /\ h \o p \in Seq(Byte) /\ Len(h \o p) = Len(h) + Len(p)
           /\ \A i \in 1 .. Len(h) : (h \o p)[i] = h[i]
           /\ \A i \in 1 .. Len(p) : (h \o p)[Len(h) + i] = p[i]
OBVIOUS

(* A payload of known length is read when all its bytes are there.         *)
LEMMA BodyRead ==
    ASSUME NEW h \in Seq(Byte), NEW p \in Seq(Byte), NEW s \in Seq(Byte), Agrees(s, h \o p)
    PROVE  /\ Len(s) < Len(h) + Len(p) => Body(s, Len(h), Len(p)) = More
           /\ Len(s) >= Len(h) + Len(p) => Body(s, Len(h), Len(p)) = Chunk(Len(h) + Len(p), p)
<1>1. ASSUME Len(s) >= Len(h) + Len(p)
      PROVE  SubSeq(s, Len(h) + 1, Len(h) + Len(p)) = p
  <2>1. \A i \in 1 .. Len(p) : s[Len(h) + i] = p[i]
      BY <1>1, HeadedFrame DEF Agrees
  <2>2. PICK t : t = SubSeq(s, Len(h) + 1, Len(h) + Len(p))
      OBVIOUS
  <2>3. t \in Seq(Byte) /\ Len(t) = Len(p) /\ \A i \in 1 .. Len(p) : t[i] = s[Len(h) + i]
      BY <1>1, <2>2
  <2> QED
      BY <2>1, <2>2, <2>3, SeqEqual
<1>2. Len(h) \in Nat /\ Len(p) \in Nat /\ Len(s) \in Nat
    OBVIOUS
<1>3. CASE Len(s) < Len(h) + Len(p)
    BY <1>2, <1>3 DEF Body
<1>4. CASE Len(s) >= Len(h) + Len(p)
  <2>1. ~(Len(s) < Len(h) + Len(p))
      BY <1>2, <1>4
  <2>2. Body(s, Len(h), Len(p)) = Chunk(Len(h) + Len(p), p)
      BY <1>1, <1>4, <2>1, Zenon DEF Body
  <2> QED
      BY <2>1, <2>2
<1> QED
    BY <1>2, <1>3, <1>4

(* The length in front of a frame is the one that was written there.       *)
LEMMA LengthRead ==
    ASSUME NEW n \in Nat, n < U32Range, NEW t \in Seq(Byte), NEW s \in Seq(Byte),
           Agrees(s, U32(n) \o t), Len(s) >= 4
    PROVE  FromU32(s) = n
<1>1. PICK h \in Seq(Byte) : h = U32(n) /\ Len(h) = 4
    BY U32Type
<1>2. Agrees(s, h \o t)
    BY <1>1
<1>3. Len(h \o t) = 4 + Len(t) /\ \A i \in 1 .. 4 : (h \o t)[i] = h[i]
  <2>1. /\ Len(h \o t) = Len(h) + Len(t)
        /\ \A i \in 1 .. Len(h) : (h \o t)[i] = h[i]
      BY <1>1, HeadedFrame
  <2> QED
      BY <1>1, <2>1
<1>4. \A i \in 1 .. 4 : s[i] = h[i]
    BY <1>2, <1>3 DEF Agrees
<1> QED
    BY <1>1, <1>4, U32Inverse

(* What the limit allows in each codec.                                    *)
LEMMA Added ==
    ASSUME NEW payload \in Seq(Byte)
    PROVE  /\ TooLong("abridged", payload) <=> Len(payload) > kMaxMessageSize
           /\ TooLong("intermediate", payload) <=> Len(payload) > kMaxMessageSize
           /\ TooLong("padded", payload) <=> Len(payload) + (Last(payload) % 4) > kMaxMessageSize
           /\ TooLong("full", payload) <=> Len(payload) + 12 > kMaxMessageSize
BY DEF TooLong

(* The three outcomes of a read are told apart by their status.            *)
LEMMA Statuses ==
    /\ More # Invalid /\ More.status = "more" /\ Invalid.status = "invalid"
    /\ \A used, payload :
        /\ Chunk(used, payload) # More /\ Chunk(used, payload) # Invalid
        /\ Chunk(used, payload).status = "frame" /\ Chunk(used, payload).used = used
        /\ Chunk(used, payload).payload = payload
BY DEF More, Invalid, Chunk

(* IntermediateCodec::Read undoes its Write.                               *)
LEMMA IntermediateRead ==
    ASSUME NEW k, NEW p \in Seq(Byte), Writable("intermediate", p),
           NEW s \in Seq(Byte), Agrees(s, Framed("intermediate", k, p))
    PROVE  ReadsAs("intermediate", k, p, s)
<1>1. PICK n \in Nat : n = Len(p) /\ n \in 1 .. kMaxMessageSize /\ n < U32Range
    BY BaseFacts DEF Writable
<1>2. PICK h \in Seq(Byte) : h = U32(n) /\ Len(h) = 4
    BY U32Type
<1>3. Framed("intermediate", k, p) = h \o p
    BY <1>1, <1>2 DEF Framed
<1>4. Len(h \o p) = 4 + n /\ Agrees(s, h \o p)
  <2>1. Len(h \o p) = Len(h) + Len(p)
      BY <1>2, HeadedFrame
  <2> QED
      BY <1>1, <1>2, <1>3, <2>1, Zenon
<1>5. CASE Len(s) < 4
  <2>1. ReadFrame("intermediate", k, s) = More
      BY <1>5 DEF ReadFrame
  <2> QED
      BY <1>1, <1>3, <1>4, <1>5, <2>1, Statuses DEF ReadsAs
<1>6. CASE Len(s) >= 4
  <2>1. FromU32(s) = n
      BY <1>1, <1>2, <1>4, <1>6, LengthRead
  <2>2. ReadFrame("intermediate", k, s) = Body(s, 4, n)
      BY <1>1, <1>6, <2>1 DEF ReadFrame, ValidLength
  <2>3. /\ Len(s) < 4 + n => Body(s, 4, n) = More
        /\ Len(s) >= 4 + n => Body(s, 4, n) = Chunk(4 + n, p)
      BY <1>1, <1>2, <1>4, BodyRead
  <2> QED
      BY <1>1, <1>3, <1>4, <2>2, <2>3, Statuses DEF ReadsAs
<1> QED
    BY <1>5, <1>6

(* Concatenation is associative.                                           *)
LEMMA BytesAssociative ==
    ASSUME NEW a \in Seq(Byte), NEW b \in Seq(Byte), NEW c \in Seq(Byte)
    PROVE  (a \o b) \o c = a \o (b \o c)
BY ConcatAssociative

(* Rounding down to a multiple of four takes the padding off.              *)
LEMMA PaddingTrimmed ==
    ASSUME NEW n \in Nat, n % 4 = 0, NEW pad \in 0 .. 3
    PROVE  (n + pad) - ((n + pad) % 4) = n
OBVIOUS

(* The padded variant: Read drops the bytes that Write added.              *)
LEMMA PaddedRead ==
    ASSUME NEW k, NEW p \in Seq(Byte), Writable("padded", p),
           NEW s \in Seq(Byte), Agrees(s, Framed("padded", k, p))
    PROVE  ReadsAs("padded", k, p, s)
<1>1. PICK n \in Nat : n = Len(p) /\ n \in 1 .. kMaxMessageSize /\ n % 4 = 0
    BY BaseFacts DEF Writable
<1>2. PICK pad \in 0 .. 3 : pad = Last(p) % 4
  <2>1. Last(p) \in Nat
      BY <1>1, BaseFacts DEF Last, Byte
  <2> QED
      BY <2>1
<1>3. PICK tail \in Seq(Byte) : tail = [i \in 1 .. pad |-> i] /\ Len(tail) = pad
  <2>1. \A i \in 1 .. pad : i \in Byte
      BY <1>2, BaseFacts DEF Byte
  <2>2. [i \in 1 .. pad |-> i] \in Seq(Byte) /\ Len([i \in 1 .. pad |-> i]) = pad
      BY <1>2, <2>1
  <2> QED
      BY <2>2
<1>4. PICK body \in Seq(Byte) :
        /\ body = p \o tail /\ Len(body) = n + pad
        /\ \A i \in 1 .. n : body[i] = p[i]
  <2>1. p \o tail \in Seq(Byte) /\ Len(p \o tail) = Len(p) + Len(tail)
      BY <1>3, HeadedFrame
  <2>2. \A i \in 1 .. Len(p) : (p \o tail)[i] = p[i]
      BY <1>3, HeadedFrame
  <2> QED
      BY <1>1, <1>3, <2>1, <2>2
<1>5. PICK h \in Seq(Byte) : h = U32(n + pad) /\ Len(h) = 4
    BY <1>1, <1>2, U32Type
<1>6. Framed("padded", k, p) = h \o body
  <2>1. Framed("padded", k, p) = (h \o p) \o tail
      BY <1>1, <1>2, <1>3, <1>5 DEF Framed
  <2>2. (h \o p) \o tail = h \o (p \o tail)
      BY <1>3, <1>5, BytesAssociative
  <2> QED
      BY <1>4, <2>1, <2>2
<1>7. Len(h \o body) = 4 + (n + pad) /\ Agrees(s, h \o body) /\ n + pad \in Nat /\ n + pad < U32Range
  <2>1. n + pad \in Nat /\ n + pad < U32Range
      BY <1>1, <1>2, BaseFacts
  <2>2. Len(h \o body) = 4 + (n + pad)
    <3>1. Len(h \o body) = Len(h) + Len(body)
        BY <1>4, <1>5, HeadedFrame
    <3> QED
        BY <1>4, <1>5, <2>1, <3>1
  <2> QED
      BY <1>6, <2>1, <2>2
<1>8. TooLong("padded", p) <=> n + pad > kMaxMessageSize
    BY <1>1, <1>2, Added
<1>9. CASE Len(s) < 4
  <2>1. ReadFrame("padded", k, s) = More
      BY <1>9 DEF ReadFrame
  <2> QED
      BY <1>1, <1>2, <1>6, <1>7, <1>9, <2>1, Statuses DEF ReadsAs
<1>10. CASE Len(s) >= 4 /\ n + pad > kMaxMessageSize
  <2>1. FromU32(s) = n + pad
      BY <1>4, <1>5, <1>7, <1>10, LengthRead
  <2>2. ReadFrame("padded", k, s) = Invalid
      BY <1>7, <1>10, <2>1, BaseFacts DEF ReadFrame, ValidLength
  <2> QED
      BY <1>8, <1>10, <2>2, Statuses DEF ReadsAs
<1>11. CASE Len(s) >= 4 /\ ~(n + pad > kMaxMessageSize)
  <2>1. FromU32(s) = n + pad
      BY <1>4, <1>5, <1>7, <1>11, LengthRead
  <2>2. ReadFrame("padded", k, s) = Trimmed(Body(s, 4, n + pad))
    <3>1. n + pad \in 1 .. kMaxMessageSize
        BY <1>1, <1>2, <1>7, <1>11, BaseFacts
    <3> QED
        BY <1>11, <2>1, <3>1 DEF ReadFrame, ValidLength
  <2>3. /\ Len(s) < 4 + (n + pad) => Body(s, 4, n + pad) = More
        /\ Len(s) >= 4 + (n + pad) => Body(s, 4, n + pad) = Chunk(4 + (n + pad), body)
    <3>1. /\ Len(s) < Len(h) + Len(body) => Body(s, Len(h), Len(body)) = More
          /\ Len(s) >= Len(h) + Len(body)
                => Body(s, Len(h), Len(body)) = Chunk(Len(h) + Len(body), body)
        BY <1>4, <1>5, <1>7, BodyRead, Zenon
    <3> QED
        BY <1>4, <1>5, <3>1
  <2>4. Trimmed(More) = More
      BY Statuses DEF Trimmed
  <2>5. Trimmed(Chunk(4 + (n + pad), body)) = Chunk(4 + (n + pad), p)
    <3>1. (n + pad) - ((n + pad) % 4) = n
        BY <1>1, <1>2, PaddingTrimmed
    <3>2. SubSeq(body, 1, n) = p
      <4>1. PICK t : t = SubSeq(body, 1, n)
          OBVIOUS
      <4>2. t \in Seq(Byte) /\ Len(t) = n /\ \A i \in 1 .. n : t[i] = body[i]
          BY <1>4, <4>1
      <4> QED
          BY <1>1, <1>4, <4>1, <4>2, SeqEqual
    <3> QED
        BY <1>4, <3>1, <3>2, Statuses DEF Trimmed, Chunk
  <2> QED
      BY <1>1, <1>2, <1>6, <1>7, <2>2, <2>3, <2>4, <2>5, Statuses DEF ReadsAs
<1> QED
    BY <1>9, <1>10, <1>11

(* The n elements of a sequence after its first m.                         *)
LEMMA Part ==
    ASSUME NEW T, NEW s \in Seq(T), NEW m \in Nat, NEW n \in Nat, m + n <= Len(s)
    PROVE  /\ SubSeq(s, m + 1, m + n) \in Seq(T) /\ Len(SubSeq(s, m + 1, m + n)) = n
           /\ \A i \in 1 .. n : SubSeq(s, m + 1, m + n)[i] = s[m + i]
<1>1. m + 1 \in Int /\ m + n \in Int /\ (m + n) - (m + 1) + 1 = n
    OBVIOUS
<1>2. \A i \in m + 1 .. m + n : s[i] \in T
  <2>1. \A i \in m + 1 .. m + n : i \in 1 .. Len(s)
      OBVIOUS
  <2> QED
      BY <2>1
<1>3. /\ SubSeq(s, m + 1, m + n) \in Seq(T)
      /\ Len(SubSeq(s, m + 1, m + n)) = IF m + 1 <= m + n THEN (m + n) - (m + 1) + 1 ELSE 0
      /\ \A i \in 1 .. (m + n) - (m + 1) + 1 : SubSeq(s, m + 1, m + n)[i] = s[(m + 1) + i - 1]
  <2>1. PICK a \in Int, b \in Int : a = m + 1 /\ b = m + n
      BY <1>1, Zenon
  <2>2. \A i \in a .. b : s[i] \in T
      BY <1>2, <2>1, Zenon
  <2>3. /\ SubSeq(s, a, b) \in Seq(T)
        /\ Len(SubSeq(s, a, b)) = IF a <= b THEN b - a + 1 ELSE 0
        /\ \A i \in 1 .. b - a + 1 : SubSeq(s, a, b)[i] = s[a + i - 1]
      BY <2>2, SubSeqProperties
  <2> QED
      BY <2>1, <2>3, Zenon
<1>4. ~(m + 1 <= m + n) => n = 0
    OBVIOUS
<1>5. \A i \in 1 .. n : (m + 1) + i - 1 = m + i
    OBVIOUS
<1>6. Len(SubSeq(s, m + 1, m + n)) = n
    BY <1>1, <1>3, <1>4, Zenon
<1>7. \A i \in 1 .. n : SubSeq(s, m + 1, m + n)[i] = s[m + i]
    BY <1>1, <1>3, <1>5, Zenon
<1> QED
    BY <1>3, <1>6, <1>7, Zenon

(* The first m elements of a sequence.                                     *)
LEMMA Beginning ==
    ASSUME NEW T, NEW s \in Seq(T), NEW m \in Nat, m <= Len(s)
    PROVE  /\ SubSeq(s, 1, m) \in Seq(T) /\ Len(SubSeq(s, 1, m)) = m
           /\ \A i \in 1 .. m : SubSeq(s, 1, m)[i] = s[i]
<1>1. 0 \in Nat /\ 0 + m <= Len(s) /\ 0 + 1 = 1 /\ 0 + m = m /\ \A i \in 1 .. m : 0 + i = i
    OBVIOUS
<1>2. /\ SubSeq(s, 0 + 1, 0 + m) \in Seq(T) /\ Len(SubSeq(s, 0 + 1, 0 + m)) = m
      /\ \A i \in 1 .. m : SubSeq(s, 0 + 1, 0 + m)[i] = s[0 + i]
    BY <1>1, Part
<1> QED
    BY <1>1, <1>2, Zenon

(* The part of a sequence at some place, when its elements are known.      *)
LEMMA Slice ==
    ASSUME NEW s \in Seq(Byte), NEW t \in Seq(Byte), NEW m \in Nat, m + Len(t) <= Len(s),
           \A i \in 1 .. Len(t) : s[m + i] = t[i]
    PROVE  SubSeq(s, m + 1, m + Len(t)) = t
<1>1. Len(t) \in Nat
    OBVIOUS
<1>2. /\ SubSeq(s, m + 1, m + Len(t)) \in Seq(Byte) /\ Len(SubSeq(s, m + 1, m + Len(t))) = Len(t)
      /\ \A i \in 1 .. Len(t) : SubSeq(s, m + 1, m + Len(t))[i] = s[m + i]
    BY <1>1, Part
<1>3. PICK u \in Seq(Byte) :
        /\ u = SubSeq(s, m + 1, m + Len(t)) /\ Len(u) = Len(t)
        /\ \A i \in 1 .. Len(t) : u[i] = s[m + i]
    BY <1>2, Zenon
<1>4. \A i \in 1 .. Len(u) : u[i] = t[i]
    BY <1>3, Zenon
<1>5. u = t
    BY <1>3, <1>4, SeqEqual
<1> QED
    BY <1>3, <1>5, Zenon

(* A checksum is four bytes.                                               *)
LEMMA Crc32Type ==
    ASSUME NEW s \in Seq(Byte), Len(s) >= 5
    PROVE  Crc32(s) \in Seq(Byte) /\ Len(Crc32(s)) = 4
<1>1. s[5] \in Nat /\ Last(s) \in Nat /\ Len(s) \in Nat
    BY BaseFacts DEF Last, Byte
<1>2. Len(s) + s[5] + Last(s) \in Nat
    BY <1>1
<1> QED
    BY <1>2, U32Type DEF Crc32

(* The layout of a Full frame: length, sequence number, payload, and the   *)
(* checksum of those.                                                      *)
LEMMA FullFrame ==
    ASSUME NEW k \in Nat, NEW p \in Seq(Byte), Len(p) >= 1,
           NEW n \in Nat, n = Len(p)
    PROVE  \E body \in Seq(Byte) :
             /\ Len(body) = 8 + n
             /\ \A i \in 1 .. 4 : body[i] = U32(12 + n)[i]
             /\ \A i \in 1 .. 4 : body[4 + i] = U32(k)[i]
             /\ \A i \in 1 .. n : body[8 + i] = p[i]
             /\ Framed("full", k, p) = body \o Crc32(body)
<1>1. PICK g \in Seq(Byte) : g = U32(12 + n) /\ Len(g) = 4
    BY U32Type
<1>2. PICK h \in Seq(Byte) : h = U32(k) /\ Len(h) = 4
    BY U32Type
<1>3. PICK gh \in Seq(Byte) : gh = g \o h /\ Len(gh) = 8 /\ (\A i \in 1 .. 4 : gh[i] = g[i])
                              /\ (\A i \in 1 .. 4 : gh[4 + i] = h[i])
  <2>1. /\ g \o h \in Seq(Byte) /\ Len(g \o h) = Len(g) + Len(h)
        /\ \A i \in 1 .. Len(g) : (g \o h)[i] = g[i]
        /\ \A i \in 1 .. Len(h) : (g \o h)[Len(g) + i] = h[i]
      BY <1>1, <1>2, HeadedFrame
  <2>2. Len(g) + Len(h) = 8
    <3>1. Len(g) = 4
        BY <1>1, Zenon
    <3>2. Len(h) = 4
        BY <1>2, Zenon
    <3> QED
        BY <3>1, <3>2
  <2>3. ASSUME NEW i \in 1 .. 4 PROVE (g \o h)[i] = g[i] /\ (g \o h)[4 + i] = h[i]
      BY <1>1, <1>2, <2>1
  <2> QED
      BY <2>1, <2>2, <2>3
<1>4. PICK body \in Seq(Byte) : /\ body = gh \o p /\ Len(body) = 8 + n
                                /\ \A i \in 1 .. 8 : body[i] = gh[i]
                                /\ \A i \in 1 .. n : body[8 + i] = p[i]
  <2>1. /\ gh \o p \in Seq(Byte) /\ Len(gh \o p) = Len(gh) + Len(p)
        /\ \A i \in 1 .. Len(gh) : (gh \o p)[i] = gh[i]
        /\ \A i \in 1 .. Len(p) : (gh \o p)[Len(gh) + i] = p[i]
      BY <1>3, HeadedFrame
  <2>2. Len(gh) + Len(p) = 8 + n
      BY <1>3
  <2>3. ASSUME NEW i \in 1 .. 8 PROVE (gh \o p)[i] = gh[i]
      BY <1>3, <2>1
  <2>4. ASSUME NEW i \in 1 .. n PROVE (gh \o p)[8 + i] = p[i]
      BY <1>3, <2>1
  <2> QED
      BY <2>1, <2>2, <2>3, <2>4
<1>5. Framed("full", k, p) = body \o Crc32(body)
  <2>1. 4 + 4 + Len(p) + 4 = 12 + n
      OBVIOUS
  <2> QED
      BY <1>1, <1>2, <1>3, <1>4, <2>1 DEF Framed
<1>6. \A i \in 1 .. 4 : body[i] = U32(12 + n)[i] /\ body[4 + i] = U32(k)[i]
    BY <1>1, <1>2, <1>3, <1>4, SMTT(30)
<1> QED
    BY <1>4, <1>5, <1>6

(* FullCodec::Read undoes its Write for the sequence number it expects.    *)
LEMMA FullRead ==
    ASSUME NEW k \in Nat, k < U32Range \div 2, NEW p \in Seq(Byte), Writable("full", p),
           NEW s \in Seq(Byte), Agrees(s, Framed("full", k, p))
    PROVE  ReadsAs("full", k, p, s)
<1>1. PICK n \in Nat : n = Len(p) /\ n \in 1 .. kMaxMessageSize /\ 12 + n < U32Range /\ 12 + n \in Nat
    BY BaseFacts DEF Writable
<1>2. PICK body \in Seq(Byte) :
             /\ Len(body) = 8 + n
             /\ \A i \in 1 .. 4 : body[i] = U32(12 + n)[i]
             /\ \A i \in 1 .. 4 : body[4 + i] = U32(k)[i]
             /\ \A i \in 1 .. n : body[8 + i] = p[i]
             /\ Framed("full", k, p) = body \o Crc32(body)
  <2>1. Len(p) >= 1
      BY <1>1
  <2> QED
      BY <1>1, <2>1, FullFrame
<1>3. PICK crc \in Seq(Byte) : crc = Crc32(body) /\ Len(crc) = 4
    BY <1>1, <1>2, Crc32Type
<1>4. PICK f \in Seq(Byte) :
             /\ f = Framed("full", k, p) /\ Len(f) = 12 + n
             /\ \A i \in 1 .. 8 + n : f[i] = body[i]
             /\ \A i \in 1 .. 4 : f[8 + n + i] = crc[i]
  <2>1. /\ body \o crc \in Seq(Byte) /\ Len(body \o crc) = Len(body) + Len(crc)
        /\ \A i \in 1 .. Len(body) : (body \o crc)[i] = body[i]
        /\ \A i \in 1 .. Len(crc) : (body \o crc)[Len(body) + i] = crc[i]
      BY <1>2, <1>3, HeadedFrame
  <2>2. Len(body) + Len(crc) = 12 + n
      BY <1>2, <1>3
  <2>3. ASSUME NEW i \in 1 .. 8 + n PROVE (body \o crc)[i] = body[i]
      BY <1>2, <2>1
  <2>4. ASSUME NEW i \in 1 .. 4 PROVE (body \o crc)[8 + n + i] = crc[i]
      BY <1>2, <1>3, <2>1
  <2>5. Framed("full", k, p) = body \o crc
      BY <1>2, <1>3
  <2> QED
      BY <2>1, <2>2, <2>3, <2>4, <2>5
<1>5. \A i \in 1 .. 12 + n : i <= Len(s) => s[i] = f[i]
    BY <1>4 DEF Agrees
<1>6. TooLong("full", p) <=> 12 + n > kMaxMessageSize
    BY <1>1, Added
<1>7. CASE Len(s) < 4
  <2>1. ReadFrame("full", k, s) = More
      BY <1>7 DEF ReadFrame
  <2> QED
      BY <1>1, <1>4, <1>7, <2>1, Statuses DEF ReadsAs
<1>8. CASE Len(s) >= 4
  <2>1. FromU32(s) = 12 + n
    <3>1. ASSUME NEW i \in 1 .. 4 PROVE s[i] = U32(12 + n)[i]
      <4>1. i \in 1 .. 12 + n /\ i \in 1 .. 8 + n /\ i <= Len(s)
          BY <1>1, <1>8
      <4> QED
          BY <1>2, <1>4, <1>5, <4>1
    <3> QED
        BY <1>1, <3>1, U32Inverse
  <2>2. ReadFrame("full", k, s) = ReadFull(s, k)
      BY <1>8 DEF ReadFrame
  <2>3. CASE 12 + n > kMaxMessageSize
    <3>1. ReadFull(s, k) = Invalid
        BY <1>1, <2>1, <2>3, BaseFacts DEF ReadFull, ValidLength
    <3> QED
        BY <1>6, <2>2, <2>3, <3>1, Statuses DEF ReadsAs
  <2>4. CASE ~(12 + n > kMaxMessageSize) /\ Len(s) < 12 + n
    <3>1. ReadFull(s, k) = More
        BY <1>1, <2>1, <2>4, BaseFacts DEF ReadFull, ValidLength
    <3> QED
        BY <1>1, <1>4, <2>2, <2>4, <3>1, Statuses DEF ReadsAs
  <2>5. CASE ~(12 + n > kMaxMessageSize) /\ Len(s) >= 12 + n
    <3>1. \A i \in 1 .. 12 + n : s[i] = f[i]
        BY <1>1, <1>5, <2>5
    <3>2. SubSeq(s, 1, 8 + n) = body
      <4>1. ASSUME NEW i \in 1 .. Len(body) PROVE s[0 + i] = body[i]
        <5>1. 0 + i = i /\ i \in 1 .. 12 + n /\ i \in 1 .. 8 + n
            BY <1>1, <1>2
        <5> QED
            BY <1>4, <3>1, <5>1
      <4>2. SubSeq(s, 0 + 1, 0 + Len(body)) = body
        <5>1. 0 \in Nat /\ 0 + Len(body) <= Len(s) /\ body \in Seq(Byte)
            BY <1>1, <1>2, <2>5
        <5> QED
            BY <4>1, <5>1, Slice, Zenon
      <4> QED
          BY <1>1, <1>2, <4>2
    <3>3. SubSeq(s, (8 + n) + 1, (8 + n) + 4) = crc
      <4>1. ASSUME NEW i \in 1 .. Len(crc) PROVE s[8 + n + i] = crc[i]
        <5>1. i \in 1 .. 4 /\ 8 + n + i \in 1 .. 12 + n
            BY <1>1, <1>3
        <5> QED
            BY <1>4, <3>1, <5>1
      <4>2. 8 + n \in Nat /\ (8 + n) + Len(crc) <= Len(s) /\ Len(crc) = 4
          BY <1>1, <1>3, <2>5
      <4>3. SubSeq(s, (8 + n) + 1, (8 + n) + Len(crc)) = crc
        <5>1. crc \in Seq(Byte)
            BY <1>3, Zenon
        <5> QED
            BY <4>1, <4>2, <5>1, Slice, Zenon
      <4> QED
          BY <4>2, <4>3, Zenon
    <3>4. SubSeq(s, 8 + 1, 8 + n) = p
      <4>1. ASSUME NEW i \in 1 .. Len(p) PROVE s[8 + i] = p[i]
        <5>1. i \in 1 .. n /\ 8 + i \in 1 .. 12 + n /\ 8 + i \in 1 .. 8 + n
            BY <1>1
        <5> QED
            BY <1>2, <1>4, <3>1, <5>1
      <4> QED
          BY <1>1, <2>5, <4>1, Slice
    <3>5. Int32(FromU32(SubSeq(s, 5, 8))) = k
      <4>1. PICK u : u = SubSeq(s, 5, 8)
          OBVIOUS
      <4>2. \A i \in 1 .. 4 : u[i] = s[4 + i]
          BY <1>1, <2>5, <4>1
      <4>3. ASSUME NEW i \in 1 .. 4 PROVE u[i] = U32(k)[i]
        <5>1. 4 + i \in 1 .. 12 + n /\ 4 + i \in 1 .. 8 + n
            BY <1>1
        <5> QED
          <6>1. u[i] = f[4 + i]
              BY <3>1, <4>2, <5>1, Zenon
          <6>2. f[4 + i] = body[4 + i] /\ body[4 + i] = U32(k)[i]
              BY <1>2, <1>4, <5>1
          <6> QED
              BY <6>1, <6>2, Zenon
      <4>4. FromU32(u) = k
        <5>1. k < U32Range
          <6>1. PICK h \in Nat, u32 \in Nat : h = U32Range \div 2 /\ u32 = U32Range /\ h <= u32
              BY BaseFacts
          <6>2. k < h
              BY <6>1, Zenon
          <6>3. k < u32
              BY <6>1, <6>2
          <6> QED
              BY <6>1, <6>3, Zenon
        <5> QED
            BY <4>3, <5>1, U32Inverse, Zenon
      <4> QED
          BY <4>1, <4>4 DEF Int32
    <3>6. ReadFull(s, k) = Chunk(12 + n, p)
      <4>1. /\ (12 + n) - 3 = (8 + n) + 1 /\ (8 + n) + 4 = 12 + n /\ (12 + n) - 4 = 8 + n
            /\ 8 + 1 = 9
          BY <1>1
      <4>2. /\ SubSeq(s, (12 + n) - 3, 12 + n) = Crc32(SubSeq(s, 1, (12 + n) - 4))
            /\ SubSeq(s, 9, (12 + n) - 4) = p
          BY <1>3, <3>2, <3>3, <3>4, <4>1, Zenon
      <4>3. ValidLength(12 + n) /\ ~(12 + n < 12) /\ ~(Len(s) < 12 + n)
          BY <1>1, <2>5, BaseFacts DEF ValidLength
      <4> QED
          BY <2>1, <3>5, <4>2, <4>3, Zenon DEF ReadFull
    <3> QED
        BY <1>1, <1>4, <2>2, <2>5, <3>6, Statuses DEF ReadsAs
  <2> QED
      BY <1>1, <2>3, <2>4, <2>5
<1> QED
    BY <1>7, <1>8

(* The remainder of a number below the modulus.                            *)
LEMMA SmallerMod ==
    ASSUME NEW m \in Nat, NEW x \in Nat, x < m
    PROVE  x % m = x
OBVIOUS

(* Three bytes give back a number of words.                                *)
LEMMA U24Inverse ==
    ASSUME NEW w \in Nat, w < Base * Base * Base
    PROVE  (w % Base) + Base * ((High(w) % Base) + Base * (High(High(w)) % Base)) = w
BY BaseFacts DEF High

(* The byte 0x7f, which has no bit for a quick ack.                        *)
LEMMA LongWordsFacts ==
    /\ LongWords \in Byte /\ LongWords \in Nat /\ LongWords >= 3
    /\ Base \div 2 = LongWords + 1
    /\ \A x \in 0 .. LongWords : x % (Base \div 2) = x
<1>1. /\ LongWords \in Byte /\ LongWords \in Nat /\ LongWords >= 3
      /\ Base \div 2 = LongWords + 1
    BY BaseFacts DEF LongWords, Byte
<1>2. ASSUME NEW x \in 0 .. LongWords PROVE x % (Base \div 2) = x
  <2>1. x \in Nat /\ LongWords + 1 \in Nat /\ x < LongWords + 1
      BY <1>1
  <2> QED
      BY <1>1, <2>1, SmallerMod
<1> QED
    BY <1>1, <1>2

(* AbridgedCodec::Read undoes its Write, for both forms of the header.     *)
LEMMA AbridgedRead ==
    ASSUME NEW k, NEW p \in Seq(Byte), Writable("abridged", p),
           NEW s \in Seq(Byte), Agrees(s, Framed("abridged", k, p))
    PROVE  ReadsAs("abridged", k, p, s)
<1>1. PICK n \in Nat : n = Len(p) /\ n \in 1 .. kMaxMessageSize /\ n % 4 = 0
    BY BaseFacts DEF Writable
<1>2. PICK words \in Nat : words = n \div 4 /\ words * 4 = n
    BY <1>1
<1>3. LongWords \in Byte /\ LongWords \in Nat /\ LongWords % (Base \div 2) = LongWords
    BY LongWordsFacts
<1>4. CASE words < LongWords
  <2>1. PICK h \in Seq(Byte) : h = <<words>> /\ Len(h) = 1 /\ h[1] = words
    <3>1. words \in Byte
        BY <1>2, <1>3, <1>4, BaseFacts DEF Byte
    <3>2. <<words>> \in Seq(Byte)
        BY <3>1
    <3>3. Len(<<words>>) = 1 /\ <<words>>[1] = words
        OBVIOUS
    <3> QED
        BY <3>2, <3>3, Zenon
  <2>2. Framed("abridged", k, p) = h \o p
      BY <1>1, <1>2, <1>4, <2>1 DEF Framed, AbridgedHeader
  <2>3. Len(h \o p) = 1 + n /\ Agrees(s, h \o p) /\ (h \o p)[1] = words
    <3>1. /\ Len(h \o p) = Len(h) + Len(p)
          /\ \A i \in 1 .. Len(h) : (h \o p)[i] = h[i]
        BY <2>1, HeadedFrame
    <3>2. Len(h \o p) = 1 + n
        BY <1>1, <2>1, <3>1
    <3>3. (h \o p)[1] = words
        BY <2>1, <3>1
    <3> QED
        BY <2>2, <3>2, <3>3
  <2>4. CASE s = <<>>
    <3>1. ReadFrame("abridged", k, s) = More
        BY <2>4 DEF ReadFrame
    <3> QED
        BY <1>1, <2>2, <2>3, <2>4, <3>1, Statuses DEF ReadsAs
  <2>5. CASE s # <<>>
    <3>1. s[1] = words
        BY <1>1, <2>3, <2>5 DEF Agrees
    <3>2. words % (Base \div 2) = words
        BY <1>2, <1>3, <1>4, LongWordsFacts
    <3>3. AbridgedLength(s) = <<1, words * 4>>
        BY <1>4, <3>1, <3>2 DEF AbridgedLength
    <3>4. ReadFrame("abridged", k, s) = Body(s, 1, n)
        BY <1>1, <1>2, <2>5, <3>3 DEF ReadFrame, ValidLength
    <3>5. /\ Len(s) < Len(h) + Len(p) => Body(s, Len(h), Len(p)) = More
          /\ Len(s) >= Len(h) + Len(p)
                => Body(s, Len(h), Len(p)) = Chunk(Len(h) + Len(p), p)
        BY <2>1, <2>3, BodyRead, Zenon
    <3> QED
        BY <1>1, <2>1, <2>2, <2>3, <3>4, <3>5, Statuses DEF ReadsAs
  <2> QED
      BY <2>4, <2>5
<1>5. CASE ~(words < LongWords)
  <2>1. PICK h \in Seq(Byte) :
            /\ h = <<LongWords, words % Base, High(words) % Base, High(High(words)) % Base>>
            /\ Len(h) = 4 /\ h[1] = LongWords
            /\ h[2] = words % Base /\ h[3] = High(words) % Base
            /\ h[4] = High(High(words)) % Base
    <3>1. words % Base \in Byte /\ High(words) % Base \in Byte /\ High(High(words)) % Base \in Byte
        BY DivMod
    <3>2. LongWords \in Byte
        BY <1>3
    <3>3. PICK a \in Byte, b \in Byte, c \in Byte, d \in Byte :
            a = LongWords /\ b = words % Base /\ c = High(words) % Base /\ d = High(High(words)) % Base
        BY <3>1, <3>2, Zenon
    <3>4. <<a, b, c, d>> \in Seq(Byte)
        BY <3>3
    <3>5. /\ Len(<<a, b, c, d>>) = 4 /\ <<a, b, c, d>>[1] = a /\ <<a, b, c, d>>[2] = b
          /\ <<a, b, c, d>>[3] = c /\ <<a, b, c, d>>[4] = d
        OBVIOUS
    <3> QED
        BY <3>3, <3>4, <3>5, Zenon
  <2>2. Framed("abridged", k, p) = h \o p
      BY <1>1, <1>2, <1>5, <2>1 DEF Framed, AbridgedHeader
  <2>3. Len(h \o p) = 4 + n /\ Agrees(s, h \o p) /\ \A i \in 1 .. 4 : (h \o p)[i] = h[i]
    <3>1. /\ Len(h \o p) = Len(h) + Len(p)
          /\ \A i \in 1 .. Len(h) : (h \o p)[i] = h[i]
        BY <2>1, HeadedFrame
    <3> QED
        BY <1>1, <2>1, <2>2, <3>1
  <2>4. \A i \in 1 .. 4 : i <= Len(s) => s[i] = h[i]
      BY <1>1, <2>3 DEF Agrees
  <2>5. CASE s = <<>>
    <3>1. ReadFrame("abridged", k, s) = More
        BY <2>5 DEF ReadFrame
    <3> QED
        BY <1>1, <2>2, <2>3, <2>5, <3>1, Statuses DEF ReadsAs
  <2>6. CASE s # <<>> /\ Len(s) < 4
    <3>1. s[1] = LongWords
        BY <2>1, <2>4, <2>6
    <3>2. AbridgedLength(s) = <<>>
      <4>1. ~(s[1] % (Base \div 2) < LongWords)
          BY <1>3, <3>1
      <4> QED
          BY <2>6, <4>1, Zenon DEF AbridgedLength
    <3>3. ReadFrame("abridged", k, s) = More
        BY <2>6, <3>2 DEF ReadFrame
    <3> QED
        BY <1>1, <2>2, <2>3, <2>6, <3>3, Statuses DEF ReadsAs
  <2>7. CASE Len(s) >= 4
    <3>1. /\ s[1] = LongWords /\ s[2] = words % Base /\ s[3] = High(words) % Base
          /\ s[4] = High(High(words)) % Base
        BY <2>1, <2>4, <2>7
    <3>2. s[2] + Base * (s[3] + Base * s[4]) = words
      <4>1. words < Base * Base * Base
          BY <1>1, <1>2, TransportConstants
      <4> QED
          BY <3>1, <4>1, U24Inverse
    <3>3. AbridgedLength(s) = <<4, words * 4>>
      <4>1. ~(s[1] % (Base \div 2) < LongWords)
          BY <1>3, <3>1
      <4>2. ~(Len(s) < 4)
          BY <2>7
      <4> QED
          BY <1>5, <3>2, <4>1, <4>2, Zenon DEF AbridgedLength
    <3>4. ReadFrame("abridged", k, s) = Body(s, 4, n)
        BY <1>1, <1>2, <2>7, <3>3 DEF ReadFrame, ValidLength
    <3>5. /\ Len(s) < Len(h) + Len(p) => Body(s, Len(h), Len(p)) = More
          /\ Len(s) >= Len(h) + Len(p)
                => Body(s, Len(h), Len(p)) = Chunk(Len(h) + Len(p), p)
        BY <2>1, <2>3, BodyRead, Zenon
    <3> QED
        BY <1>1, <2>1, <2>2, <2>3, <3>4, <3>5, Statuses DEF ReadsAs
  <2> QED
      BY <2>5, <2>6, <2>7
<1> QED
    BY <1>4, <1>5

(* Every codec reads what it wrote: of the bytes of a frame, or a part of  *)
(* them, or more of them, Read takes exactly the frame and returns exactly *)
(* the payload, or waits for the rest of it, or refuses a frame longer     *)
(* than the limit, and nothing else, whatever follows the frame.           *)
THEOREM WhatIsWrittenIsRead ==
    ASSUME NEW codec \in Codecs, NEW seq_no \in Nat, seq_no < U32Range \div 2,
           NEW payload \in Seq(Byte), Writable(codec, payload),
           NEW s \in Seq(Byte), Agrees(s, Framed(codec, seq_no, payload))
    PROVE  ReadsAs(codec, seq_no, payload, s)
<1>1. CASE codec = "abridged"
    BY <1>1, AbridgedRead
<1>2. CASE codec = "intermediate"
    BY <1>2, IntermediateRead
<1>3. CASE codec = "padded"
    BY <1>3, PaddedRead
<1>4. CASE codec = "full"
    BY <1>4, FullRead
<1> QED
    BY <1>1, <1>2, <1>3, <1>4 DEF Codecs

-----------------------------------------------------------------------------
(* The keystream, and DetectTransport on what a client announces.          *)

(* A byte of the keystream.                                                *)
LEMMA PadType ==
    ASSUME NEW e, NEW pos \in Nat
    PROVE  Pad(e, pos) \in Byte
<1>1. pos * (pos + 1) \in Nat
    OBVIOUS
<1>2. (pos * (pos + 1)) \div 2 \in Nat
    BY <1>1
<1>3. ((pos * (pos + 1)) \div 2) + (IF e = "client" THEN 0 ELSE 1) \in Nat
    BY <1>2
<1> QED
    BY <1>3, DivMod DEF Pad

(* A sequence of bytes given by a function.                                *)
LEMMA BytesBuilt ==
    ASSUME NEW n \in Nat, NEW f \in [1 .. n -> Byte]
    PROVE  <<>> \o f \in Seq(Byte) /\ Len(<<>> \o f) = n /\ \A i \in 1 .. n : (<<>> \o f)[i] = f[i]
<1>1. f \in Seq(Byte) /\ Len(f) = n
    OBVIOUS
<1>2. <<>> \o f = f
    BY <1>1, ConcatEmptySeq
<1> QED
    BY <1>1, <1>2

(* Encryption works byte by byte.                                          *)
LEMMA EncryptBytes ==
    ASSUME NEW e, NEW pos \in Nat, NEW s \in Seq(Byte)
    PROVE  /\ Encrypt(e, pos, s) \in Seq(Byte) /\ Len(Encrypt(e, pos, s)) = Len(s)
           /\ \A i \in 1 .. Len(s) : Encrypt(e, pos, s)[i] = (s[i] + Pad(e, pos + i)) % Base
<1>1. PICK f : f = [i \in 1 .. Len(s) |-> (s[i] + Pad(e, pos + i)) % Base]
    OBVIOUS
<1>2. ASSUME NEW i \in 1 .. Len(s) PROVE (s[i] + Pad(e, pos + i)) % Base \in Byte
  <2>1. s[i] \in Byte /\ Pad(e, pos + i) \in Byte
      BY PadType
  <2> QED
      BY <2>1, CipherInverse
<1>3. f \in [1 .. Len(s) -> Byte]
    BY <1>1, <1>2
<1>4. Encrypt(e, pos, s) = <<>> \o f
    BY <1>1 DEF Encrypt
<1>5. PICK t \in Seq(Byte) : t = <<>> \o f /\ Len(t) = Len(s) /\ \A i \in 1 .. Len(s) : t[i] = f[i]
    BY <1>3, BytesBuilt
<1>6. \A i \in 1 .. Len(s) : f[i] = (s[i] + Pad(e, pos + i)) % Base
    BY <1>1
<1> QED
    BY <1>4, <1>5, <1>6

(* Decryption works byte by byte.                                          *)
LEMMA DecryptBytes ==
    ASSUME NEW e, NEW pos \in Nat, NEW s \in Seq(Byte)
    PROVE  /\ Decrypt(e, pos, s) \in Seq(Byte) /\ Len(Decrypt(e, pos, s)) = Len(s)
           /\ \A i \in 1 .. Len(s) : Decrypt(e, pos, s)[i] = (s[i] + Base - Pad(e, pos + i)) % Base
<1>1. PICK f : f = [i \in 1 .. Len(s) |-> (s[i] + Base - Pad(e, pos + i)) % Base]
    OBVIOUS
<1>2. ASSUME NEW i \in 1 .. Len(s) PROVE (s[i] + Base - Pad(e, pos + i)) % Base \in Byte
  <2>1. s[i] \in Byte /\ Pad(e, pos + i) \in Byte
      BY PadType
  <2>2. s[i] + Base - Pad(e, pos + i) \in Nat
      BY <2>1, BaseFacts DEF Byte
  <2> QED
      BY <2>2, DivMod
<1>3. f \in [1 .. Len(s) -> Byte]
    BY <1>1, <1>2
<1>4. Decrypt(e, pos, s) = <<>> \o f
    BY <1>1 DEF Decrypt
<1>5. PICK t \in Seq(Byte) : t = <<>> \o f /\ Len(t) = Len(s) /\ \A i \in 1 .. Len(s) : t[i] = f[i]
    BY <1>3, BytesBuilt
<1>6. \A i \in 1 .. Len(s) : f[i] = (s[i] + Base - Pad(e, pos + i)) % Base
    BY <1>1
<1> QED
    BY <1>4, <1>5, <1>6

(* A tag is a codec's marker four times.                                   *)
LEMMA TagBytes ==
    ASSUME NEW codec \in Codecs \ {"full"}
    PROVE  /\ Tag(codec) \in Seq(Byte) /\ Len(Tag(codec)) = 4
           /\ Marker(codec) \in Byte
           /\ \A i \in 1 .. 4 : Tag(codec)[i] = Marker(codec)
<1>1. Marker(codec) \in Byte
    BY BaseFacts DEF Marker, Codecs, AbridgedStart, Byte
<1>2. PICK m \in Byte : m = Marker(codec)
    BY <1>1
<1>3. [i \in 1 .. 4 |-> m] \in Seq(Byte) /\ Len([i \in 1 .. 4 |-> m]) = 4
    BY <1>2
<1> QED
    BY <1>2, <1>3 DEF Tag

(* The markers of the codecs.                                              *)
LEMMA MarkersDiffer ==
    /\ Marker("abridged") = Base - 1 /\ Marker("intermediate") = Base - 2
    /\ Marker("padded") = Base - 3 /\ AbridgedStart = Base - 1
BY DEF Marker, AbridgedStart

(* The first four bytes.                                                   *)
LEMMA FirstFour ==
    ASSUME NEW s \in Seq(Byte), Len(s) >= 4
    PROVE  /\ SubSeq(s, 1, 4) \in Seq(Byte) /\ Len(SubSeq(s, 1, 4)) = 4
           /\ \A i \in 1 .. 4 : SubSeq(s, 1, 4)[i] = s[i]
<1>1. 4 \in Nat /\ 4 <= Len(s)
    OBVIOUS
<1> QED
    BY <1>1, Beginning, Zenon

(* A tag is recognised by its bytes.                                       *)
LEMMA TagIs ==
    ASSUME NEW codec \in Codecs \ {"full"}, NEW t \in Seq(Byte), Len(t) = 4
    PROVE  t = Tag(codec) <=> \A i \in 1 .. 4 : t[i] = Marker(codec)
<1>1. PICK u \in Seq(Byte) : u = Tag(codec) /\ Len(u) = 4 /\ \A i \in 1 .. 4 : u[i] = Marker(codec)
    BY TagBytes
<1>2. (\A i \in 1 .. 4 : t[i] = Marker(codec)) => t = u
    BY <1>1, SeqEqual
<1> QED
    BY <1>1, <1>2

(* What the reserved beginnings have in common.                            *)
LEMMA ReservedBytes ==
    ASSUME NEW t, t \in Reserved
    PROVE  t[2] \in {3, 4} /\ t[3] \in {2, 3} /\ t[4] \in {1, 2}
BY DEF Reserved

(* An obfuscated2 init: a start that no other transport has, and the tag   *)
(* encrypted at its place in the keystream.                                *)
LEMMA InitBytes ==
    ASSUME NEW codec \in Codecs \ {"full"}
    PROVE  LET init == ObfuscatedInit(codec) IN
           /\ init \in Seq(Byte) /\ Len(init) = InitLen
           /\ init[1] = 1 /\ init[2] = 2 /\ init[7] = 1
           /\ \A i \in 1 .. 4 : init[8 + KeyLen + i]
                                    = (Marker(codec) + Pad("client", 8 + KeyLen + i)) % Base
<1>1. KeyLen \in Nat
    BY TransportConstants
<1>2. PICK nonce \in Seq(Byte) : /\ nonce = <<1, 2, 3, 4, 0, 0, 1, 0>> /\ Len(nonce) = 8
                                 /\ nonce[1] = 1 /\ nonce[2] = 2 /\ nonce[7] = 1
  <2>1. 0 \in Byte /\ 1 \in Byte /\ 2 \in Byte /\ 3 \in Byte /\ 4 \in Byte
      BY BaseFacts DEF Byte
  <2>2. <<1, 2, 3, 4, 0, 0, 1, 0>> \in Seq(Byte)
      BY <2>1
  <2> QED
      BY <2>2
<1>3. PICK key \in Seq(Byte) : key = [i \in 1 .. KeyLen |-> i % Base] /\ Len(key) = KeyLen
  <2>1. \A i \in 1 .. KeyLen : i % Base \in Byte
      BY <1>1, DivMod
  <2>2. [i \in 1 .. KeyLen |-> i % Base] \in Seq(Byte) /\ Len([i \in 1 .. KeyLen |-> i % Base]) = KeyLen
      BY <1>1, <2>1
  <2> QED
      BY <2>2
<1>4. PICK clear \in Seq(Byte) : /\ clear = nonce \o key /\ Len(clear) = 8 + KeyLen
                                 /\ clear[1] = 1 /\ clear[2] = 2 /\ clear[7] = 1
  <2>1. /\ nonce \o key \in Seq(Byte) /\ Len(nonce \o key) = Len(nonce) + Len(key)
        /\ \A i \in 1 .. Len(nonce) : (nonce \o key)[i] = nonce[i]
      BY <1>2, <1>3, HeadedFrame
  <2>2. 1 \in 1 .. Len(nonce) /\ 2 \in 1 .. Len(nonce) /\ 7 \in 1 .. Len(nonce)
      BY <1>2
  <2>3. (nonce \o key)[1] = 1 /\ (nonce \o key)[2] = 2 /\ (nonce \o key)[7] = 1
      BY <1>2, <2>1, <2>2
  <2>4. Len(nonce \o key) = 8 + KeyLen
      BY <1>1, <1>2, <1>3, <2>1
  <2> QED
      BY <2>1, <2>3, <2>4
<1>5. PICK tag \in Seq(Byte) : tag = Tag(codec) /\ Len(tag) = 4 /\ \A i \in 1 .. 4 : tag[i] = Marker(codec)
    BY TagBytes
<1>6. PICK dc \in Seq(Byte) : dc = <<2, 0, 5, 5>> /\ Len(dc) = 4
  <2>1. 0 \in Byte /\ 2 \in Byte /\ 5 \in Byte
      BY BaseFacts DEF Byte
  <2>2. <<2, 0, 5, 5>> \in Seq(Byte)
      BY <2>1
  <2> QED
      BY <2>2
<1>7. PICK rest \in Seq(Byte) : /\ rest = tag \o dc /\ Len(rest) = 8
                                /\ \A i \in 1 .. 4 : rest[i] = Marker(codec)
  <2>1. /\ tag \o dc \in Seq(Byte) /\ Len(tag \o dc) = Len(tag) + Len(dc)
        /\ \A i \in 1 .. Len(tag) : (tag \o dc)[i] = tag[i]
      BY <1>5, <1>6, HeadedFrame
  <2>2. Len(tag \o dc) = 8
      BY <1>5, <1>6, <2>1
  <2>3. \A i \in 1 .. 4 : (tag \o dc)[i] = Marker(codec)
      BY <1>5, <2>1
  <2> QED
      BY <2>1, <2>2, <2>3
<1>8. PICK enc \in Seq(Byte) :
        /\ enc = Encrypt("client", 8 + KeyLen, rest) /\ Len(enc) = 8
        /\ \A i \in 1 .. 4 : enc[i] = (Marker(codec) + Pad("client", 8 + KeyLen + i)) % Base
  <2>1. PICK pos \in Nat : pos = 8 + KeyLen
      BY <1>1
  <2>2. /\ Encrypt("client", pos, rest) \in Seq(Byte) /\ Len(Encrypt("client", pos, rest)) = Len(rest)
        /\ \A i \in 1 .. Len(rest) : Encrypt("client", pos, rest)[i] = (rest[i] + Pad("client", pos + i)) % Base
    <3>1. rest \in Seq(Byte) /\ pos \in Nat
        BY <1>7
    <3> QED
        BY <3>1, EncryptBytes, Zenon
  <2>3. ASSUME NEW i \in 1 .. 4
        PROVE  Encrypt("client", pos, rest)[i] = (Marker(codec) + Pad("client", pos + i)) % Base
    <3>1. Len(rest) = 8 /\ rest[i] = Marker(codec)
        BY <1>7, Zenon
    <3>2. i \in 1 .. Len(rest)
        BY <3>1
    <3> QED
        BY <2>2, <3>1, <3>2
  <2> QED
      BY <1>7, <2>1, <2>2, <2>3
<1>9. ObfuscatedInit(codec) = clear \o enc
    BY <1>2, <1>3, <1>4, <1>5, <1>6, <1>7, <1>8 DEF ObfuscatedInit
<1>10. /\ clear \o enc \in Seq(Byte) /\ Len(clear \o enc) = Len(clear) + Len(enc)
       /\ \A i \in 1 .. Len(clear) : (clear \o enc)[i] = clear[i]
       /\ \A i \in 1 .. Len(enc) : (clear \o enc)[Len(clear) + i] = enc[i]
    BY <1>4, <1>8, HeadedFrame
<1>11. Len(clear \o enc) = InitLen
    BY <1>1, <1>4, <1>8, <1>10 DEF InitLen
<1>12. (clear \o enc)[1] = 1 /\ (clear \o enc)[2] = 2 /\ (clear \o enc)[7] = 1
  <2>1. 1 \in 1 .. Len(clear) /\ 2 \in 1 .. Len(clear) /\ 7 \in 1 .. Len(clear)
      BY <1>1, <1>4
  <2> QED
      BY <1>4, <1>10, <2>1
<1>13. ASSUME NEW i \in 1 .. 4
       PROVE  (clear \o enc)[8 + KeyLen + i] = (Marker(codec) + Pad("client", 8 + KeyLen + i)) % Base
  <2>1. i \in 1 .. Len(enc) /\ Len(clear) + i = 8 + KeyLen + i
    <3>1. Len(enc) = 8 /\ Len(clear) = 8 + KeyLen
        BY <1>4, <1>8, Zenon
    <3>2. i \in 1 .. 8
        OBVIOUS
    <3> QED
        BY <3>1, <3>2, Zenon
  <2> QED
      BY <1>8, <1>10, <2>1
<1> QED
    BY <1>9, <1>10, <1>11, <1>12, <1>13

(* What a client sends before its first frame.                             *)
Header(codec, obfuscated) ==
    IF obfuscated THEN ObfuscatedInit(codec)
    ELSE IF codec = "full" THEN <<>>
    ELSE IF codec = "abridged" THEN <<AbridgedStart>>
    ELSE Tag(codec)

(* DetectTransport finds this transport or waits, and waits only while     *)
(* bytes of the header (for Full, of the first eight bytes) are missing.   *)
DetectsAs(codec, obfuscated, s) ==
    LET n == Len(Header(codec, obfuscated)) IN
    /\ DetectTransport(s) \in {More, Detected(codec, n, obfuscated)}
    /\ DetectTransport(s) # More => Len(s) >= n
    /\ Len(s) >= n /\ (codec = "full" => Len(s) >= 8) => DetectTransport(s) # More

(* The fields of a detected transport.                                     *)
LEMMA DetectedFields ==
    ASSUME NEW codec, NEW used, NEW obfuscated
    PROVE  LET d == Detected(codec, used, obfuscated) IN
           /\ d # More /\ d.status = "codec" /\ d.codec = codec /\ d.used = used
           /\ d.obfuscated = obfuscated
BY DEF Detected, More

(* Waiting for more bytes is right while the header is incomplete.         *)
LEMMA NotYetDetected ==
    ASSUME NEW codec, NEW obfuscated, NEW s, NEW n, Len(Header(codec, obfuscated)) = n,
           DetectTransport(s) = More,
           ~(Len(s) >= n) \/ (codec = "full" /\ ~(Len(s) >= 8))
    PROVE  DetectsAs(codec, obfuscated, s)
BY Zenon DEF DetectsAs

(* Finding the transport is right when the header is there.                *)
LEMMA DetectedNow ==
    ASSUME NEW codec, NEW obfuscated, NEW s, NEW n, Len(Header(codec, obfuscated)) = n,
           DetectTransport(s) = Detected(codec, n, obfuscated), Len(s) >= n
    PROVE  DetectsAs(codec, obfuscated, s)
<1>1. Detected(codec, n, obfuscated) # More
    BY DetectedFields
<1> QED
    BY <1>1, Zenon DEF DetectsAs

(* The byte 0xef means Abridged.                                           *)
LEMMA AbridgedDetected ==
    ASSUME NEW s \in Seq(Byte), Agrees(s, <<AbridgedStart>>)
    PROVE  DetectsAs("abridged", FALSE, s)
<1>1. Header("abridged", FALSE) = <<AbridgedStart>> /\ Len(Header("abridged", FALSE)) = 1
    BY DEF Header
<1>2. CASE s = <<>>
  <2>1. DetectTransport(s) = More
      BY <1>2 DEF DetectTransport
  <2> QED
    <3>1. ~(Len(s) >= 1)
        BY <1>2
    <3> QED
        BY <1>1, <2>1, <3>1, NotYetDetected, Zenon
<1>3. CASE s # <<>>
  <2>1. s[1] = AbridgedStart /\ Len(s) >= 1
      BY <1>3 DEF Agrees
  <2>2. DetectTransport(s) = Detected("abridged", 1, FALSE)
      BY <1>3, <2>1 DEF DetectTransport
  <2> QED
      BY <1>1, <2>1, <2>2, DetectedNow, Zenon
<1> QED
    BY <1>2, <1>3

(* A tag that is sent four times in clear means its codec.                 *)
LEMMA TaggedDetected ==
    ASSUME NEW codec \in {"intermediate", "padded"}, NEW s \in Seq(Byte), Agrees(s, Tag(codec))
    PROVE  DetectsAs(codec, FALSE, s)
<1>1. Header(codec, FALSE) = Tag(codec) /\ Len(Tag(codec)) = 4 /\ codec \in Codecs \ {"full"}
    BY TagBytes DEF Header, Codecs
<1>2. \A i \in 1 .. 4 : i <= Len(s) => s[i] = Marker(codec)
    BY <1>1, TagBytes DEF Agrees
<1>3. Marker(codec) # AbridgedStart
    BY MarkersDiffer, BaseFacts
<1>4. CASE Len(s) < 4
  <2>1. s # <<>> => s[1] # AbridgedStart
      BY <1>2, <1>3
  <2>2. DetectTransport(s) = More
      BY <1>4, <2>1 DEF DetectTransport
  <2> QED
    <3>1. ~(Len(s) >= 4)
        BY <1>4
    <3> QED
        BY <1>1, <2>2, <3>1, NotYetDetected, Zenon
<1>5. CASE Len(s) >= 4
  <2>1. PICK t \in Seq(Byte) : t = SubSeq(s, 1, 4) /\ Len(t) = 4 /\ \A i \in 1 .. 4 : t[i] = s[i]
      BY <1>5, FirstFour
  <2>2. \A i \in 1 .. 4 : t[i] = Marker(codec)
    <3>1. \A i \in 1 .. 4 : i <= Len(s)
        BY <1>5
    <3> QED
        BY <1>2, <2>1, <3>1, Zenon
  <2>3. t = Tag(codec)
      BY <1>1, <2>1, <2>2, TagIs
  <2>4. codec = "padded" => t # Tag("intermediate")
    <3>1. Marker("padded") # Marker("intermediate") /\ "intermediate" \in Codecs \ {"full"} /\ 1 \in 1 .. 4
        BY MarkersDiffer, BaseFacts DEF Codecs
    <3> QED
        BY <2>1, <2>2, <3>1, TagIs
  <2>5. s # <<>> /\ s[1] # AbridgedStart /\ ~(Len(s) < 4)
      BY <1>2, <1>3, <1>5
  <2>6. DetectTransport(s) = Detected(codec, 4, FALSE)
      BY <2>1, <2>3, <2>4, <2>5, Zenon DEF DetectTransport
  <2> QED
      BY <1>1, <1>5, <2>6, DetectedNow, Zenon
<1>6. Len(s) < 4 \/ Len(s) >= 4
    OBVIOUS
<1> QED
    BY <1>4, <1>5, <1>6, Zenon

(* The digits above the last one are not more than the number.             *)
LEMMA HighBelow ==
    ASSUME NEW n \in Nat
    PROVE  n >= Base * High(n)
<1>1. PICK r \in Nat : r = n % Base
    BY BaseFacts
<1>2. PICK x \in Nat : x = Base * High(n)
    BY DivMod, BaseFacts
<1>3. n = x + r
    BY <1>1, <1>2, DivMod
<1> QED
    BY <1>2, <1>3

(* The length of a Full frame looks like no reserved beginning: its third  *)
(* and fourth bytes are too small.                                         *)
LEMMA FullLengthDigits ==
    ASSUME NEW m \in Nat, m <= Base * Base * Base + 12
    PROVE  ~(U32(m)[3] \in {2, 3} /\ U32(m)[4] \in {1, 2}) /\ U32(m)[4] \in {0, 1}
<1>1. PICK a \in Nat, b \in Nat, c \in Nat : a = High(m) /\ b = High(a) /\ c = High(b)
    BY DivMod
<1>2. m >= Base * a /\ a >= Base * b
    BY <1>1, HighBelow
<1>3. PICK q \in Nat : q = Base * Base /\ q >= 64
    BY BaseFacts
<1>4. m >= q * b
  <2>1. Base * a >= Base * (Base * b)
      BY <1>1, <1>2, BaseFacts
  <2> QED
      BY <1>1, <1>2, <1>3, <2>1, BaseFacts
<1>5. m <= q * Base + 12 /\ q * Base \in Nat
    BY <1>3, BaseFacts
<1>6. b <= Base
  <2>1. SUFFICES ASSUME b >= Base + 1 PROVE FALSE
      BY <1>1, BaseFacts
  <2>2. q * b >= q * (Base + 1)
      BY <1>1, <1>3, <2>1, BaseFacts
  <2>3. q * (Base + 1) = q * Base + q
      BY <1>3, BaseFacts
  <2> QED
      BY <1>1, <1>3, <1>4, <1>5, <2>2, <2>3, BaseFacts
<1>7. c \in {0, 1} /\ (c = 1 => b % Base = 0)
  <2>1. CASE b < Base
    <3>1. c = 0
        BY <1>1, <2>1, BaseFacts DEF High
    <3> QED
        BY <3>1
  <2>2. CASE b = Base
    <3>1. c = 1 /\ b % Base = 0
        BY <1>1, <2>2, BaseFacts DEF High
    <3> QED
        BY <3>1
  <2> QED
      BY <1>1, <1>6, <2>1, <2>2, BaseFacts
<1>8. c % Base = c
    BY <1>1, <1>7, SmallerMod, BaseFacts
<1>9. U32(m)[3] = b % Base /\ U32(m)[4] = c % Base
    BY <1>1, U32Type
<1> QED
    BY <1>7, <1>8, <1>9

(* The first frame of Full, numbered 0, means Full, and no byte is taken   *)
(* from it.                                                                *)
LEMMA FullDetected ==
    ASSUME NEW p \in Seq(Byte), Writable("full", p), (4 + 4 + Len(p) + 4) % Base # Base - 1,
           NEW s \in Seq(Byte), s = <<>> \/ Agrees(s, Framed("full", 0, p))
    PROVE  DetectsAs("full", FALSE, s)
<1>1. Len(Header("full", FALSE)) = 0
    BY DEF Header
<1>2. PICK n \in Nat : n = Len(p) /\ n \in 1 .. kMaxMessageSize /\ 12 + n \in Nat
    BY BaseFacts DEF Writable
<1>3. Len(p) >= 1 /\ 0 \in Nat
    BY <1>2
<1>4. PICK body \in Seq(Byte) :
             /\ Len(body) = 8 + n
             /\ \A i \in 1 .. 4 : body[i] = U32(12 + n)[i]
             /\ \A i \in 1 .. 4 : body[4 + i] = U32(0)[i]
             /\ \A i \in 1 .. n : body[8 + i] = p[i]
             /\ Framed("full", 0, p) = body \o Crc32(body)
    BY <1>2, <1>3, FullFrame
<1>5. ASSUME NEW i \in 1 .. 8, i <= Len(s) PROVE s[i] = body[i]
  <2>1. Crc32(body) \in Seq(Byte)
      BY <1>2, <1>4, Crc32Type
  <2>2. /\ Len(body \o Crc32(body)) = Len(body) + Len(Crc32(body))
        /\ \A j \in 1 .. Len(body) : (body \o Crc32(body))[j] = body[j]
      BY <1>4, <2>1, HeadedFrame
  <2>3. i \in 1 .. Len(body) /\ i \in 1 .. Len(body) + Len(Crc32(body))
      BY <1>2, <1>4, <2>1
  <2>4. s # <<>>
      BY <1>5
  <2> QED
      BY <1>4, <1>5, <2>2, <2>3, <2>4 DEF Agrees
<1>6. CASE s = <<>>
  <2>1. DetectTransport(s) = More
      BY <1>6 DEF DetectTransport
  <2>2. ~(Len(s) >= 8)
      BY <1>6
  <2> QED
      BY <1>1, <2>1, <2>2, NotYetDetected, Zenon
<1>7. CASE s # <<>>
  <2>1. s[1] # AbridgedStart
    <3>1. s[1] = (12 + n) % Base
        BY <1>2, <1>4, <1>5, <1>7, U32Type
    <3>2. 4 + 4 + Len(p) + 4 = 12 + n
        BY <1>2
    <3> QED
        BY <3>1, <3>2, MarkersDiffer
  <2>2. CASE Len(s) < 4
    <3>1. DetectTransport(s) = More
        BY <1>7, <2>1, <2>2, Zenon DEF DetectTransport
    <3>2. ~(Len(s) >= 8)
        BY <2>2
    <3> QED
        BY <1>1, <3>1, <3>2, NotYetDetected, Zenon
  <2>3. CASE ~(Len(s) < 4)
    <3>1. Len(s) >= 4
        BY <2>3
    <3>2. PICK t \in Seq(Byte) : t = SubSeq(s, 1, 4) /\ Len(t) = 4 /\ \A i \in 1 .. 4 : t[i] = s[i]
        BY <3>1, FirstFour
    <3>3. t[3] = U32(12 + n)[3] /\ t[4] = U32(12 + n)[4]
        BY <1>4, <1>5, <3>1, <3>2
    <3>4. 12 + n <= Base * Base * Base + 12
        BY <1>2, TransportConstants
    <3>5. t[4] \in {0, 1} /\ ~(t[3] \in {2, 3} /\ t[4] \in {1, 2})
        BY <1>2, <3>3, <3>4, FullLengthDigits
    <3>6. t \notin Reserved
        BY <3>5, ReservedBytes
    <3>7. t # Tag("intermediate") /\ t # Tag("padded")
      <4>1. /\ "intermediate" \in Codecs \ {"full"} /\ "padded" \in Codecs \ {"full"} /\ 4 \in 1 .. 4
            /\ t[4] # Marker("intermediate") /\ t[4] # Marker("padded")
          BY <3>5, MarkersDiffer, BaseFacts DEF Codecs
      <4> QED
          BY <3>2, <4>1, TagIs
    <3>8. CASE Len(s) < 8
      <4>1. DetectTransport(s) = More
          BY <1>7, <2>1, <2>3, <3>2, <3>6, <3>7, <3>8, Zenon DEF DetectTransport
      <4>2. ~(Len(s) >= 8)
          BY <3>8
      <4> QED
          BY <1>1, <4>1, <4>2, NotYetDetected, Zenon
    <3>9. CASE ~(Len(s) < 8)
      <4>1. SubSeq(s, 4 + 1, 4 + 4) = U32(0)
        <5>1. PICK u \in Seq(Byte) : u = U32(0) /\ Len(u) = 4
            BY U32Type
        <5>2. Len(u) = 4
            BY <5>1, Zenon
        <5>3. ASSUME NEW i \in 1 .. Len(u) PROVE s[4 + i] = u[i]
          <6>1. i \in 1 .. 4 /\ 4 + i \in 1 .. 8 /\ 4 + i <= Len(s)
              BY <3>9, <5>2
          <6> QED
              BY <1>4, <1>5, <5>1, <6>1
        <5>4. 4 + Len(u) <= Len(s) /\ 4 \in Nat
            BY <3>9, <5>2
        <5>5. SubSeq(s, 4 + 1, 4 + Len(u)) = u
            BY <5>1, <5>3, <5>4, Slice
        <5> QED
            BY <5>1, <5>5, Zenon
      <4>2. SubSeq(s, 5, 8) = U32(0)
          BY <4>1
      <4>3. DetectTransport(s) = Detected("full", 0, FALSE)
          BY <1>7, <2>1, <2>3, <3>2, <3>6, <3>7, <3>9, <4>2, Zenon DEF DetectTransport
      <4>4. Len(s) >= 0
          BY <3>9
      <4> QED
          BY <1>1, <4>3, <4>4, DetectedNow, Zenon
    <3> QED
        BY <3>8, <3>9
  <2> QED
      BY <2>2, <2>3
<1> QED
    BY <1>6, <1>7

(* A tag determines its codec.                                             *)
LEMMA TagChosen ==
    ASSUME NEW codec \in Codecs \ {"full"}, NEW t, t = Tag(codec)
    PROVE  /\ \E c \in Codecs \ {"full"} : t = Tag(c)
           /\ (CHOOSE c \in Codecs \ {"full"} : t = Tag(c)) = codec
<1>1. ASSUME NEW c \in Codecs \ {"full"}, t = Tag(c) PROVE c = codec
  <2>1. Tag(c)[1] = Marker(c) /\ Tag(codec)[1] = Marker(codec)
      BY TagBytes
  <2>2. Marker(c) = Marker(codec)
      BY <1>1, <2>1
  <2> QED
      BY <2>2, MarkersDiffer, BaseFacts DEF Codecs
<1> QED
    BY <1>1

(* AcceptObfuscated2 finds the tag that the client put into its init.      *)
LEMMA InitAccepted ==
    ASSUME NEW codec \in Codecs \ {"full"}, NEW s \in Seq(Byte),
           Agrees(s, ObfuscatedInit(codec)), Len(s) >= InitLen
    PROVE  AcceptedTag(SubSeq(s, 1, InitLen)) = Tag(codec)
<1>1. KeyLen \in Nat /\ InitLen = 16 + KeyLen
    BY TransportConstants DEF InitLen
<1>2. PICK init \in Seq(Byte) :
        /\ init = ObfuscatedInit(codec) /\ Len(init) = InitLen
        /\ \A i \in 1 .. 4 : init[8 + KeyLen + i]
                                = (Marker(codec) + Pad("client", 8 + KeyLen + i)) % Base
    BY InitBytes
<1>3. SubSeq(s, 1, InitLen) = init
  <2>1. \A i \in 1 .. InitLen : s[i] = init[i]
      BY <1>1, <1>2 DEF Agrees
  <2>2. PICK t : t = SubSeq(s, 1, InitLen)
      OBVIOUS
  <2>3. t \in Seq(Byte) /\ Len(t) = InitLen /\ \A i \in 1 .. InitLen : t[i] = s[i]
      BY <1>1, <2>2
  <2> QED
      BY <1>1, <1>2, <2>1, <2>2, <2>3, SeqEqual
<1>4. PICK d \in Seq(Byte) :
        /\ d = Decrypt("client", 0, init) /\ Len(d) = InitLen
        /\ \A i \in 1 .. InitLen : d[i] = (init[i] + Base - Pad("client", 0 + i)) % Base
  <2>1. /\ Decrypt("client", 0, init) \in Seq(Byte) /\ Len(Decrypt("client", 0, init)) = Len(init)
        /\ \A i \in 1 .. Len(init) : Decrypt("client", 0, init)[i]
                                        = (init[i] + Base - Pad("client", 0 + i)) % Base
      BY <1>2, DecryptBytes
  <2>2. Len(init) = InitLen
      BY <1>2, Zenon
  <2> QED
      BY <2>1, <2>2
<1>5. ASSUME NEW i \in 1 .. 4 PROVE d[8 + KeyLen + i] = Marker(codec)
  <2>1. PICK j \in Nat : j = 8 + KeyLen + i /\ j \in 1 .. InitLen /\ 0 + j = j
      BY <1>1
  <2>2. Pad("client", j) \in Byte /\ Marker(codec) \in Byte
      BY PadType, TagBytes
  <2>3. init[j] = (Marker(codec) + Pad("client", j)) % Base
      BY <1>2, <2>1
  <2>4. d[j] = (((Marker(codec) + Pad("client", j)) % Base) + Base - Pad("client", j)) % Base
      BY <1>4, <2>1, <2>3
  <2> QED
      BY <2>1, <2>2, <2>4, CipherInverse
<1>6. PICK tag \in Seq(Byte) : tag = Tag(codec) /\ Len(tag) = 4 /\ \A i \in 1 .. 4 : tag[i] = Marker(codec)
    BY TagBytes
<1>7. SubSeq(d, (8 + KeyLen) + 1, (8 + KeyLen) + 4) = tag
  <2>1. Len(tag) = 4 /\ Len(d) = InitLen
      BY <1>4, <1>6, Zenon
  <2>2. \A i \in 1 .. Len(tag) : d[(8 + KeyLen) + i] = tag[i]
      BY <1>5, <1>6, <2>1
  <2>3. 8 + KeyLen \in Nat /\ (8 + KeyLen) + Len(tag) <= Len(d)
      BY <1>1, <2>1
  <2>4. SubSeq(d, (8 + KeyLen) + 1, (8 + KeyLen) + Len(tag)) = tag
      BY <1>4, <1>6, <2>2, <2>3, Slice
  <2> QED
      BY <2>1, <2>4
<1>8. 9 + KeyLen = (8 + KeyLen) + 1 /\ 12 + KeyLen = (8 + KeyLen) + 4
    BY <1>1
<1> QED
    BY <1>3, <1>4, <1>6, <1>7, <1>8, Zenon DEF AcceptedTag

(* An obfuscated2 init means the obfuscated codec of its tag.              *)
LEMMA ObfuscatedDetected ==
    ASSUME NEW codec \in Codecs \ {"full"}, NEW s \in Seq(Byte), Agrees(s, ObfuscatedInit(codec))
    PROVE  DetectsAs(codec, TRUE, s)
<1>1. InitLen \in Nat /\ InitLen >= 16
    BY TransportConstants DEF InitLen
<1>2. PICK init \in Seq(Byte) :
        /\ init = ObfuscatedInit(codec) /\ Len(init) = InitLen
        /\ init[1] = 1 /\ init[2] = 2 /\ init[7] = 1
    BY InitBytes
<1>3. Len(Header(codec, TRUE)) = InitLen
    BY <1>2, Zenon DEF Header
<1>4. /\ Len(s) >= 1 => s[1] = 1
      /\ Len(s) >= 2 => s[2] = 2
      /\ Len(s) >= 7 => s[7] = 1
  <2>1. \A i \in 1 .. InitLen : i <= Len(s) => s[i] = init[i]
      BY <1>2 DEF Agrees
  <2>2. 1 \in 1 .. InitLen /\ 2 \in 1 .. InitLen /\ 7 \in 1 .. InitLen
      BY <1>1
  <2>3. (1 <= Len(s) => s[1] = init[1]) /\ (2 <= Len(s) => s[2] = init[2]) /\ (7 <= Len(s) => s[7] = init[7])
      BY <2>1, <2>2
  <2> QED
      BY <1>2, <2>3
<1>5. CASE s = <<>>
  <2>1. DetectTransport(s) = More
      BY <1>5 DEF DetectTransport
  <2>2. ~(Len(s) >= InitLen)
      BY <1>1, <1>5
  <2> QED
      BY <1>3, <2>1, <2>2, NotYetDetected, Zenon
<1>6. CASE s # <<>>
  <2>1. s[1] # AbridgedStart
      BY <1>4, <1>6, MarkersDiffer, BaseFacts
  <2>2. CASE Len(s) < 4
    <3>1. DetectTransport(s) = More
        BY <1>6, <2>1, <2>2, Zenon DEF DetectTransport
    <3>2. ~(Len(s) >= InitLen)
        BY <1>1, <2>2
    <3> QED
        BY <1>3, <3>1, <3>2, NotYetDetected, Zenon
  <2>3. CASE ~(Len(s) < 4)
    <3>1. PICK t \in Seq(Byte) : t = SubSeq(s, 1, 4) /\ Len(t) = 4 /\ \A i \in 1 .. 4 : t[i] = s[i]
      <4>1. Len(s) >= 4
          BY <2>3
      <4> QED
          BY <4>1, FirstFour
    <3>2. t[2] = 2
        BY <1>4, <2>3, <3>1
    <3>3. t \notin Reserved
        BY <3>2, ReservedBytes
    <3>4. t # Tag("intermediate") /\ t # Tag("padded")
      <4>1. /\ "intermediate" \in Codecs \ {"full"} /\ "padded" \in Codecs \ {"full"} /\ 2 \in 1 .. 4
            /\ t[2] # Marker("intermediate") /\ t[2] # Marker("padded")
          BY <3>2, MarkersDiffer, BaseFacts DEF Codecs
      <4> QED
          BY <3>1, <4>1, TagIs
    <3>5. CASE Len(s) < 8
      <4>1. DetectTransport(s) = More
          BY <1>6, <2>1, <2>3, <3>1, <3>3, <3>4, <3>5, Zenon DEF DetectTransport
      <4>2. ~(Len(s) >= InitLen)
          BY <1>1, <3>5
      <4> QED
          BY <1>3, <4>1, <4>2, NotYetDetected, Zenon
    <3>6. CASE ~(Len(s) < 8)
      <4>1. SubSeq(s, 5, 8) # U32(0)
        <5>1. SubSeq(s, 5, 8)[3] = s[7]
            BY <3>6
        <5>2. U32(0)[3] = 0
            BY U32Type, BaseFacts DEF High
        <5>3. s[7] = 1
            BY <1>4, <3>6
        <5> QED
            BY <5>1, <5>2, <5>3
      <4>2. CASE Len(s) < InitLen
        <5>1. DetectTransport(s) = More
            BY <1>6, <2>1, <2>3, <3>1, <3>3, <3>4, <3>6, <4>1, <4>2, Zenon DEF DetectTransport
        <5>2. ~(Len(s) >= InitLen)
            BY <1>1, <4>2
        <5> QED
            BY <1>3, <5>1, <5>2, NotYetDetected, Zenon
      <4>3. CASE ~(Len(s) < InitLen)
        <5>1. Len(s) >= InitLen
            BY <1>1, <4>3
        <5>2. PICK tag : tag = AcceptedTag(SubSeq(s, 1, InitLen)) /\ tag = Tag(codec)
            BY <5>1, InitAccepted
        <5>3. /\ \E c \in Codecs \ {"full"} : tag = Tag(c)
              /\ (CHOOSE c \in Codecs \ {"full"} : tag = Tag(c)) = codec
            BY <5>2, TagChosen
        <5>4. DetectTransport(s) = Detected(codec, InitLen, TRUE)
            BY <1>6, <2>1, <2>3, <3>1, <3>3, <3>4, <3>6, <4>1, <4>3, <5>2, <5>3, Zenon DEF DetectTransport
        <5> QED
            BY <1>3, <5>1, <5>4, DetectedNow, Zenon
      <4> QED
          BY <4>2, <4>3
    <3> QED
        BY <3>5, <3>6
  <2> QED
      BY <2>2, <2>3
<1> QED
    BY <1>5, <1>6

-----------------------------------------------------------------------------
(* A direction of the connection as a sequence of frames at offsets.       *)

(* A frame is a nonempty sequence of bytes.                                *)
LEMMA FramedBytes ==
    ASSUME NEW codec \in Codecs, NEW k \in Nat, NEW p \in Seq(Byte), Writable(codec, p)
    PROVE  Framed(codec, k, p) \in Seq(Byte) /\ Len(Framed(codec, k, p)) \in Nat \ {0}
<1>1. Len(p) \in Nat /\ Len(p) >= 1
    BY BaseFacts DEF Writable
<1>2. ASSUME NEW h \in Seq(Byte) PROVE h \o p \in Seq(Byte) /\ Len(h \o p) \in Nat \ {0}
  <2>1. h \o p \in Seq(Byte) /\ Len(h \o p) = Len(h) + Len(p) /\ Len(h) \in Nat
      BY HeadedFrame
  <2> QED
      BY <1>1, <2>1
<1>3. CASE codec = "abridged"
  <2>1. AbridgedHeader(Len(p)) \in Seq(Byte)
    <3>1. PICK w \in Nat : w = Len(p) \div 4
        BY <1>1
    <3>2. w % Base \in Byte /\ High(w) % Base \in Byte /\ High(High(w)) % Base \in Byte /\ LongWords \in Byte
        BY DivMod, LongWordsFacts
    <3>3. <<LongWords, w % Base, High(w) % Base, High(High(w)) % Base>> \in Seq(Byte)
        BY <3>2
    <3>4. w < LongWords => w \in Byte
        BY <3>2, BaseFacts DEF Byte
    <3>5. w < LongWords => <<w>> \in Seq(Byte)
        BY <3>4
    <3> QED
        BY <3>1, <3>3, <3>5, Zenon DEF AbridgedHeader
  <2> QED
      BY <1>2, <1>3, <2>1 DEF Framed
<1>4. CASE codec = "intermediate"
  <2>1. U32(Len(p)) \in Seq(Byte)
      BY <1>1, U32Type
  <2> QED
      BY <1>2, <1>4, <2>1 DEF Framed
<1>5. CASE codec = "padded"
  <2>1. PICK pad \in 0 .. 3 : pad = Last(p) % 4
    <3>1. Last(p) \in Nat
        BY <1>1, BaseFacts DEF Last, Byte
    <3> QED
        BY <3>1
  <2>2. PICK h \in Seq(Byte) : h = U32(Len(p) + pad)
      BY <1>1, <2>1, U32Type
  <2>3. PICK tail \in Seq(Byte) : tail = [i \in 1 .. pad |-> i]
    <3>1. \A i \in 1 .. pad : i \in Byte
        BY <2>1, BaseFacts DEF Byte
    <3>2. [i \in 1 .. pad |-> i] \in Seq(Byte)
        BY <2>1, <3>1
    <3> QED
        BY <3>2
  <2>4. PICK hp \in Seq(Byte) : hp = h \o p /\ Len(hp) \in Nat \ {0}
      BY <1>2, <2>2
  <2>5. hp \o tail \in Seq(Byte) /\ Len(hp \o tail) = Len(hp) + Len(tail) /\ Len(tail) \in Nat
      BY <2>3, <2>4, HeadedFrame
  <2>6. Framed(codec, k, p) = hp \o tail
      BY <1>5, <2>1, <2>2, <2>3, <2>4, Zenon DEF Framed
  <2> QED
      BY <2>4, <2>5, <2>6
<1>6. CASE codec = "full"
  <2>1. PICK n \in Nat : n = Len(p)
      BY <1>1
  <2>2. PICK body \in Seq(Byte) : Len(body) = 8 + n /\ Framed("full", k, p) = body \o Crc32(body)
      BY <1>1, <2>1, FullFrame
  <2>3. PICK crc \in Seq(Byte) : crc = Crc32(body) /\ Len(crc) = 4
      BY <2>1, <2>2, Crc32Type
  <2>4. body \o crc \in Seq(Byte) /\ Len(body \o crc) = Len(body) + Len(crc)
      BY <2>2, <2>3, HeadedFrame
  <2>5. Len(body \o crc) \in Nat \ {0}
      BY <2>1, <2>2, <2>3, <2>4
  <2> QED
      BY <1>6, <2>2, <2>3, <2>4, <2>5
<1> QED
    BY <1>3, <1>4, <1>5, <1>6 DEF Codecs

(* A byte of a direction in clear, at its position in the keystream.       *)
Plain(e, obfuscated, pos, b) == IF obfuscated THEN (b + Base - Pad(e, pos)) % Base ELSE b

(* The bytes that WriteBytes puts on the wire for a frame.                 *)
Coded(e, obfuscated, pos, s) == IF obfuscated THEN Encrypt(e, pos, s) ELSE s

(* What ReadBytes makes of the bytes on the wire.                          *)
Clear(e, obfuscated, pos, s) == IF obfuscated THEN Decrypt(e, pos, s) ELSE s

(* Clear works byte by byte.                                               *)
LEMMA ClearBytes ==
    ASSUME NEW e, NEW obfuscated \in BOOLEAN, NEW pos \in Nat, NEW s \in Seq(Byte)
    PROVE  /\ Clear(e, obfuscated, pos, s) \in Seq(Byte)
           /\ Len(Clear(e, obfuscated, pos, s)) = Len(s)
           /\ \A i \in 1 .. Len(s) :
                Clear(e, obfuscated, pos, s)[i] = Plain(e, obfuscated, pos + i, s[i])
BY DecryptBytes DEF Clear, Plain

(* Coded works byte by byte, and Plain undoes it.                          *)
LEMMA CodedBytes ==
    ASSUME NEW e, NEW obfuscated \in BOOLEAN, NEW pos \in Nat, NEW s \in Seq(Byte)
    PROVE  /\ Coded(e, obfuscated, pos, s) \in Seq(Byte)
           /\ Len(Coded(e, obfuscated, pos, s)) = Len(s)
           /\ \A i \in 1 .. Len(s) :
                Plain(e, obfuscated, pos + i, Coded(e, obfuscated, pos, s)[i]) = s[i]
<1>1. CASE ~obfuscated
    BY <1>1 DEF Coded, Plain
<1>2. CASE obfuscated
  <2>1. PICK t \in Seq(Byte) :
            /\ t = Encrypt(e, pos, s) /\ Len(t) = Len(s)
            /\ \A i \in 1 .. Len(s) : t[i] = (s[i] + Pad(e, pos + i)) % Base
      BY EncryptBytes
  <2>2. ASSUME NEW i \in 1 .. Len(s) PROVE (t[i] + Base - Pad(e, pos + i)) % Base = s[i]
    <3>1. s[i] \in Byte /\ Pad(e, pos + i) \in Byte
        BY PadType
    <3> QED
        BY <2>1, <3>1, CipherInverse
  <2> QED
      BY <1>2, <2>1, <2>2, Zenon DEF Coded, Plain
<1> QED
    BY <1>1, <1>2

(* The k-th frame that an end wrote.                                       *)
Frame(codec, S, k) == Framed(codec, k - 1, S[k])

(* The wire W holds, after the first head bytes, the frames of S from read *)
(* + 1 on, or a beginning of them. The frame k starts at off[k] in the     *)
(* keystream of e, the next unread byte is at pos, and the next one to be  *)
(* written at last.                                                        *)
Carries(off, e, codec, obfuscated, W, S, last, pos, read, head) ==
    /\ off[Len(S) + 1] = last /\ off[read + 1] = pos
    /\ \A i, j \in read + 1 .. Len(S) + 1 : i < j => off[i] < off[j]
    /\ \A k \in read + 1 .. Len(S) :
        /\ Frame(codec, S, k) \in Seq(Byte)
        /\ off[k + 1] = off[k] + Len(Frame(codec, S, k))
        /\ \A j \in 1 .. Len(Frame(codec, S, k)) :
            head + (off[k] - pos) + j <= Len(W) =>
                Plain(e, obfuscated, off[k] + j, W[head + (off[k] - pos) + j])
                    = Frame(codec, S, k)[j]
    /\ Len(W) <= head + (last - pos)

(* Some offsets place the frames on the wire.                              *)
Streams(e, codec, obfuscated, W, S, last, pos, read, head) ==
    \E off \in [Nat -> Nat] : Carries(off, e, codec, obfuscated, W, S, last, pos, read, head)

(* A direction nobody has written to.                                      *)
LEMMA StreamEmpty ==
    ASSUME NEW e, NEW codec, NEW obfuscated, NEW W \in Seq(Byte), NEW pos \in Nat, NEW head \in Nat,
           Len(W) <= head
    PROVE  Streams(e, codec, obfuscated, W, <<>>, pos, pos, 0, head)
<1>1. PICK off \in [Nat -> Nat] : off = [k \in Nat |-> pos]
    OBVIOUS
<1>2. off[1] = pos /\ Len(<<>>) = 0
    BY <1>1
<1>3. Carries(off, e, codec, obfuscated, W, <<>>, pos, pos, 0, head)
    BY <1>2 DEF Carries
<1> QED
    BY <1>3 DEF Streams

(* An offset lies between the first and the last one.                      *)
LEMMA OffsetsBetween ==
    ASSUME NEW off \in [Nat -> Nat], NEW read \in Nat, NEW n \in Nat, read <= n,
           \A i, j \in read + 1 .. n + 1 : i < j => off[i] < off[j],
           NEW k \in read + 1 .. n + 1
    PROVE  k \in Nat /\ off[k] \in Nat /\ off[read + 1] <= off[k] /\ off[k] <= off[n + 1]
<1>1. /\ k \in Nat /\ read + 1 \in Nat /\ n + 1 \in Nat
      /\ read + 1 \in read + 1 .. n + 1 /\ n + 1 \in read + 1 .. n + 1
    OBVIOUS
<1>2. off[k] \in Nat /\ off[read + 1] \in Nat /\ off[n + 1] \in Nat
    BY <1>1
<1>3. off[read + 1] <= off[k]
  <2>1. k = read + 1 \/ read + 1 < k
      OBVIOUS
  <2>2. CASE k = read + 1
      BY <1>2, <2>2
  <2>3. CASE read + 1 < k
      BY <1>1, <1>2, <2>3
  <2> QED
      BY <2>1, <2>2, <2>3
<1>4. off[k] <= off[n + 1]
  <2>1. k = n + 1 \/ k < n + 1
      OBVIOUS
  <2>2. CASE k = n + 1
      BY <1>2, <2>2
  <2>3. CASE k < n + 1
      BY <1>1, <1>2, <2>3
  <2> QED
      BY <2>1, <2>2, <2>3
<1> QED
    BY <1>1, <1>2, <1>3, <1>4

(* The next frame is a frame, and there is an offset after it.             *)
LEMMA NextIndex ==
    ASSUME NEW read \in Nat, NEW n \in Nat, read < n
    PROVE  read + 1 \in read + 1 .. n /\ (read + 1) + 1 \in read + 1 .. n + 1
OBVIOUS

(* A byte of a frame has a place on the wire.                              *)
LEMMA Place ==
    ASSUME NEW head \in Nat, NEW pos \in Nat, NEW a \in Nat, pos <= a, NEW g \in Nat, NEW j \in 1 .. g
    PROVE  head + (a - pos) + j \in Nat \ {0}
OBVIOUS

(* That place is inside what has been written.                             *)
LEMMA PlaceInside ==
    ASSUME NEW head \in Nat, NEW pos \in Nat, NEW last \in Nat, NEW a \in Nat, NEW g \in Nat,
           NEW j \in 1 .. g, pos <= a, a + g <= last
    PROVE  head + (a - pos) + j \in 1 .. (head + (last - pos))
OBVIOUS

(* Write adds a frame at the end of the direction: it is encrypted from    *)
(* the position where the last one ended.                                  *)
LEMMA StreamWritten ==
    ASSUME NEW e, NEW codec, NEW obfuscated \in BOOLEAN, NEW W \in Seq(Byte), NEW S \in Seq(Seq(Byte)),
           NEW last \in Nat, NEW pos \in Nat, NEW read \in Nat, read <= Len(S), NEW head \in Nat,
           Streams(e, codec, obfuscated, W, S, last, pos, read, head),
           head + (last - pos) <= Len(W),
           NEW p \in Seq(Byte), Framed(codec, Len(S), p) \in Seq(Byte),
           Len(Framed(codec, Len(S), p)) \in Nat \ {0}
    PROVE  Streams(e, codec, obfuscated, W \o Coded(e, obfuscated, last, Framed(codec, Len(S), p)),
                   Append(S, p), last + Len(Framed(codec, Len(S), p)), pos, read, head)
<1>1. PICK F \in Seq(Byte) : F = Framed(codec, Len(S), p) /\ Len(F) \in Nat \ {0}
    OBVIOUS
<1>2. PICK off \in [Nat -> Nat] : Carries(off, e, codec, obfuscated, W, S, last, pos, read, head)
    BY DEF Streams
<1>3. PICK w \in Nat : w = Len(W) /\ w = head + (last - pos)
  <2>1. Len(W) \in Nat /\ Len(W) <= head + (last - pos)
      BY <1>2 DEF Carries
  <2>2. PICK w \in Nat : w = Len(W) /\ w <= head + (last - pos) /\ head + (last - pos) <= w
      BY <2>1, Zenon
  <2>3. w = head + (last - pos)
    <3>1. w <= head + (last - pos) /\ head + (last - pos) <= w
        BY <2>2, Zenon
    <3> QED
        BY <3>1
  <2> QED
      BY <2>2, <2>3, Zenon
<1>4. PICK C \in Seq(Byte) :
        /\ C = Coded(e, obfuscated, last, F) /\ Len(C) = Len(F)
        /\ \A i \in 1 .. Len(F) : Plain(e, obfuscated, last + i, C[i]) = F[i]
  <2>1. F \in Seq(Byte) /\ last \in Nat /\ obfuscated \in BOOLEAN
      BY <1>1
  <2>2. Coded(e, obfuscated, last, F) \in Seq(Byte)
      BY <2>1, CodedBytes, SMTT(30)
  <2>3. Len(Coded(e, obfuscated, last, F)) = Len(F)
      BY <2>1, CodedBytes, ZenonT(60)
  <2>4. \A i \in 1 .. Len(F) :
             Plain(e, obfuscated, last + i, Coded(e, obfuscated, last, F)[i]) = F[i]
      BY <2>1, CodedBytes, SMTT(30)
  <2> QED
      BY <2>2, <2>3, <2>4, Zenon
<1>5. PICK W2 \in Seq(Byte) :
        /\ W2 = W \o C /\ Len(W2) = Len(W) + Len(F)
        /\ \A i \in 1 .. Len(W) : W2[i] = W[i]
        /\ \A i \in 1 .. Len(F) : W2[Len(W) + i] = C[i]
  <2>1. /\ W \o C \in Seq(Byte) /\ Len(W \o C) = Len(W) + Len(C)
        /\ \A i \in 1 .. Len(W) : (W \o C)[i] = W[i]
        /\ \A i \in 1 .. Len(C) : (W \o C)[Len(W) + i] = C[i]
      BY <1>4, HeadedFrame
  <2>2. Len(C) = Len(F)
      BY <1>4
  <2> QED
      BY <2>1, <2>2, Zenon
<1>6. PICK n \in Nat : n = Len(S) /\ read <= n
    OBVIOUS
<1>7. PICK S2 \in Seq(Seq(Byte)) :
        /\ S2 = Append(S, p) /\ Len(S2) = n + 1
        /\ S2[n + 1] = p /\ \A k \in 1 .. n : S2[k] = S[k]
  <2>1. /\ Append(S, p) \in Seq(Seq(Byte)) /\ Len(Append(S, p)) = Len(S) + 1
        /\ Append(S, p)[Len(S) + 1] = p
        /\ \A k \in 1 .. Len(S) : Append(S, p)[k] = S[k]
      BY AppendProperties
  <2> QED
      BY <1>6, <2>1, Zenon
<1>8. PICK off2 \in [Nat -> Nat] :
        /\ off2 = [off EXCEPT ![n + 2] = last + Len(F)] /\ off2[n + 2] = last + Len(F)
        /\ \A k \in 1 .. n + 1 : off2[k] = off[k]
  <2>1. PICK next \in Nat : next = last + Len(F)
      OBVIOUS
  <2>2. PICK off2 \in [Nat -> Nat] : off2 = [off EXCEPT ![n + 2] = next]
      OBVIOUS
  <2>3. off2[n + 2] = next
      BY <2>2
  <2>4. ASSUME NEW k \in 1 .. n + 1 PROVE off2[k] = off[k]
    <3>1. k \in Nat /\ k # n + 2
        BY <1>6
    <3> QED
        BY <2>2, <3>1
  <2> QED
      BY <2>1, <2>2, <2>3, <2>4
<1>9. off[n + 1] = last /\ off[read + 1] = pos
    BY <1>2, <1>6 DEF Carries
<1>10. \A i, j \in read + 1 .. n + 1 : i < j => off[i] < off[j]
    BY <1>2, <1>6 DEF Carries
<1>11. Frame(codec, S2, n + 1) = F /\ \A k \in 1 .. n : Frame(codec, S2, k) = Frame(codec, S, k)
  <2>1. (n + 1) - 1 = n
      OBVIOUS
  <2> QED
      BY <1>1, <1>6, <1>7, <2>1 DEF Frame
<1>12. ASSUME NEW i \in read + 1 .. n + 2, NEW j \in read + 1 .. n + 2, i < j
       PROVE  off2[i] < off2[j]
  <2>1. i \in 1 .. n + 1 /\ i \in read + 1 .. n + 1 /\ off[i] \in Nat
    <3>1. i \in Nat /\ j \in Nat
        BY <1>6
    <3> QED
        BY <1>6, <1>12, <3>1
  <2>2. CASE j = n + 2
    <3>1. i \in read + 1 .. n + 1
        BY <2>1
    <3>2. off[i] <= last
        BY <1>6, <1>9, <1>10, <3>1, OffsetsBetween
    <3>3. PICK a \in Nat, f \in Nat \ {0} : a = off[i] /\ f = Len(F)
        BY <1>1, <2>1
    <3>4. off2[i] = a /\ off2[j] = last + f
        BY <1>8, <2>1, <2>2, <3>3
    <3> QED
        BY <3>2, <3>3, <3>4, SMTT(30)
  <2>3. CASE j # n + 2
    <3>1. j \in 1 .. n + 1 /\ j \in read + 1 .. n + 1
        BY <2>3
    <3> QED
        BY <1>8, <1>10, <1>12, <2>1, <3>1
  <2> QED
      BY <2>2, <2>3
<1>13. ASSUME NEW k \in read + 1 .. n + 1
       PROVE  /\ Frame(codec, S2, k) \in Seq(Byte)
              /\ off2[k + 1] = off2[k] + Len(Frame(codec, S2, k))
              /\ \A j \in 1 .. Len(Frame(codec, S2, k)) :
                    head + (off2[k] - pos) + j <= Len(W2) =>
                        Plain(e, obfuscated, off2[k] + j, W2[head + (off2[k] - pos) + j])
                            = Frame(codec, S2, k)[j]
  <2>1. CASE k = n + 1
    <3>1. off2[k] = last /\ off2[k + 1] = last + Len(F) /\ Frame(codec, S2, k) = F
      <4>1. k + 1 = n + 2 /\ k \in 1 .. n + 1
          BY <2>1
      <4> QED
          BY <1>8, <1>9, <1>11, <2>1, <4>1
    <3>2. ASSUME NEW j \in 1 .. Len(F)
          PROVE  Plain(e, obfuscated, last + j, W2[head + (last - pos) + j]) = F[j]
      <4>1. head + (last - pos) + j = Len(W) + j
          BY <1>3, Zenon
      <4> QED
          BY <1>4, <1>5, <4>1
    <3> QED
        BY <1>1, <3>1, <3>2
  <2>2. CASE k # n + 1
    <3>1. /\ k \in 1 .. n /\ k + 1 \in 1 .. n + 1 /\ k \in 1 .. n + 1 /\ k \in read + 1 .. n
          /\ k + 1 \in read + 1 .. n + 1
        BY <2>2
    <3>2. /\ off2[k] = off[k] /\ off2[k + 1] = off[k + 1] /\ Frame(codec, S2, k) = Frame(codec, S, k)
        BY <1>8, <1>11, <3>1
    <3>3. PICK G : G = Frame(codec, S, k)
        OBVIOUS
    <3>4. /\ G \in Seq(Byte) /\ off[k + 1] = off[k] + Len(G)
          /\ \A j \in 1 .. Len(G) : head + (off[k] - pos) + j <= Len(W) =>
                Plain(e, obfuscated, off[k] + j, W[head + (off[k] - pos) + j]) = G[j]
        BY <1>2, <1>6, <3>1, <3>3 DEF Carries
    <3>5. off[k + 1] <= last /\ pos <= off[k] /\ off[k] \in Nat /\ off[k + 1] \in Nat
      <4>1. k \in read + 1 .. n + 1
          BY <1>6, <3>1
      <4>2. off[k] \in Nat /\ off[read + 1] <= off[k]
          BY <1>6, <1>10, <4>1, OffsetsBetween
      <4>3. off[k + 1] \in Nat /\ off[k + 1] <= off[n + 1]
          BY <1>6, <1>10, <3>1, OffsetsBetween
      <4> QED
          BY <1>9, <4>2, <4>3
    <3>6. Len(G) \in Nat
        BY <3>4
    <3>7. ASSUME NEW j \in 1 .. Len(G)
          PROVE  Plain(e, obfuscated, off[k] + j, W2[head + (off[k] - pos) + j]) = G[j]
      <4>1. off[k] + Len(G) <= last
          BY <3>4, <3>5
      <4>2. head + (off[k] - pos) + j \in 1 .. Len(W)
        <5>1. head + (off[k] - pos) + j \in 1 .. (head + (last - pos))
            BY <3>5, <3>6, <4>1, PlaceInside
        <5> QED
            BY <1>3, <5>1, Zenon
      <4>3. W2[head + (off[k] - pos) + j] = W[head + (off[k] - pos) + j]
          BY <1>5, <4>2
      <4> QED
        <5>1. head + (off[k] - pos) + j <= Len(W)
            BY <4>2
        <5> QED
            BY <3>4, <4>3, <5>1
    <3> QED
        BY <3>2, <3>3, <3>4, <3>7
  <2> QED
      BY <2>1, <2>2
<1>14. Len(W2) <= head + ((last + Len(F)) - pos)
  <2>1. PICK f \in Nat : f = Len(F)
      BY <1>1
  <2>2. w + f <= head + ((last + f) - pos)
      BY <1>3, <2>1
  <2> QED
      BY <1>3, <1>5, <2>1, <2>2, Zenon
<1>15. off2[(n + 1) + 1] = last + Len(F) /\ off2[read + 1] = pos
  <2>1. read + 1 \in 1 .. n + 1 /\ (n + 1) + 1 = n + 2
      BY <1>6
  <2> QED
      BY <1>8, <1>9, <2>1
<1>16. Carries(off2, e, codec, obfuscated, W2, S2, last + Len(F), pos, read, head)
  <2>1. (n + 1) + 1 = n + 2
      OBVIOUS
  <2> QED
      BY <1>7, <1>12, <1>13, <1>14, <1>15, <2>1 DEF Carries
<1> QED
    BY <1>1, <1>4, <1>5, <1>7, <1>16 DEF Streams

(* What the reader decrypts begins with the next unread frame: the         *)
(* keystreams of the two ends are in step.                                 *)
LEMMA StreamFront ==
    ASSUME NEW e, NEW codec, NEW obfuscated \in BOOLEAN, NEW W \in Seq(Byte), NEW S \in Seq(Seq(Byte)),
           NEW last \in Nat, NEW pos \in Nat, NEW read \in Nat, read < Len(S),
           Streams(e, codec, obfuscated, W, S, last, pos, read, 0)
    PROVE  Agrees(Clear(e, obfuscated, pos, W), Frame(codec, S, read + 1))
<1>1. PICK off \in [Nat -> Nat] : Carries(off, e, codec, obfuscated, W, S, last, pos, read, 0)
    BY DEF Streams
<1>2. read + 1 \in read + 1 .. Len(S) /\ off[read + 1] = pos
    BY <1>1 DEF Carries
<1>3. PICK G : G = Frame(codec, S, read + 1)
    OBVIOUS
<1>4. \A j \in 1 .. Len(G) :
        0 + (off[read + 1] - pos) + j <= Len(W) =>
            Plain(e, obfuscated, off[read + 1] + j, W[0 + (off[read + 1] - pos) + j]) = G[j]
    BY <1>1, <1>2, <1>3 DEF Carries
<1>5. PICK c \in Seq(Byte) :
        /\ c = Clear(e, obfuscated, pos, W) /\ Len(c) = Len(W)
        /\ \A i \in 1 .. Len(W) : c[i] = Plain(e, obfuscated, pos + i, W[i])
  <2>1. Clear(e, obfuscated, pos, W) \in Seq(Byte)
      BY ClearBytes
  <2>2. Len(Clear(e, obfuscated, pos, W)) = Len(W)
      BY ClearBytes
  <2>3. \A i \in 1 .. Len(W) : Clear(e, obfuscated, pos, W)[i] = Plain(e, obfuscated, pos + i, W[i])
      BY ClearBytes
  <2> QED
      BY <2>1, <2>2, <2>3, Zenon
<1>6. ASSUME NEW j \in 1 .. Len(G), j <= Len(c) PROVE c[j] = G[j]
  <2>1. 0 + (pos - pos) + j = j /\ j <= Len(W) /\ j \in 1 .. Len(W)
      BY <1>5, <1>6
  <2>2. Plain(e, obfuscated, pos + j, W[j]) = G[j]
      BY <1>2, <1>4, <2>1
  <2> QED
      BY <1>5, <2>1, <2>2
<1> QED
    BY <1>3, <1>5, <1>6 DEF Agrees

(* The unread frames determine how many bytes can be on the wire.          *)
LEMMA StreamLength ==
    ASSUME NEW e, NEW codec, NEW obfuscated, NEW W, NEW S \in Seq(Seq(Byte)),
           NEW last \in Nat, NEW pos \in Nat, NEW read \in Nat, read <= Len(S), NEW head \in Nat,
           Streams(e, codec, obfuscated, W, S, last, pos, read, head)
    PROVE  /\ Len(W) <= head + (last - pos)
           /\ pos <= last
           /\ read = Len(S) => last = pos
           /\ read < Len(S) => pos + Len(Frame(codec, S, read + 1)) <= last
<1>1. PICK off \in [Nat -> Nat] : Carries(off, e, codec, obfuscated, W, S, last, pos, read, head)
    BY DEF Streams
<1>2. PICK n \in Nat : n = Len(S) /\ read <= n
    OBVIOUS
<1>3. off[n + 1] = last /\ off[read + 1] = pos /\ Len(W) <= head + (last - pos)
    BY <1>1, <1>2 DEF Carries
<1>4. \A i, j \in read + 1 .. n + 1 : i < j => off[i] < off[j]
    BY <1>1, <1>2 DEF Carries
<1>5. pos <= last
  <2>1. read + 1 \in read + 1 .. n + 1
      BY <1>2
  <2>2. off[read + 1] <= off[n + 1]
      BY <1>2, <1>4, <2>1, OffsetsBetween
  <2> QED
      BY <1>3, <2>2
<1>6. ASSUME read < n
      PROVE  pos + Len(Frame(codec, S, read + 1)) <= last
  <2>1. read + 1 \in read + 1 .. Len(S) /\ (read + 1) + 1 \in read + 1 .. n + 1
    <3>1. read < n
        BY <1>6
    <3>2. read + 1 \in read + 1 .. n /\ (read + 1) + 1 \in read + 1 .. n + 1
        BY <1>2, <3>1, NextIndex
    <3> QED
        BY <1>2, <3>2
  <2>2. /\ Frame(codec, S, read + 1) \in Seq(Byte)
        /\ off[(read + 1) + 1] = off[read + 1] + Len(Frame(codec, S, read + 1))
      BY <1>1, <2>1 DEF Carries
  <2>3. off[(read + 1) + 1] <= off[n + 1]
      BY <1>2, <1>4, <2>1, OffsetsBetween
  <2> QED
      BY <1>3, <2>2, <2>3
<1> QED
    BY <1>2, <1>3, <1>5, <1>6

(* The next unread frame has been written as a whole.                      *)
LEMMA StreamHolds ==
    ASSUME NEW e, NEW codec, NEW obfuscated, NEW W, NEW S \in Seq(Seq(Byte)),
           NEW last \in Nat, NEW pos \in Nat, NEW read \in Nat, read < Len(S),
           Streams(e, codec, obfuscated, W, S, last, pos, read, 0)
    PROVE  pos + Len(Frame(codec, S, read + 1)) <= last
<1>1. read <= Len(S) /\ 0 \in Nat
    OBVIOUS
<1> QED
    BY <1>1, StreamLength

(* A direction that loses its tail is a beginning of what was written.     *)
LEMMA StreamCut ==
    ASSUME NEW e, NEW codec, NEW obfuscated, NEW W \in Seq(Byte), NEW S \in Seq(Seq(Byte)),
           NEW last \in Nat, NEW pos \in Nat, NEW read \in Nat, read <= Len(S), NEW head \in Nat,
           Streams(e, codec, obfuscated, W, S, last, pos, read, head),
           NEW W2 \in Seq(Byte), Len(W2) <= Len(W), \A i \in 1 .. Len(W2) : W2[i] = W[i]
    PROVE  Streams(e, codec, obfuscated, W2, S, last, pos, read, head)
<1>1. PICK off \in [Nat -> Nat] : Carries(off, e, codec, obfuscated, W, S, last, pos, read, head)
    BY DEF Streams
<1>2. PICK n \in Nat : n = Len(S) /\ read <= n
    OBVIOUS
<1>3. off[n + 1] = last /\ off[read + 1] = pos /\ Len(W) <= head + (last - pos)
    BY <1>1, <1>2 DEF Carries
<1>4. \A i, j \in read + 1 .. n + 1 : i < j => off[i] < off[j]
    BY <1>1, <1>2 DEF Carries
<1>5. ASSUME NEW k \in read + 1 .. n
      PROVE  /\ Frame(codec, S, k) \in Seq(Byte)
             /\ off[k + 1] = off[k] + Len(Frame(codec, S, k))
             /\ \A j \in 1 .. Len(Frame(codec, S, k)) :
                  head + (off[k] - pos) + j <= Len(W2) =>
                      Plain(e, obfuscated, off[k] + j, W2[head + (off[k] - pos) + j])
                          = Frame(codec, S, k)[j]
  <2>1. PICK G : G = Frame(codec, S, k)
      OBVIOUS
  <2>2. /\ G \in Seq(Byte) /\ off[k + 1] = off[k] + Len(G)
        /\ \A j \in 1 .. Len(G) : head + (off[k] - pos) + j <= Len(W) =>
              Plain(e, obfuscated, off[k] + j, W[head + (off[k] - pos) + j]) = G[j]
      BY <1>1, <1>2, <2>1 DEF Carries
  <2>3. off[k] \in Nat /\ pos <= off[k]
    <3>1. k \in read + 1 .. n + 1
        BY <1>2
    <3> QED
        BY <1>2, <1>3, <1>4, <3>1, OffsetsBetween
  <2>4. ASSUME NEW j \in 1 .. Len(G), head + (off[k] - pos) + j <= Len(W2)
        PROVE  Plain(e, obfuscated, off[k] + j, W2[head + (off[k] - pos) + j]) = G[j]
    <3>1. PICK m \in Nat \ {0} : m = head + (off[k] - pos) + j
      <4>1. Len(G) \in Nat
          BY <2>2
      <4>2. head + (off[k] - pos) + j \in Nat \ {0}
          BY <2>3, <4>1, Place
      <4> QED
          BY <4>2
    <3>2. m \in 1 .. Len(W2) /\ m <= Len(W)
      <4>1. PICK w \in Nat, w2 \in Nat : w = Len(W) /\ w2 = Len(W2) /\ w2 <= w
          OBVIOUS
      <4>2. m <= w2
          BY <2>4, <3>1, <4>1
      <4>3. m \in Nat /\ m >= 1
        <5>1. m \in Nat \ {0}
            BY <3>1, Zenon
        <5> QED
            BY <5>1
      <4>4. m \in 1 .. w2 /\ m <= w
          BY <4>1, <4>2, <4>3
      <4> QED
          BY <4>1, <4>4
    <3>3. W2[m] = W[m]
        BY <3>2
    <3> QED
        BY <2>2, <3>1, <3>2, <3>3
  <2> QED
      BY <2>1, <2>2, <2>4
<1>6. Len(W2) <= head + (last - pos)
    BY <1>3
<1>7. Carries(off, e, codec, obfuscated, W2, S, last, pos, read, head)
    BY <1>2, <1>3, <1>4, <1>5, <1>6 DEF Carries
<1> QED
    BY <1>7 DEF Streams

(* A sequence without its first m elements.                                *)
LEMMA Dropped ==
    ASSUME NEW W \in Seq(Byte), NEW m \in Nat, m <= Len(W)
    PROVE  /\ SubSeq(W, m + 1, Len(W)) \in Seq(Byte)
           /\ Len(SubSeq(W, m + 1, Len(W))) = Len(W) - m
           /\ \A i \in 1 .. (Len(W) - m) : SubSeq(W, m + 1, Len(W))[i] = W[m + i]
<1>1. Len(W) - m \in Nat /\ m + (Len(W) - m) = Len(W) /\ m + (Len(W) - m) <= Len(W)
    OBVIOUS
<1>2. PICK n \in Nat : n = Len(W) - m /\ m + n = Len(W) /\ m + n <= Len(W)
    BY <1>1, Zenon
<1>3. /\ SubSeq(W, m + 1, m + n) \in Seq(Byte) /\ Len(SubSeq(W, m + 1, m + n)) = n
      /\ \A i \in 1 .. n : SubSeq(W, m + 1, m + n)[i] = W[m + i]
    BY <1>2, Part
<1> QED
    BY <1>2, <1>3, Zenon

(* A frame that is still unread was unread before.                         *)
LEMMA LaterIndex ==
    ASSUME NEW read \in Nat, NEW now \in Nat, NEW n \in Nat, read <= now, NEW k \in now + 1 .. n
    PROVE  k \in read + 1 .. n /\ k \in now + 1 .. n + 1
OBVIOUS

(* What is left of the wire when a frame has been taken from it.           *)
LEMMA LeftOver ==
    ASSUME NEW head \in Nat, NEW pos \in Nat, NEW f \in Nat, NEW w \in Nat, NEW last \in Nat,
           w <= head + (last - pos)
    PROVE  w - (head + f) <= 0 + (last - (pos + f))
OBVIOUS

(* A byte moves to the front of the wire by what is taken from it.         *)
LEMMA Moved ==
    ASSUME NEW head \in Nat, NEW pos \in Nat, NEW f \in Nat, NEW a \in Nat, pos + f <= a,
           NEW w \in Nat, head + f <= w, NEW g \in Nat, NEW j \in 1 .. g,
           0 + (a - (pos + f)) + j <= w - (head + f)
    PROVE  /\ 0 + (a - (pos + f)) + j \in 1 .. (w - (head + f))
           /\ (head + f) + (0 + (a - (pos + f)) + j) = head + (a - pos) + j
           /\ head + (a - pos) + j <= w
OBVIOUS

(* Taking whole frames, or the header, from the wire leaves the frames     *)
(* behind them.                                                            *)
LEMMA StreamDropped ==
    ASSUME NEW e, NEW codec, NEW obfuscated, NEW W \in Seq(Byte), NEW S \in Seq(Seq(Byte)),
           NEW last \in Nat, NEW pos \in Nat, NEW read \in Nat, NEW now \in Nat,
           read <= now, now <= Len(S), NEW head \in Nat, NEW f \in Nat, head + f <= Len(W),
           NEW off \in [Nat -> Nat], Carries(off, e, codec, obfuscated, W, S, last, pos, read, head),
           off[now + 1] = pos + f
    PROVE  Streams(e, codec, obfuscated, SubSeq(W, (head + f) + 1, Len(W)), S, last, pos + f, now, 0)
<1>1. PICK n \in Nat : n = Len(S) /\ now <= n
    OBVIOUS
<1>2. PICK W2 \in Seq(Byte) :
        /\ W2 = SubSeq(W, (head + f) + 1, Len(W)) /\ Len(W2) = Len(W) - (head + f)
        /\ \A i \in 1 .. (Len(W) - (head + f)) : W2[i] = W[(head + f) + i]
  <2>1. head + f \in Nat /\ head + f <= Len(W)
      OBVIOUS
  <2> QED
      BY <2>1, Dropped
<1>3. off[n + 1] = last /\ off[read + 1] = pos /\ Len(W) <= head + (last - pos)
    BY <1>1 DEF Carries
<1>4. \A i, j \in read + 1 .. n + 1 : i < j => off[i] < off[j]
    BY <1>1 DEF Carries
<1>5. \A k \in now + 1 .. n + 1 : k \in read + 1 .. n + 1
    BY <1>1
<1>6. \A i, j \in now + 1 .. n + 1 : i < j => off[i] < off[j]
    BY <1>4, <1>5
<1>7. ASSUME NEW k \in now + 1 .. n
      PROVE  /\ Frame(codec, S, k) \in Seq(Byte)
             /\ off[k + 1] = off[k] + Len(Frame(codec, S, k))
             /\ \A j \in 1 .. Len(Frame(codec, S, k)) :
                  0 + (off[k] - (pos + f)) + j <= Len(W2) =>
                      Plain(e, obfuscated, off[k] + j, W2[0 + (off[k] - (pos + f)) + j])
                          = Frame(codec, S, k)[j]
  <2>1. PICK G : G = Frame(codec, S, k)
      OBVIOUS
  <2>2. k \in read + 1 .. n /\ k \in now + 1 .. n + 1
      BY <1>1, LaterIndex
  <2>3. /\ G \in Seq(Byte) /\ off[k + 1] = off[k] + Len(G)
        /\ \A j \in 1 .. Len(G) : head + (off[k] - pos) + j <= Len(W) =>
              Plain(e, obfuscated, off[k] + j, W[head + (off[k] - pos) + j]) = G[j]
      BY <1>1, <2>1, <2>2 DEF Carries
  <2>4. PICK a \in Nat : a = off[k] /\ pos + f <= a
    <3>1. off[k] \in Nat /\ off[now + 1] <= off[k]
        BY <1>1, <1>6, <2>2, OffsetsBetween
    <3> QED
        BY <3>1
  <2>5. ASSUME NEW j \in 1 .. Len(G), 0 + (a - (pos + f)) + j <= Len(W2)
        PROVE  Plain(e, obfuscated, a + j, W2[0 + (a - (pos + f)) + j]) = G[j]
    <3>1. PICK w \in Nat, g \in Nat : w = Len(W) /\ g = Len(G) /\ head + f <= w
        BY <2>3
    <3>2. j \in 1 .. g /\ 0 + (a - (pos + f)) + j <= w - (head + f)
        BY <1>2, <2>5, <3>1
    <3>3. /\ 0 + (a - (pos + f)) + j \in 1 .. (w - (head + f))
          /\ (head + f) + (0 + (a - (pos + f)) + j) = head + (a - pos) + j
          /\ head + (a - pos) + j <= w
      <4>1. a \in Nat /\ pos + f <= a
          BY <2>4, Zenon
      <4>2. w \in Nat /\ g \in Nat /\ head + f <= w
          BY <3>1, Zenon
      <4> QED
          BY <3>2, <4>1, <4>2, Moved
    <3>4. W2[0 + (a - (pos + f)) + j] = W[(head + f) + (0 + (a - (pos + f)) + j)]
        BY <1>2, <3>1, <3>3
    <3>5. W2[0 + (a - (pos + f)) + j] = W[head + (a - pos) + j]
        BY <3>3, <3>4
    <3>6. Plain(e, obfuscated, a + j, W[head + (a - pos) + j]) = G[j]
        BY <2>3, <2>4, <3>1, <3>3
    <3> QED
        BY <3>5, <3>6
  <2> QED
      BY <2>1, <2>3, <2>4, <2>5
<1>8. Len(W2) <= 0 + (last - (pos + f))
  <2>1. Len(W) \in Nat
      OBVIOUS
  <2>2. Len(W) - (head + f) <= 0 + (last - (pos + f))
      BY <1>3, <2>1, LeftOver, Zenon
  <2> QED
      BY <1>2, <2>2, Zenon
<1>9. Carries(off, e, codec, obfuscated, W2, S, last, pos + f, now, 0)
    BY <1>1, <1>3, <1>6, <1>7, <1>8 DEF Carries
<1> QED
    BY <1>2, <1>9 DEF Streams

(* Read takes the next frame.                                              *)
LEMMA StreamRead ==
    ASSUME NEW e, NEW codec, NEW obfuscated, NEW W \in Seq(Byte), NEW S \in Seq(Seq(Byte)),
           NEW last \in Nat, NEW pos \in Nat, NEW read \in Nat, read < Len(S),
           Streams(e, codec, obfuscated, W, S, last, pos, read, 0),
           NEW f \in Nat, f = Len(Frame(codec, S, read + 1)), f <= Len(W)
    PROVE  Streams(e, codec, obfuscated, SubSeq(W, f + 1, Len(W)), S, last, pos + f, read + 1, 0)
<1>1. PICK off \in [Nat -> Nat] : Carries(off, e, codec, obfuscated, W, S, last, pos, read, 0)
    BY DEF Streams
<1>2. PICK n \in Nat : n = Len(S) /\ read < n
    OBVIOUS
<1>3. read + 1 \in read + 1 .. n
    BY <1>2, NextIndex
<1>4. off[(read + 1) + 1] = pos + f
    BY <1>1, <1>2, <1>3 DEF Carries
<1>5. read <= read + 1 /\ read + 1 <= Len(S) /\ read + 1 \in Nat /\ 0 + f <= Len(W) /\ 0 + f = f
    BY <1>2, <1>3
<1>6. Streams(e, codec, obfuscated, SubSeq(W, (0 + f) + 1, Len(W)), S, last, pos + f, read + 1, 0)
    BY <1>1, <1>4, <1>5, StreamDropped
<1> QED
    BY <1>5, <1>6

(* Detection takes the header.                                             *)
LEMMA StreamDetected ==
    ASSUME NEW e, NEW codec, NEW obfuscated, NEW W \in Seq(Byte), NEW S \in Seq(Seq(Byte)),
           NEW last \in Nat, NEW pos \in Nat, NEW read \in Nat, read <= Len(S), NEW head \in Nat,
           Streams(e, codec, obfuscated, W, S, last, pos, read, head), head <= Len(W)
    PROVE  Streams(e, codec, obfuscated, SubSeq(W, head + 1, Len(W)), S, last, pos, read, 0)
<1>1. PICK off \in [Nat -> Nat] : Carries(off, e, codec, obfuscated, W, S, last, pos, read, head)
    BY DEF Streams
<1>2. off[read + 1] = pos + 0
    BY <1>1 DEF Carries
<1>3. head + 0 <= Len(W) /\ head + 0 = head /\ pos + 0 = pos /\ read <= read
    OBVIOUS
<1>4. Streams(e, codec, obfuscated, SubSeq(W, (head + 0) + 1, Len(W)), S, last, pos + 0, read, 0)
    BY <1>1, <1>2, <1>3, StreamDropped
<1> QED
    BY <1>3, <1>4

-----------------------------------------------------------------------------
(* The inductive invariant of Transport.                                   *)

(* Every state of an end.                                                  *)
EndStates == [codec : Codecs \cup {NoCodec}, obfuscated : BOOLEAN, write_seq_no : Nat,
              read_seq_no : Nat, write_pos : Nat, read_pos : Nat,
              why : {"", "invalid", "closed", "protocol"}]

(* Both wires carry bytes.                                                 *)
TransportTypes ==
    /\ wire \in [Ends -> Seq(Byte)]
    /\ end \in [Ends -> EndStates]
    /\ sent \in [Ends -> Seq(Seq(Byte))]
    /\ got \in [Ends -> Seq(Seq(Byte))]

Client == end["client"]
Server == end["server"]

(* Header bytes on the wire to e that detection has yet to take.           *)
Skip(e) == IF e = "server" /\ Server.codec = NoCodec /\ Client.codec # NoCodec
           THEN Len(Header(Client.codec, Client.obfuscated)) ELSE 0

(* The position in the keystream of the next frame that e will read.       *)
Pos(e) == IF e = "server" /\ Server.codec = NoCodec
          THEN (IF Client.obfuscated THEN InitLen ELSE 0) ELSE end[e].read_pos

(* A client that has not started has sent nothing, and is running.         *)
NotStarted ==
    Client.codec = NoCodec =>
        /\ wire["client"] = <<>> /\ sent["client"] = <<>> /\ Server.codec = NoCodec
        /\ Client.why = "" /\ Client.write_pos = 0 /\ Client.obfuscated = FALSE

(* A server that has not detected the transport has read and written       *)
(* nothing, and has not refused anything.                                  *)
NotDetected ==
    Server.codec = NoCodec =>
        /\ wire["server"] = <<>> /\ sent["server"] = <<>> /\ Server.write_pos = 0
        /\ Client.read_pos = 0 /\ Server.read_seq_no = 0 /\ Server.why # "invalid"

(* A detected transport is the client's; Full is never obfuscated.         *)
Agreed ==
    /\ Server.codec # NoCodec =>
        Server.codec = Client.codec /\ Server.obfuscated = Client.obfuscated
    /\ Client.obfuscated => Client.codec # "full"

(* What waits for detection begins with the client's header.               *)
Announced ==
    Server.codec = NoCodec /\ Client.codec # NoCodec =>
        Agrees(wire["client"], Header(Client.codec, Client.obfuscated))

(* The sequence number of an end counts what it wrote, and everything it   *)
(* wrote passed the checks of Write.                                       *)
Numbered ==
    \A e \in Ends :
        /\ end[e].write_seq_no = Len(sent[e]) /\ Len(sent[e]) <= MaxWrites
        /\ \A k \in 1 .. Len(sent[e]) :
            Writable(Client.codec, sent[e][k]) /\ Len(sent[e][k]) \in Sizes

(* The wire to e carries the frames that e has not read; none of its bytes *)
(* is missing while their writer runs.                                     *)
Flows(e) ==
    /\ end[e].read_seq_no <= Len(sent[Peer(e)])
    /\ Streams(Peer(e), Client.codec, Client.obfuscated, wire[Peer(e)], sent[Peer(e)],
               end[Peer(e)].write_pos, Pos(e), end[e].read_seq_no, Skip(e))
    /\ end[Peer(e)].why = "" => Len(wire[Peer(e)]) = Skip(e) + (end[Peer(e)].write_pos - Pos(e))

(* What e has read is the beginning of what its peer wrote, and if e has   *)
(* stopped at a frame, that frame is the reason.                           *)
Delivered(e) ==
    LET out == sent[Peer(e)]
        n   == Len(got[e])
    IN
    /\ n <= Len(out) /\ \A i \in 1 .. n : got[e][i] = out[i]
    /\ end[e].why = "" => n = end[e].read_seq_no
    /\ end[e].why = "protocol" => n < Len(out) /\ Len(out[n + 1]) = 4
    /\ end[e].why = "invalid" => n < Len(out) /\ TooLong(end[e].codec, out[n + 1])

(* The inductive invariant.                                                *)
TransportInv ==
    /\ TransportTypes /\ NotStarted /\ NotDetected /\ Agreed /\ Announced /\ Numbered
    /\ \A e \in Ends : Flows(e) /\ Delivered(e)

(* The two ends.                                                           *)
LEMMA Peers ==
    ASSUME NEW e \in Ends
    PROVE  /\ Peer(e) \in Ends /\ Peer(Peer(e)) = e /\ Peer(e) # e
           /\ Peer("client") = "server" /\ Peer("server") = "client"
BY DEF Ends, Peer

(* The length of an init.                                                  *)
LEMMA InitLenType == InitLen \in Nat
BY TransportConstants DEF InitLen

(* The types, for one end.                                                 *)
LEMMA EndFields ==
    ASSUME TransportTypes, NEW e \in Ends
    PROVE  /\ end[e].codec \in Codecs \cup {NoCodec} /\ end[e].obfuscated \in BOOLEAN
           /\ end[e].write_seq_no \in Nat /\ end[e].read_seq_no \in Nat
           /\ end[e].write_pos \in Nat /\ end[e].read_pos \in Nat
           /\ end[e].why \in {"", "invalid", "closed", "protocol"}
           /\ wire[e] \in Seq(Byte) /\ sent[e] \in Seq(Seq(Byte)) /\ got[e] \in Seq(Seq(Byte))
BY DEF TransportTypes, EndStates

(* A header consists of bytes.                                             *)
LEMMA HeaderBytes ==
    ASSUME NEW codec \in Codecs, NEW obfuscated \in BOOLEAN, obfuscated => codec # "full"
    PROVE  Header(codec, obfuscated) \in Seq(Byte) /\ Len(Header(codec, obfuscated)) \in Nat
<1>1. CASE obfuscated
    BY <1>1, InitBytes DEF Header
<1>2. CASE ~obfuscated /\ codec = "full"
    BY <1>2 DEF Header
<1>3. CASE ~obfuscated /\ codec = "abridged"
  <2>1. AbridgedStart \in Byte
      BY BaseFacts DEF AbridgedStart, Byte
  <2> QED
      BY <1>3, <2>1 DEF Header
<1>4. CASE ~obfuscated /\ codec \in {"intermediate", "padded"}
    BY <1>4, TagBytes DEF Header
<1> QED
    BY <1>1, <1>2, <1>3, <1>4 DEF Codecs

(* Where a direction starts.                                               *)
LEMMA StartsAt ==
    ASSUME TransportTypes, Agreed, NEW e \in Ends
    PROVE  Skip(e) \in Nat /\ Pos(e) \in Nat
<1>1. /\ Client.codec \in Codecs \cup {NoCodec} /\ Client.obfuscated \in BOOLEAN
      /\ end[e].read_pos \in Nat
    BY EndFields DEF Client, Ends
<1>2. Client.codec # NoCodec => Len(Header(Client.codec, Client.obfuscated)) \in Nat
  <2>1. SUFFICES ASSUME Client.codec # NoCodec
                 PROVE  Len(Header(Client.codec, Client.obfuscated)) \in Nat
      OBVIOUS
  <2>2. Client.codec \in Codecs /\ (Client.obfuscated => Client.codec # "full")
      BY <1>1, <2>1 DEF Agreed
  <2> QED
      BY <1>1, <2>2, HeaderBytes
<1> QED
    BY <1>1, <1>2, InitLenType DEF Skip, Pos

(* A new connection satisfies the invariant.                               *)
LEMMA TransportStarts == TransportInit => TransportInv
<1> SUFFICES ASSUME TransportInit PROVE TransportInv
    OBVIOUS
<1>1. /\ \A e \in Ends : wire[e] = <<>> /\ sent[e] = <<>> /\ got[e] = <<>> /\ end[e] = NewEnd
      /\ wire \in [Ends -> Seq(Byte)] /\ sent \in [Ends -> Seq(Seq(Byte))]
      /\ got \in [Ends -> Seq(Seq(Byte))] /\ end \in [Ends -> {NewEnd}]
    BY DEF TransportInit
<1>2. /\ NewEnd \in EndStates /\ NewEnd.codec = NoCodec /\ NewEnd.obfuscated = FALSE
      /\ NewEnd.why = "" /\ NewEnd.write_pos = 0 /\ NewEnd.read_pos = 0
      /\ NewEnd.write_seq_no = 0 /\ NewEnd.read_seq_no = 0
    BY DEF NewEnd, EndStates
<1>3. TransportTypes
    BY <1>1, <1>2 DEF TransportTypes
<1>4. Client = NewEnd /\ Server = NewEnd
    BY <1>1 DEF Client, Server, Ends
<1>5. NotStarted /\ NotDetected /\ Agreed /\ Announced
    BY <1>1, <1>2, <1>4 DEF NotStarted, NotDetected, Agreed, Announced, Ends
<1>6. Len(<<>>) = 0
    OBVIOUS
<1>7. Numbered
  <2>1. 0 <= MaxWrites
      BY TransportConstants
  <2>2. \A e \in Ends : Len(sent[e]) = 0 /\ end[e].write_seq_no = 0
      BY <1>1, <1>2, <1>6
  <2>3. \A k : k \notin 1 .. 0
      OBVIOUS
  <2> QED
      BY <2>1, <2>2, <2>3 DEF Numbered
<1>8. 0 <= 0 /\ 0 = 0 + (0 - 0) /\ \A k : k \notin 1 .. 0
    OBVIOUS
<1>9. ASSUME NEW e \in Ends PROVE Flows(e) /\ Delivered(e)
  <2>1. /\ wire[Peer(e)] = <<>> /\ sent[Peer(e)] = <<>> /\ got[e] = <<>>
        /\ end[e] = NewEnd /\ end[Peer(e)] = NewEnd
      BY <1>1, Peers
  <2>2. Skip(e) = 0 /\ Pos(e) = 0
      BY <1>2, <1>4, <2>1 DEF Skip, Pos
  <2>3. Streams(Peer(e), NoCodec, FALSE, <<>>, <<>>, 0, 0, 0, 0)
    <3>1. <<>> \in Seq(Byte) /\ 0 \in Nat /\ Len(<<>>) <= 0
        OBVIOUS
    <3> QED
        BY <3>1, StreamEmpty, Zenon
  <2>4. Len(wire[Peer(e)]) = 0 /\ Len(sent[Peer(e)]) = 0 /\ Len(got[e]) = 0
      BY <1>6, <2>1, Zenon
  <2>5. /\ end[e].read_seq_no = 0 /\ end[e].why = "" /\ end[Peer(e)].write_pos = 0
      BY <1>2, <2>1, Zenon
  <2>6. Flows(e)
    <3>1. end[e].read_seq_no <= Len(sent[Peer(e)])
        BY <1>8, <2>4, <2>5, Zenon
    <3>2. Streams(Peer(e), Client.codec, Client.obfuscated, wire[Peer(e)], sent[Peer(e)],
               end[Peer(e)].write_pos, Pos(e), end[e].read_seq_no, Skip(e))
        BY <1>2, <1>4, <2>1, <2>2, <2>3, Zenon
    <3>3. Len(wire[Peer(e)]) = Skip(e) + (end[Peer(e)].write_pos - Pos(e))
        BY <1>8, <2>2, <2>4, <2>5, Zenon
    <3> QED
        BY <3>1, <3>2, <3>3 DEF Flows
  <2>7. Delivered(e)
    <3>1. Len(got[e]) = 0 /\ 0 <= Len(sent[Peer(e)]) /\ end[e].why = "" /\ end[e].read_seq_no = 0
        BY <1>8, <2>4, <2>5, Zenon
    <3> QED
        BY <1>8, <3>1, Zenon DEF Delivered
  <2> QED
      BY <2>6, <2>7
<1> QED
    BY <1>3, <1>5, <1>7, <1>9 DEF TransportInv

-----------------------------------------------------------------------------
(* What the reader of a direction sees, and what the invariant implies.    *)

(* An end that has a codec has the client's.                               *)
LEMMA Speaks ==
    ASSUME TransportInv, NEW e \in Ends, end[e].codec # NoCodec
    PROVE  /\ Client.codec \in Codecs /\ Client.obfuscated \in BOOLEAN
           /\ end[e].codec = Client.codec /\ end[e].obfuscated = Client.obfuscated
           /\ Skip(e) = 0 /\ Pos(e) = end[e].read_pos
<1>1. /\ end[e].codec \in Codecs /\ Client.obfuscated \in BOOLEAN
    BY EndFields DEF TransportInv, Client, Ends
<1>2. CASE e = "client"
    BY <1>1, <1>2 DEF Client, Skip, Pos
<1>3. CASE e = "server"
    BY <1>1, <1>3 DEF Server, Skip, Pos, TransportInv, Agreed
<1> QED
    BY <1>2, <1>3 DEF Ends

(* Of no bytes, every codec asks for more.                                 *)
LEMMA ReadNothing ==
    ASSUME NEW codec \in Codecs, NEW k
    PROVE  ReadFrame(codec, k, <<>>) = More
<1>1. Len(<<>>) = 0 /\ 0 < 4 /\ ~(0 >= 4)
    OBVIOUS
<1>2. CASE codec = "abridged"
    BY <1>2 DEF ReadFrame
<1>3. CASE codec # "abridged"
    BY <1>1, <1>3 DEF ReadFrame
<1> QED
    BY <1>2, <1>3

(* What was sent passed Write, under a number that an int32 holds.         *)
LEMMA SentFrames ==
    ASSUME TransportInv, NEW e \in Ends, NEW k \in 1 .. Len(sent[e])
    PROVE  /\ sent[e][k] \in Seq(Byte) /\ Writable(Client.codec, sent[e][k])
           /\ Len(sent[e][k]) \in Sizes /\ k - 1 \in Nat /\ k - 1 < U32Range \div 2
<1>1. sent[e] \in Seq(Seq(Byte))
    BY EndFields DEF TransportInv
<1>2. /\ Writable(Client.codec, sent[e][k]) /\ Len(sent[e][k]) \in Sizes
      /\ Len(sent[e]) <= MaxWrites
    BY DEF TransportInv, Numbered
<1>3. PICK n \in Nat : n = Len(sent[e])
    BY <1>1
<1>4. k \in Nat /\ k >= 1 /\ k <= n /\ n <= MaxWrites
    BY <1>2, <1>3
<1>5. MaxWrites \in Nat /\ MaxWrites <= U32Range \div 2 /\ U32Range \div 2 \in Nat
    BY TransportConstants, BaseFacts
<1>6. k - 1 \in Nat /\ k - 1 < U32Range \div 2
  <2>1. PICK h \in Nat : h = U32Range \div 2 /\ MaxWrites <= h
      BY <1>5
  <2>2. k - 1 \in Nat /\ k - 1 < h
      BY <1>3, <1>4, <1>5, <2>1
  <2> QED
      BY <2>1, <2>2
<1> QED
    BY <1>1, <1>2, <1>6

(* What e decrypts of the bytes that have arrived.                         *)
Heard(e) == Clear(Peer(e), Client.obfuscated, end[e].read_pos, wire[Peer(e)])

(* Read sees the next frame as its writer framed it, or nothing.           *)
LEMMA IncomingRead ==
    ASSUME TransportInv, NEW e \in Ends, end[e].codec # NoCodec
    PROVE  LET k == end[e].read_seq_no IN
           /\ Incoming(e) = ReadFrame(Client.codec, k, Heard(e))
           /\ Len(Heard(e)) = Len(wire[Peer(e)])
           /\ k = Len(sent[Peer(e)]) => Incoming(e) = More
           /\ k < Len(sent[Peer(e)]) => ReadsAs(Client.codec, k, sent[Peer(e)][k + 1], Heard(e))
<1>1. PICK f : f = Peer(e) /\ f \in Ends
    BY Peers
<1>2. /\ Client.codec \in Codecs /\ Client.obfuscated \in BOOLEAN
      /\ end[e].codec = Client.codec /\ end[e].obfuscated = Client.obfuscated
      /\ Skip(e) = 0 /\ Pos(e) = end[e].read_pos
    BY Speaks
<1>3. PICK pos \in Nat, k \in Nat, last \in Nat :
        pos = end[e].read_pos /\ k = end[e].read_seq_no /\ last = end[f].write_pos
    BY <1>1, EndFields DEF TransportInv
<1>4. PICK W \in Seq(Byte), S \in Seq(Seq(Byte)) : W = wire[f] /\ S = sent[f]
    BY <1>1, EndFields DEF TransportInv
<1>5. Flows(e)
    BY DEF TransportInv
<1>6. Streams(f, Client.codec, Client.obfuscated, W, S, last, pos, k, 0) /\ k <= Len(S)
    BY <1>1, <1>2, <1>3, <1>4, <1>5, Zenon DEF Flows
<1>7. PICK s \in Seq(Byte) : s = Heard(e) /\ Len(s) = Len(W)
  <2>1. Clear(f, Client.obfuscated, pos, W) \in Seq(Byte)
      BY <1>2, <1>3, <1>4, ClearBytes
  <2>2. Len(Clear(f, Client.obfuscated, pos, W)) = Len(W)
      BY <1>2, <1>3, <1>4, ClearBytes
  <2> QED
      BY <1>1, <1>3, <1>4, <2>1, <2>2, Zenon DEF Heard
<1>8. Incoming(e) = ReadFrame(Client.codec, k, s)
    BY <1>1, <1>2, <1>3, <1>4, <1>7, Zenon DEF Incoming, Heard, Clear
<1>9. ASSUME k = Len(S) PROVE Incoming(e) = More
  <2>1. Len(W) <= 0 + (last - pos) /\ last = pos
      BY <1>3, <1>4, <1>6, <1>9, StreamLength
  <2>2. Len(s) = 0
    <3>1. PICK w \in Nat : w = Len(W)
        BY <1>4
    <3>2. w = 0
        BY <1>3, <2>1, <3>1
    <3> QED
        BY <1>7, <3>1, <3>2
  <2>3. s = <<>>
      BY <1>7, <2>2, EmptySeq
  <2> QED
      BY <1>2, <1>8, <2>3, ReadNothing
<1>10. ASSUME k < Len(S) PROVE ReadsAs(Client.codec, k, S[k + 1], s)
  <2>1. k + 1 \in 1 .. Len(sent[f]) /\ (k + 1) - 1 = k
      BY <1>3, <1>4, <1>10
  <2>2. /\ sent[f][k + 1] \in Seq(Byte) /\ Writable(Client.codec, sent[f][k + 1])
        /\ k < U32Range \div 2
      BY <1>1, <2>1, SentFrames
  <2>3. Agrees(Clear(f, Client.obfuscated, pos, W), Frame(Client.codec, S, k + 1))
      BY <1>2, <1>3, <1>4, <1>6, <1>10, StreamFront
  <2>4. Agrees(s, Framed(Client.codec, k, S[k + 1]))
    <3>1. s = Clear(f, Client.obfuscated, pos, W)
        BY <1>1, <1>3, <1>4, <1>7, Zenon DEF Heard
    <3>2. Frame(Client.codec, S, k + 1) = Framed(Client.codec, k, S[k + 1])
        BY <2>1, Zenon DEF Frame
    <3> QED
        BY <2>3, <3>1, <3>2, Zenon
  <2>5. PICK p \in Seq(Byte) : p = S[k + 1] /\ Writable(Client.codec, p)
      BY <1>4, <2>2
  <2> QED
      BY <1>2, <1>3, <1>7, <2>2, <2>4, <2>5, WhatIsWrittenIsRead
<1> QED
    BY <1>1, <1>3, <1>4, <1>7, <1>8, <1>9, <1>10, Zenon

(* A frame that is there as a whole is not waited for.                     *)
LEMMA ReadsAsNot ==
    ASSUME NEW codec, NEW k, NEW p, NEW s, ReadsAs(codec, k, p, s),
           Len(s) >= Len(Framed(codec, k, p))
    PROVE  ReadFrame(codec, k, s).status # "more"
BY Statuses DEF ReadsAs

(* The invariant gives the order of the frames.                            *)
LEMMA TransportInOrder == TransportInv => FramesInOrder
<1> SUFFICES ASSUME TransportInv PROVE FramesInOrder
    OBVIOUS
<1>1. end["server"].codec # NoCodec =>
        /\ end["server"].codec = end["client"].codec
        /\ end["server"].obfuscated = end["client"].obfuscated
    BY DEF TransportInv, Agreed, Client, Server
<1>2. ASSUME NEW e \in Ends PROVE IsPrefix(got[e], sent[Peer(e)])
  <2>1. PICK g \in Seq(Seq(Byte)), S \in Seq(Seq(Byte)) : g = got[e] /\ S = sent[Peer(e)]
      BY EndFields, Peers DEF TransportInv
  <2>2. Len(g) <= Len(S) /\ \A i \in 1 .. Len(g) : g[i] = S[i]
      BY <2>1, Zenon DEF TransportInv, Delivered
  <2>3. Len(g) \in Nat /\ Len(S) \in Nat
      BY <2>1
  <2>4. PICK t \in Seq(Seq(Byte)) :
            /\ t = SubSeq(S, 1, Len(g)) /\ Len(t) = Len(g)
            /\ \A i \in 1 .. Len(g) : t[i] = S[i]
    <3>1. PICK m \in Nat : m = Len(g) /\ m <= Len(S)
        BY <2>2, <2>3
    <3>2. /\ SubSeq(S, 1, m) \in Seq(Seq(Byte)) /\ Len(SubSeq(S, 1, m)) = m
          /\ \A i \in 1 .. m : SubSeq(S, 1, m)[i] = S[i]
        BY <2>1, <3>1, Beginning
    <3> QED
        BY <3>1, <3>2, Zenon
  <2>5. t = g
      BY <2>1, <2>2, <2>4, SeqEqual
  <2> QED
      BY <2>1, <2>2, <2>4, <2>5 DEF IsPrefix
<1> QED
    BY <1>1, <1>2 DEF FramesInOrder
(* The invariant gives that nothing is refused without a reason, and that  *)
(* nobody waits for bytes that no one will send.                           *)
LEMMA TransportReadable == TransportInv => WrittenIsReadable
<1> SUFFICES ASSUME TransportInv, NEW e \in Ends
             PROVE  LET next == sent[Peer(e)][Len(got[e]) + 1] IN
                    /\ end[e].why = "invalid" => TooLong(end[e].codec, next)
                    /\ end[e].why = "protocol" => Len(next) = 4
                    /\ end[e].codec # NoCodec /\ Running(e) /\ Running(Peer(e)) =>
                        (Incoming(e).status = "more" <=> Len(got[e]) = Len(sent[Peer(e)]))
    BY Zenon DEF WrittenIsReadable
<1>1. Delivered(e) /\ Flows(e)
    BY DEF TransportInv
<1>2. /\ end[e].why = "invalid" => TooLong(end[e].codec, sent[Peer(e)][Len(got[e]) + 1])
      /\ end[e].why = "protocol" => Len(sent[Peer(e)][Len(got[e]) + 1]) = 4
    BY <1>1, Zenon DEF Delivered
<1>3. ASSUME end[e].codec # NoCodec, Running(e), Running(Peer(e))
      PROVE  Incoming(e).status = "more" <=> Len(got[e]) = Len(sent[Peer(e)])
  <2>1. PICK f : f = Peer(e) /\ f \in Ends
      BY Peers
  <2>2. PICK S \in Seq(Seq(Byte)), W \in Seq(Byte), k \in Nat, pos \in Nat, last \in Nat :
            /\ S = sent[f] /\ W = wire[f] /\ k = end[e].read_seq_no
            /\ pos = end[e].read_pos /\ last = end[f].write_pos
      BY <2>1, EndFields DEF TransportInv
  <2>3. k = Len(got[e])
      BY <1>1, <1>3, <2>2, Zenon DEF Delivered, Running
  <2>4. /\ Incoming(e) = ReadFrame(Client.codec, k, Heard(e))
        /\ Len(Heard(e)) = Len(W)
        /\ k = Len(S) => Incoming(e) = More
        /\ k < Len(S) => ReadsAs(Client.codec, k, S[k + 1], Heard(e))
      BY <1>3, <2>1, <2>2, IncomingRead, Zenon
  <2>5. /\ Client.codec \in Codecs /\ Skip(e) = 0 /\ Pos(e) = pos
      BY <1>3, <2>2, Speaks
  <2>6. k <= Len(S) /\ Streams(f, Client.codec, Client.obfuscated, W, S, last, pos, k, 0)
      BY <1>1, <2>1, <2>2, <2>5, Zenon DEF Flows
  <2>7. Len(W) = 0 + (last - pos)
      BY <1>1, <1>3, <2>1, <2>2, <2>5, Zenon DEF Flows, Running
  <2>8. ASSUME k < Len(S) PROVE Incoming(e).status # "more"
    <3>1. k + 1 \in 1 .. Len(S) /\ (k + 1) - 1 = k
        BY <2>2, <2>8
    <3>2. PICK p \in Seq(Byte) : p = S[k + 1] /\ Writable(Client.codec, p)
        BY <2>1, <2>2, <3>1, SentFrames
    <3>3. PICK F \in Seq(Byte) : F = Framed(Client.codec, k, p) /\ Len(F) \in Nat
        BY <2>2, <2>5, <3>2, FramedBytes
    <3>4. Frame(Client.codec, S, k + 1) = F
        BY <3>1, <3>2, <3>3, Zenon DEF Frame
    <3>5. pos + Len(Frame(Client.codec, S, k + 1)) <= last
        BY <2>2, <2>6, <2>8, StreamHolds
    <3>6. Len(W) >= Len(F)
      <4>1. PICK a \in Nat, w \in Nat : a = Len(F) /\ w = Len(W)
          BY <2>2, <3>3
      <4>2. pos + a <= last /\ w = 0 + (last - pos)
          BY <2>7, <3>4, <3>5, <4>1, Zenon
      <4>3. w >= a
          BY <2>2, <4>1, <4>2
      <4> QED
          BY <4>1, <4>3
    <3>7. Len(Heard(e)) >= Len(Framed(Client.codec, k, p))
        BY <2>4, <3>3, <3>6, Zenon
    <3>8. ReadsAs(Client.codec, k, p, Heard(e))
        BY <2>4, <2>8, <3>2, Zenon
    <3> QED
        BY <2>4, <3>7, <3>8, ReadsAsNot
  <2>9. CASE k = Len(S)
      BY <2>1, <2>2, <2>3, <2>4, <2>9, Statuses
  <2>10. CASE k < Len(S)
    <3>1. k # Len(S)
        BY <2>2, <2>10
    <3> QED
        BY <2>1, <2>2, <2>3, <2>8, <2>10, <3>1
  <2> QED
      BY <2>2, <2>6, <2>9, <2>10
<1> QED
    BY <1>2, <1>3

-----------------------------------------------------------------------------
(* Every step keeps the invariant.                                         *)

(* Where the directions start changes only with the transport.             *)
LEMMA PlacesKept ==
    ASSUME NEW e \in Ends, Client'.codec = Client.codec, Client'.obfuscated = Client.obfuscated,
           Server'.codec = Server.codec, end'[e].read_pos = end[e].read_pos
    PROVE  Skip(e)' = Skip(e) /\ Pos(e)' = Pos(e)
BY Zenon DEF Skip, Pos

(* A direction that a step leaves alone.                                   *)
LEMMA FlowsKept ==
    ASSUME NEW e \in Ends, Flows(e),
           Client'.codec = Client.codec, Client'.obfuscated = Client.obfuscated,
           wire'[Peer(e)] = wire[Peer(e)], sent'[Peer(e)] = sent[Peer(e)],
           end'[Peer(e)].write_pos = end[Peer(e)].write_pos,
           end'[e].read_seq_no = end[e].read_seq_no, Skip(e)' = Skip(e), Pos(e)' = Pos(e),
           end'[Peer(e)].why = "" => end[Peer(e)].why = ""
    PROVE  Flows(e)'
BY Zenon DEF Flows

(* An end that a step leaves alone.                                        *)
LEMMA DeliveredKept ==
    ASSUME NEW e \in Ends, Delivered(e), sent'[Peer(e)] = sent[Peer(e)], got'[e] = got[e],
           end'[e].codec = end[e].codec, end'[e].why = end[e].why,
           end'[e].read_seq_no = end[e].read_seq_no
    PROVE  Delivered(e)'
BY Zenon DEF Delivered

(* An end stops for a reason, and nothing else changes.                    *)
LEMMA FailKeeps ==
    ASSUME TransportInv, NEW e \in Ends, NEW why \in {"closed", "invalid"}, Fail(e, why),
           end[e].why = "", Client.codec # NoCodec, end[e].codec = NoCodec => why = "closed",
           why = "invalid" =>
                /\ Len(got[e]) < Len(sent[Peer(e)])
                /\ TooLong(end[e].codec, sent[Peer(e)][Len(got[e]) + 1])
    PROVE  TransportInv'
<1>1. TransportTypes /\ NotStarted /\ NotDetected /\ Agreed /\ Announced /\ Numbered
    BY DEF TransportInv
<1>2. /\ wire' = wire /\ sent' = sent /\ got' = got
      /\ end' = [end EXCEPT ![e].why = why]
    BY DEF Fail
<1>3. /\ end' \in [Ends -> EndStates] /\ end'[e].why = why
      /\ \A d \in Ends : d # e => end'[d].why = end[d].why
    BY <1>1, <1>2 DEF TransportTypes, EndStates
<1>4. ASSUME NEW d \in Ends
      PROVE  /\ end'[d].codec = end[d].codec /\ end'[d].obfuscated = end[d].obfuscated
             /\ end'[d].write_seq_no = end[d].write_seq_no
             /\ end'[d].read_seq_no = end[d].read_seq_no
             /\ end'[d].write_pos = end[d].write_pos /\ end'[d].read_pos = end[d].read_pos
    BY <1>1, <1>2 DEF TransportTypes, EndStates
<1>5. /\ Client'.codec = Client.codec /\ Client'.obfuscated = Client.obfuscated
      /\ Client'.write_pos = Client.write_pos /\ Client'.read_pos = Client.read_pos
      /\ Server'.codec = Server.codec /\ Server'.obfuscated = Server.obfuscated
      /\ Server'.write_pos = Server.write_pos /\ Server'.read_seq_no = Server.read_seq_no
    BY <1>4 DEF Client, Server, Ends
<1>6. TransportTypes'
    BY <1>1, <1>2, <1>3 DEF TransportTypes
<1>7. NotStarted' /\ Agreed' /\ Announced'
    BY <1>1, <1>2, <1>5 DEF NotStarted, Agreed, Announced
<1>8. NotDetected'
  <2>1. Server.codec = NoCodec => Server'.why # "invalid"
    <3>1. CASE e = "server"
        BY <1>3, <3>1 DEF Server
    <3>2. CASE e = "client"
        BY <1>1, <1>3, <3>2 DEF Server, Ends, NotDetected
    <3> QED
        BY <3>1, <3>2 DEF Ends
  <2> QED
      BY <1>1, <1>2, <1>5, <2>1 DEF NotDetected
<1>9. Numbered'
    BY <1>1, <1>2, <1>4, <1>5 DEF Numbered
<1>10. ASSUME NEW d \in Ends PROVE Flows(d)' /\ Delivered(d)'
  <2>1. Flows(d) /\ Delivered(d) /\ Peer(d) \in Ends
      BY Peers DEF TransportInv
  <2>2. Skip(d)' = Skip(d) /\ Pos(d)' = Pos(d)
      BY <1>4, <1>5, PlacesKept
  <2>3. end'[Peer(d)].why = "" => end[Peer(d)].why = ""
      BY <1>3, <2>1
  <2>4. Flows(d)'
      BY <1>2, <1>4, <1>5, <2>1, <2>2, <2>3, FlowsKept
  <2>5. CASE d # e
    <3>1. Delivered(d)'
        BY <1>2, <1>3, <1>4, <2>1, <2>5, DeliveredKept
    <3> QED
        BY <2>4, <3>1
  <2>6. CASE d = e
    <3>1. end'[e].why = why /\ why # "" /\ why # "protocol" /\ end'[e].codec = end[e].codec
        BY <1>3, <1>4
    <3>2. Delivered(e)'
        BY <1>2, <2>1, <2>6, <3>1, Zenon DEF Delivered
    <3> QED
        BY <2>4, <2>6, <3>2
  <2> QED
      BY <2>5, <2>6
<1> QED
    BY <1>6, <1>7, <1>8, <1>9, <1>10 DEF TransportInv

(* The client goes: the server is left with a beginning of what was sent.  *)
LEMMA HangUpKeeps ==
    ASSUME TransportInv, HangUp
    PROVE  TransportInv'
<1>1. TransportTypes /\ NotStarted /\ NotDetected /\ Agreed /\ Announced /\ Numbered
    BY DEF TransportInv
<1>2. PICK cut \in Losses :
        /\ cut <= Len(wire["client"])
        /\ wire' = [wire EXCEPT !["client"] = SubSeq(@, 1, Len(@) - cut)]
    BY DEF HangUp
<1>3. /\ end' = [end EXCEPT !["client"].why = "closed"] /\ sent' = sent /\ got' = got
      /\ end["client"].codec # NoCodec /\ end["client"].why = ""
    BY DEF HangUp, Running
<1>4. PICK W \in Seq(Byte), W2 \in Seq(Byte) :
        /\ W = wire["client"] /\ W2 = wire'["client"] /\ Len(W2) <= Len(W)
        /\ \A i \in 1 .. Len(W2) : W2[i] = W[i]
  <2>1. PICK W \in Seq(Byte) : W = wire["client"]
      BY <1>1 DEF TransportTypes, Ends
  <2>2. PICK m \in Nat : m = Len(W) - cut /\ m <= Len(W)
    <3>1. cut \in Nat
        BY <1>2, TransportConstants
    <3>2. PICK w \in Nat : w = Len(W) /\ cut <= w
      <4>1. Len(W) \in Nat
          BY <2>1
      <4>2. cut <= Len(W)
          BY <1>2, <2>1, Zenon
      <4> QED
          BY <4>1, <4>2, Zenon
    <3>3. w - cut \in Nat /\ w - cut <= w
        BY <3>1, <3>2
    <3> QED
        BY <3>2, <3>3, Zenon
  <2>3. wire'["client"] = SubSeq(W, 1, m)
      BY <1>1, <1>2, <2>1, <2>2 DEF TransportTypes, Ends
  <2>4. /\ SubSeq(W, 1, m) \in Seq(Byte) /\ Len(SubSeq(W, 1, m)) = m
        /\ \A i \in 1 .. m : SubSeq(W, 1, m)[i] = W[i]
      BY <2>1, <2>2, Beginning
  <2> QED
      BY <2>1, <2>2, <2>3, <2>4, Zenon
<1>5. wire' \in [Ends -> Seq(Byte)] /\ wire'["server"] = wire["server"]
    BY <1>1, <1>2, <1>4 DEF TransportTypes, Ends
<1>6. /\ end' \in [Ends -> EndStates] /\ end'["client"].why = "closed"
      /\ end'["server"] = end["server"]
    BY <1>1, <1>3 DEF TransportTypes, EndStates, Ends
<1>7. ASSUME NEW d \in Ends
      PROVE  /\ end'[d].codec = end[d].codec /\ end'[d].obfuscated = end[d].obfuscated
             /\ end'[d].write_seq_no = end[d].write_seq_no
             /\ end'[d].read_seq_no = end[d].read_seq_no
             /\ end'[d].write_pos = end[d].write_pos /\ end'[d].read_pos = end[d].read_pos
    BY <1>1, <1>3 DEF TransportTypes, EndStates
<1>8. /\ Client'.codec = Client.codec /\ Client'.obfuscated = Client.obfuscated
      /\ Client'.write_pos = Client.write_pos /\ Client'.read_pos = Client.read_pos
      /\ Server' = Server
    BY <1>6, <1>7 DEF Client, Server, Ends
<1>9. TransportTypes'
    BY <1>1, <1>3, <1>5, <1>6 DEF TransportTypes
<1>10. NotStarted' /\ NotDetected' /\ Agreed'
    BY <1>1, <1>3, <1>5, <1>8 DEF NotStarted, NotDetected, Agreed, Client
<1>11. Announced'
  <2>1. SUFFICES ASSUME Server.codec = NoCodec, Client.codec # NoCodec
                 PROVE  Agrees(W2, Header(Client.codec, Client.obfuscated))
      BY <1>4, <1>8 DEF Announced
  <2>2. PICK H : H = Header(Client.codec, Client.obfuscated)
      OBVIOUS
  <2>3. Agrees(W, H)
      BY <1>1, <1>4, <2>1, <2>2 DEF Announced
  <2>4. ASSUME NEW i \in 1 .. Len(H), i <= Len(W2) PROVE W2[i] = H[i]
    <3>1. i \in 1 .. Len(W2) /\ i <= Len(W)
        BY <1>4, <2>4
    <3> QED
        BY <1>4, <2>3, <3>1 DEF Agrees
  <2> QED
      BY <2>2, <2>4 DEF Agrees
<1>12. Numbered'
    BY <1>1, <1>3, <1>7, <1>8 DEF Numbered
<1>13. ASSUME NEW d \in Ends PROVE Skip(d)' = Skip(d) /\ Pos(d)' = Pos(d)
    BY <1>7, <1>8, PlacesKept
<1>14. Flows("client")'
  <2>1. Flows("client") /\ Peer("client") = "server" /\ "client" \in Ends /\ "server" \in Ends
      BY Peers DEF TransportInv, Ends
  <2> QED
      BY <1>3, <1>5, <1>6, <1>7, <1>8, <1>13, <2>1, FlowsKept
<1>15. Flows("server")'
  <2>1. Flows("server") /\ Peer("server") = "client" /\ "client" \in Ends /\ "server" \in Ends
      BY Peers DEF TransportInv, Ends
  <2>2. PICK S \in Seq(Seq(Byte)), last \in Nat, read \in Nat, pos \in Nat, head \in Nat :
            /\ S = sent["client"] /\ last = Client.write_pos /\ read = Server.read_seq_no
            /\ pos = Pos("server") /\ head = Skip("server")
      BY <1>1, <2>1, EndFields, StartsAt DEF Client, Server
  <2>3. Streams("client", Client.codec, Client.obfuscated, W, S, last, pos, read, head) /\ read <= Len(S)
      BY <1>4, <2>1, <2>2, Zenon DEF Flows, Client, Server
  <2>4. Streams("client", Client.codec, Client.obfuscated, W2, S, last, pos, read, head)
      BY <1>4, <2>2, <2>3, StreamCut
  <2>5. end'["client"].why # ""
      BY <1>6
  <2>6. /\ Peer("server")' = "client" /\ Pos("server")' = pos /\ Skip("server")' = head
        /\ end'["server"].read_seq_no = read /\ end'["client"].write_pos = last
      BY <1>7, <1>13, <2>1, <2>2 DEF Client, Server
  <2> QED
      BY <1>3, <1>4, <1>8, <2>1, <2>2, <2>3, <2>4, <2>5, <2>6, Zenon DEF Flows
<1>16. ASSUME NEW d \in Ends PROVE Delivered(d)'
  <2>1. Delivered(d)
      BY DEF TransportInv
  <2>2. CASE d = "server"
      BY <1>3, <1>6, <1>7, <2>1, <2>2, DeliveredKept
  <2>3. CASE d = "client"
    <3>1. end'[d].why = "closed"
        BY <1>6, <2>3
    <3> QED
        BY <1>3, <2>1, <3>1 DEF Delivered
  <2> QED
      BY <2>2, <2>3 DEF Ends
<1> QED
    BY <1>9, <1>10, <1>11, <1>12, <1>14, <1>15, <1>16 DEF TransportInv, Ends

(* The client announces its transport.                                     *)
LEMMA StartKeeps ==
    ASSUME TransportInv, NEW codec \in Codecs, NEW obfuscated \in BOOLEAN, Start(codec, obfuscated)
    PROVE  TransportInv'
<1>1. TransportTypes /\ NotStarted /\ NotDetected /\ Agreed /\ Announced /\ Numbered
    BY DEF TransportInv
<1>2. PICK pos \in Nat : pos = IF obfuscated THEN InitLen ELSE 0
    BY InitLenType
<1>3. /\ end["client"].codec = NoCodec /\ (obfuscated => codec # "full") /\ sent' = sent /\ got' = got
      /\ end' = [end EXCEPT !["client"].codec = codec, !["client"].obfuscated = obfuscated,
                            !["client"].write_pos = pos]
    BY <1>2, Zenon DEF Start
<1>4. PICK H \in Seq(Byte) : H = Header(codec, obfuscated) /\ Len(H) \in Nat
    BY <1>3, HeaderBytes
<1>5. wire' = [wire EXCEPT !["client"] = H]
    BY <1>4, Zenon DEF Start, Header
<1>6. /\ wire' \in [Ends -> Seq(Byte)] /\ wire'["client"] = H /\ wire'["server"] = wire["server"]
    BY <1>1, <1>4, <1>5 DEF TransportTypes, Ends
<1>7. /\ end' \in [Ends -> EndStates] /\ end'["server"] = end["server"]
    BY <1>1, <1>2, <1>3, ZenonT(60) DEF TransportTypes, EndStates, Ends
<1>8. /\ end'["client"].codec = codec /\ end'["client"].write_pos = pos
      /\ end'["client"].write_seq_no = end["client"].write_seq_no
      /\ end'["client"].read_seq_no = end["client"].read_seq_no
      /\ end'["client"].read_pos = end["client"].read_pos
      /\ end'["client"].why = end["client"].why
    BY <1>1, <1>3, ZenonT(40) DEF TransportTypes, EndStates, Ends
<1>9. end'["client"].obfuscated = obfuscated
    BY <1>1, <1>3 DEF TransportTypes, EndStates, Ends
<1>10. /\ wire["client"] = <<>> /\ sent["client"] = <<>> /\ Server.codec = NoCodec
       /\ end["client"].why = ""
       /\ wire["server"] = <<>> /\ sent["server"] = <<>> /\ Server.write_pos = 0
       /\ Client.read_pos = 0 /\ Server.read_seq_no = 0 /\ Server.why # "invalid"
    BY <1>1, <1>3 DEF NotStarted, NotDetected, Client
<1>11. codec # NoCodec
    BY NoCodecIsNone
<1>12. /\ Client'.codec = codec /\ Client'.obfuscated = obfuscated /\ Client'.write_pos = pos
       /\ Client'.read_pos = Client.read_pos /\ Client'.why = Client.why /\ Server' = Server
    BY <1>7, <1>8, <1>9 DEF Client, Server
<1>13. TransportTypes'
    BY <1>1, <1>3, <1>6, <1>7 DEF TransportTypes
<1>14. NotStarted' /\ NotDetected' /\ Agreed'
    BY <1>1, <1>3, <1>6, <1>10, <1>11, <1>12 DEF NotStarted, NotDetected, Agreed
<1>15. Announced'
  <2>1. Agrees(H, H)
      BY DEF Agrees
  <2> QED
      BY <1>4, <1>6, <1>12, <2>1, Zenon DEF Announced
<1>16. \A e \in Ends : Len(sent[e]) = 0
  <2>1. \A e \in Ends : sent[e] = <<>>
      BY <1>10 DEF Ends
  <2>2. Len(<<>>) = 0
      OBVIOUS
  <2> QED
      BY <2>1, <2>2, Zenon
<1>17. Numbered'
  <2>1. \A e \in Ends : end'[e].write_seq_no = end[e].write_seq_no
      BY <1>7, <1>8 DEF Ends
  <2>2. \A k : k \notin 1 .. 0
      OBVIOUS
  <2> QED
      BY <1>1, <1>3, <1>16, <2>1, <2>2 DEF Numbered
<1>18. Len(<<>>) = 0 /\ 0 <= 0 /\ 0 = 0 + (0 - 0) /\ <<>> \in Seq(Byte) /\ 0 \in Nat
    OBVIOUS
<1>19. Flows("client")'
  <2>1. Peer("client")' = "server" /\ Pos("client")' = 0 /\ Skip("client")' = 0
      BY <1>8, <1>10 DEF Peer, Pos, Skip, Client
  <2>2. end'["client"].read_seq_no = 0
    <3>1. PICK k \in Nat : k = end["client"].read_seq_no
        BY <1>1, EndFields DEF Ends
    <3>2. k <= 0
      <4>1. Flows("client") /\ Peer("client") = "server" /\ "server" \in Ends
          BY Peers DEF TransportInv, Ends
      <4> QED
          BY <1>16, <3>1, <4>1, Zenon DEF Flows
    <3>3. k = 0
        BY <3>1, <3>2
    <3> QED
        BY <1>8, <3>1, <3>3
  <2>3. Streams("server", codec, obfuscated, <<>>, <<>>, 0, 0, 0, 0)
      BY <1>18, StreamEmpty, Zenon
  <2>4. wire'["server"] = <<>> /\ sent'["server"] = <<>> /\ end'["server"].write_pos = 0
      BY <1>3, <1>6, <1>7, <1>10 DEF Server
  <2> QED
      BY <1>12, <1>18, <2>1, <2>2, <2>3, <2>4, Zenon DEF Flows
<1>20. Flows("server")'
  <2>1. Peer("server")' = "client" /\ Pos("server")' = pos /\ Skip("server")' = Len(H)
      BY <1>2, <1>4, <1>10, <1>11, <1>12, Zenon DEF Peer, Pos, Skip
  <2>2. end'["server"].read_seq_no = 0
      BY <1>7, <1>10 DEF Server
  <2>3. Len(H) <= Len(H) /\ Len(H) = Len(H) + (pos - pos)
      BY <1>2, <1>4
  <2>4. Streams("client", codec, obfuscated, H, <<>>, pos, pos, 0, Len(H))
      BY <1>2, <1>4, <2>3, StreamEmpty, Zenon
  <2>5. wire'["client"] = H /\ sent'["client"] = <<>> /\ end'["client"].write_pos = pos
      BY <1>3, <1>6, <1>8, <1>10
  <2> QED
      BY <1>12, <1>18, <2>1, <2>2, <2>3, <2>4, <2>5, Zenon DEF Flows
<1>21. ASSUME NEW e \in Ends PROVE Delivered(e)'
  <2>1. Delivered(e)
      BY DEF TransportInv
  <2>2. CASE e = "server"
      BY <1>3, <1>7, <2>1, <2>2, DeliveredKept
  <2>3. CASE e = "client"
    <3>1. end'[e].why = "" /\ end[e].why = "" /\ end'[e].read_seq_no = end[e].read_seq_no
        BY <1>8, <1>10, <2>3
    <3> QED
        BY <1>3, <2>1, <3>1 DEF Delivered
  <2> QED
      BY <2>2, <2>3 DEF Ends
<1> QED
    BY <1>13, <1>14, <1>15, <1>17, <1>19, <1>20, <1>21 DEF TransportInv, Ends

(* Payloads are bytes of one of the sizes.                                 *)
LEMMA PayloadBytes ==
    ASSUME TransportTypes, NEW e \in Ends, NEW p \in Payloads(e)
    PROVE  p \in Seq(Byte) /\ Len(p) \in Sizes
<1>1. PICK n \in Sizes, b \in LastBytes :
        p = <<>> \o [i \in 1 .. n |-> IF i = n THEN b ELSE Len(sent[e]) % Base]
    BY DEF Payloads
<1>2. n \in Nat /\ b \in Byte
    BY TransportConstants DEF Byte
<1>3. Len(sent[e]) % Base \in Byte
  <2>1. PICK S \in Seq(Seq(Byte)) : S = sent[e]
      BY EndFields
  <2>2. Len(S) \in Nat
      BY <2>1
  <2> QED
      BY <2>1, <2>2, DivMod
<1>4. PICK f \in [1 .. n -> Byte] : f = [i \in 1 .. n |-> IF i = n THEN b ELSE Len(sent[e]) % Base]
    BY <1>2, <1>3
<1>5. <<>> \o f \in Seq(Byte) /\ Len(<<>> \o f) = n
    BY <1>2, <1>4, BytesBuilt
<1> QED
    BY <1>1, <1>4, <1>5

(* A sequence with one more element.                                       *)
LEMMA Appended ==
    ASSUME NEW S \in Seq(Seq(Byte)), NEW p \in Seq(Byte)
    PROVE  /\ Append(S, p) \in Seq(Seq(Byte)) /\ Len(Append(S, p)) = Len(S) + 1
           /\ Append(S, p)[Len(S) + 1] = p
           /\ \A k \in 1 .. Len(S) : Append(S, p)[k] = S[k]
BY AppendProperties

(* A reader's promise does not depend on what its peer writes next.        *)
LEMMA DeliveredMore ==
    ASSUME TransportTypes, NEW e \in Ends, Delivered(e), NEW p \in Seq(Byte),
           sent'[Peer(e)] = Append(sent[Peer(e)], p), got'[e] = got[e],
           end'[e].codec = end[e].codec, end'[e].why = end[e].why,
           end'[e].read_seq_no = end[e].read_seq_no
    PROVE  Delivered(e)'
<1>1. PICK S \in Seq(Seq(Byte)), g \in Seq(Seq(Byte)) : S = sent[Peer(e)] /\ g = got[e]
    BY EndFields, Peers
<1>2. PICK S2 \in Seq(Seq(Byte)) :
        /\ S2 = Append(S, p) /\ Len(S2) = Len(S) + 1 /\ \A k \in 1 .. Len(S) : S2[k] = S[k]
  <2>1. /\ Append(S, p) \in Seq(Seq(Byte)) /\ Len(Append(S, p)) = Len(S) + 1
        /\ \A k \in 1 .. Len(S) : Append(S, p)[k] = S[k]
      BY <1>1, Appended
  <2> QED
      BY <2>1, Zenon
<1>3. PICK n \in Nat, m \in Nat : n = Len(g) /\ m = Len(S)
    BY <1>1
<1>4. /\ n <= m /\ \A i \in 1 .. n : g[i] = S[i]
      /\ end[e].why = "" => n = end[e].read_seq_no
      /\ end[e].why = "protocol" => n < m /\ Len(S[n + 1]) = 4
      /\ end[e].why = "invalid" => n < m /\ TooLong(end[e].codec, S[n + 1])
    BY <1>1, <1>3, Zenon DEF Delivered
<1>5. n <= m + 1 /\ (n < m => n < m + 1 /\ S2[n + 1] = S[n + 1])
  <2>1. n <= m + 1 /\ (n < m => n < m + 1 /\ n + 1 \in 1 .. m)
    <3>1. n \in Nat /\ m \in Nat /\ n <= m
        BY <1>3, <1>4, Zenon
    <3> QED
        BY <3>1
  <2> QED
      BY <1>2, <1>3, <2>1, Zenon
<1>6. \A i \in 1 .. n : g[i] = S2[i]
  <2>1. \A i \in 1 .. n : i \in 1 .. m
    <3>1. n \in Nat /\ m \in Nat /\ n <= m
        BY <1>3, <1>4, Zenon
    <3> QED
        BY <3>1
  <2> QED
      BY <1>2, <1>3, <1>4, <2>1, Zenon
<1>7. sent'[Peer(e)] = S2 /\ got'[e] = g /\ Len(S2) = m + 1
    BY <1>1, <1>2, <1>3, Zenon
<1>8. /\ n <= m + 1 /\ \A i \in 1 .. n : g[i] = S2[i]
      /\ end'[e].why = "" => n = end'[e].read_seq_no
      /\ end'[e].why = "protocol" => n < m + 1 /\ Len(S2[n + 1]) = 4
      /\ end'[e].why = "invalid" => n < m + 1 /\ TooLong(end'[e].codec, S2[n + 1])
    BY <1>4, <1>5, <1>6, Zenon
<1> QED
    BY <1>3, <1>7, <1>8, Zenon DEF Delivered

(* More bytes behind a complete header do not matter to it.                *)
LEMMA AgreesLonger ==
    ASSUME NEW W \in Seq(Byte), NEW C \in Seq(Byte), NEW H \in Seq(Byte), Agrees(W, H),
           Len(H) <= Len(W)
    PROVE  Agrees(W \o C, H)
<1>1. /\ Len(W \o C) = Len(W) + Len(C) /\ \A i \in 1 .. Len(W) : (W \o C)[i] = W[i]
    BY HeadedFrame
<1>2. ASSUME NEW i \in 1 .. Len(H) PROVE (W \o C)[i] = H[i]
  <2>1. i \in 1 .. Len(W) /\ i <= Len(W)
      OBVIOUS
  <2> QED
      BY <1>1, <2>1 DEF Agrees
<1> QED
    BY <1>2 DEF Agrees

(* Write: the frame goes behind the unread ones, in step with the          *)
(* keystream, and its payload behind the ones that were sent.              *)
LEMMA WriteKeeps ==
    ASSUME TransportInv, NEW e \in Ends, NEW p \in Payloads(e), Write(e, p)
    PROVE  TransportInv'
<1>1. TransportTypes /\ NotStarted /\ NotDetected /\ Agreed /\ Announced /\ Numbered
    BY DEF TransportInv
<1>2. PICK r : r = Peer(e) /\ r \in Ends /\ r # e /\ Peer(r) = e
    BY Peers
<1>3. /\ end[e].codec # NoCodec /\ end[e].why = "" /\ Len(sent[e]) < MaxWrites
      /\ Writable(end[e].codec, p) /\ got' = got
      /\ sent' = [sent EXCEPT ![e] = Append(@, p)]
    BY DEF Write, Running
<1>4. /\ Client.codec \in Codecs /\ Client.obfuscated \in BOOLEAN
      /\ end[e].codec = Client.codec /\ end[e].obfuscated = Client.obfuscated
    BY <1>3, Speaks
<1>5. p \in Seq(Byte) /\ Len(p) \in Sizes
    BY <1>1, PayloadBytes
<1>6. PICK S \in Seq(Seq(Byte)), W \in Seq(Byte), last \in Nat, pos \in Nat, read \in Nat, head \in Nat :
        /\ S = sent[e] /\ W = wire[e] /\ last = end[e].write_pos
        /\ pos = Pos(r) /\ read = end[r].read_seq_no /\ head = Skip(r)
    BY <1>1, <1>2, EndFields, StartsAt
<1>7. end[e].write_seq_no = Len(S)
    BY <1>1, <1>6 DEF Numbered
<1>8. PICK F \in Seq(Byte) : F = Framed(Client.codec, Len(S), p) /\ Len(F) \in Nat \ {0}
  <2>1. Writable(Client.codec, p)
      BY <1>3, <1>4, Zenon
  <2>2. Len(S) \in Nat
      BY <1>6
  <2> QED
      BY <1>4, <1>5, <2>1, <2>2, FramedBytes
<1>9. PICK C \in Seq(Byte) : C = Coded(e, Client.obfuscated, last, F)
    BY <1>4, <1>6, <1>8, CodedBytes
<1>10. /\ wire' = [wire EXCEPT ![e] = @ \o C]
       /\ end' = [end EXCEPT ![e].write_seq_no = @ + 1, ![e].write_pos = @ + Len(F)]
  <2>1. Framed(end[e].codec, end[e].write_seq_no, p) = F
      BY <1>4, <1>7, <1>8
  <2> QED
      BY <1>4, <1>6, <1>9, <2>1, Zenon DEF Write, Coded
<1>11. /\ wire' \in [Ends -> Seq(Byte)] /\ wire'[e] = W \o C /\ wire'[r] = wire[r]
  <2>1. W \o C \in Seq(Byte)
      BY <1>6, <1>9, HeadedFrame
  <2> QED
      BY <1>1, <1>2, <1>6, <1>10, <2>1 DEF TransportTypes
<1>12. /\ sent' \in [Ends -> Seq(Seq(Byte))] /\ sent'[e] = Append(S, p) /\ sent'[r] = sent[r]
  <2>1. Append(S, p) \in Seq(Seq(Byte))
      BY <1>5, <1>6, Appended
  <2> QED
      BY <1>1, <1>2, <1>3, <1>6, <2>1 DEF TransportTypes
<1>13. /\ end' \in [Ends -> EndStates] /\ end'[r] = end[r]
       /\ end'[e].write_seq_no = Len(S) + 1 /\ end'[e].write_pos = last + Len(F)
  <2>1. Len(S) + 1 \in Nat /\ last + Len(F) \in Nat
      BY <1>6, <1>8
  <2>2. end' = [end EXCEPT ![e].write_seq_no = Len(S) + 1, ![e].write_pos = last + Len(F)]
      BY <1>6, <1>7, <1>10, Zenon
  <2> QED
      BY <1>1, <1>2, <2>1, <2>2, ZenonT(40) DEF TransportTypes, EndStates
<1>14. ASSUME NEW d \in Ends
       PROVE  /\ end'[d].codec = end[d].codec /\ end'[d].obfuscated = end[d].obfuscated
              /\ end'[d].read_seq_no = end[d].read_seq_no
              /\ end'[d].read_pos = end[d].read_pos /\ end'[d].why = end[d].why
    BY <1>1, <1>10 DEF TransportTypes, EndStates
<1>15. /\ Client'.codec = Client.codec /\ Client'.obfuscated = Client.obfuscated
       /\ Server'.codec = Server.codec /\ Server'.obfuscated = Server.obfuscated
       /\ Client'.read_pos = Client.read_pos /\ Server'.read_seq_no = Server.read_seq_no
       /\ Server'.why = Server.why
    BY <1>14 DEF Client, Server, Ends
<1>16. TransportTypes'
    BY <1>1, <1>3, <1>11, <1>12, <1>13 DEF TransportTypes
<1>17. Client.codec # NoCodec
    BY <1>4, NoCodecIsNone
<1>18. NotStarted' /\ Agreed'
    BY <1>1, <1>15, <1>17 DEF NotStarted, Agreed
<1>19. NotDetected'
  <2>1. SUFFICES ASSUME Server.codec = NoCodec
                 PROVE  /\ wire'["server"] = <<>> /\ sent'["server"] = <<>> /\ Server'.write_pos = 0
      BY <1>1, <1>15 DEF NotDetected
  <2>2. e = "client" /\ r = "server"
      BY <1>2, <1>3, <2>1 DEF Server, Ends
  <2> QED
      BY <1>1, <1>11, <1>12, <1>13, <2>1, <2>2 DEF NotDetected, Server
<1>20. Flows(r) /\ Delivered(r) /\ Flows(e) /\ Delivered(e)
    BY <1>2 DEF TransportInv
<1>21. /\ read <= Len(S)
       /\ Streams(e, Client.codec, Client.obfuscated, W, S, last, pos, read, head)
       /\ Len(W) = head + (last - pos)
    BY <1>2, <1>3, <1>6, <1>20, Zenon DEF Flows
<1>22. Announced'
  <2>1. SUFFICES ASSUME Server.codec = NoCodec
                 PROVE  Agrees(wire'["client"], Header(Client.codec, Client.obfuscated))
      BY <1>15 DEF Announced
  <2>2. e = "client" /\ r = "server"
      BY <1>2, <1>3, <2>1 DEF Server, Ends
  <2>3. PICK H \in Seq(Byte) : H = Header(Client.codec, Client.obfuscated)
      BY <1>1, <1>4, HeaderBytes DEF Agreed
  <2>4. Agrees(W, H)
      BY <1>1, <1>6, <1>17, <2>1, <2>2, <2>3 DEF Announced
  <2>5. head = Len(H)
      BY <1>6, <1>17, <2>1, <2>2, <2>3, Zenon DEF Skip
  <2>6. pos <= last
      BY <1>6, <1>21, StreamLength, SMTT(30)
  <2>7. Len(H) <= Len(W)
      BY <1>6, <1>21, <2>5, <2>6
  <2> QED
      BY <1>6, <1>9, <1>11, <2>2, <2>3, <2>4, <2>7, AgreesLonger
<1>23. Numbered'
  <2>1. ASSUME NEW d \in Ends
        PROVE  /\ end'[d].write_seq_no = Len(sent'[d]) /\ Len(sent'[d]) <= MaxWrites
               /\ \A k \in 1 .. Len(sent'[d]) :
                    Writable(Client.codec, sent'[d][k]) /\ Len(sent'[d][k]) \in Sizes
    <3>1. CASE d = e
      <4>1. PICK S2 \in Seq(Seq(Byte)), n \in Nat :
                /\ S2 = sent'[e] /\ n = Len(S) /\ Len(S2) = n + 1 /\ S2[n + 1] = p
                /\ \A k \in 1 .. n : S2[k] = S[k]
        <5>1. /\ Append(S, p) \in Seq(Seq(Byte)) /\ Len(Append(S, p)) = Len(S) + 1
              /\ Append(S, p)[Len(S) + 1] = p
              /\ \A k \in 1 .. Len(S) : Append(S, p)[k] = S[k]
            BY <1>5, <1>6, Appended
        <5>2. Len(S) \in Nat
            BY <1>6
        <5> QED
            BY <1>12, <5>1, <5>2, Zenon
      <4>2. n + 1 <= MaxWrites
        <5>1. n < MaxWrites
            BY <1>3, <1>6, <4>1, Zenon
        <5>2. MaxWrites \in Nat
            BY TransportConstants
        <5> QED
            BY <4>1, <5>1, <5>2
      <4>3. ASSUME NEW k \in 1 .. n + 1
            PROVE  Writable(Client.codec, S2[k]) /\ Len(S2[k]) \in Sizes
        <5>1. CASE k = n + 1
            BY <1>3, <1>4, <1>5, <4>1, <5>1
        <5>2. CASE k # n + 1
          <6>1. k \in 1 .. n
              BY <4>1, <5>2
          <6>2. Writable(Client.codec, S[k]) /\ Len(S[k]) \in Sizes
              BY <1>1, <1>6, <4>1, <6>1 DEF Numbered
          <6> QED
              BY <4>1, <6>1, <6>2, Zenon
        <5> QED
            BY <5>1, <5>2
      <4> QED
          BY <1>13, <3>1, <4>1, <4>2, <4>3
    <3>2. CASE d # e
      <4>1. d = r
          BY <1>2, <3>2 DEF Ends
      <4> QED
          BY <1>1, <1>12, <1>13, <4>1 DEF Numbered
    <3> QED
        BY <3>1, <3>2
  <2> QED
      BY <1>15, <2>1, Zenon DEF Numbered
<1>24. ASSUME NEW d \in Ends PROVE Skip(d)' = Skip(d) /\ Pos(d)' = Pos(d)
    BY <1>14, <1>15, PlacesKept
<1>25. Flows(e)'
    BY <1>2, <1>11, <1>12, <1>13, <1>14, <1>15, <1>20, <1>24, FlowsKept
<1>26. Flows(r)'
  <2>1. Streams(e, Client.codec, Client.obfuscated, W \o C, Append(S, p), last + Len(F),
                pos, read, head)
    <3>1. PICK codec \in Codecs, obfuscated \in BOOLEAN :
            codec = Client.codec /\ obfuscated = Client.obfuscated
        BY <1>4
    <3>2. /\ Framed(codec, Len(S), p) \in Seq(Byte)
          /\ Len(Framed(codec, Len(S), p)) \in Nat \ {0}
        BY <1>8, <3>1
    <3>3. Streams(e, codec, obfuscated, W, S, last, pos, read, head)
        BY <1>21, <3>1, Zenon
    <3>4. Streams(e, codec, obfuscated,
                  W \o Coded(e, obfuscated, last, Framed(codec, Len(S), p)),
                  Append(S, p), last + Len(Framed(codec, Len(S), p)), pos, read, head)
      <4>1. read <= Len(S) /\ head + (last - pos) <= Len(W)
          BY <1>6, <1>21
      <4>2. /\ S \in Seq(Seq(Byte)) /\ W \in Seq(Byte) /\ last \in Nat /\ pos \in Nat
            /\ read \in Nat /\ head \in Nat /\ obfuscated \in BOOLEAN /\ p \in Seq(Byte)
          BY <1>5, <1>6, <3>1, Zenon
      <4> QED
          BY <3>2, <3>3, <4>1, <4>2, StreamWritten, ZenonT(60)
    <3> QED
        BY <1>8, <1>9, <3>1, <3>4, Zenon
  <2>2. Peer(r)' = e /\ Pos(r)' = pos /\ Skip(r)' = head /\ end'[r].read_seq_no = read
      BY <1>2, <1>6, <1>13, <1>24 DEF Peer
  <2>3. read <= Len(Append(S, p))
    <3>1. Len(Append(S, p)) = Len(S) + 1
        BY <1>5, <1>6, Appended
    <3> QED
        BY <1>6, <1>21, <3>1
  <2>4. Len(W \o C) = head + ((last + Len(F)) - pos)
    <3>1. Len(W \o C) = Len(W) + Len(C) /\ Len(C) = Len(F)
        BY <1>4, <1>6, <1>8, <1>9, HeadedFrame, CodedBytes
    <3> QED
        BY <1>6, <1>8, <1>21, <3>1
  <2> QED
      BY <1>11, <1>12, <1>13, <1>15, <2>1, <2>2, <2>3, <2>4, Zenon DEF Flows
<1>27. Delivered(e)'
    BY <1>2, <1>3, <1>12, <1>14, <1>20, DeliveredKept
<1>28. Delivered(r)'
    BY <1>1, <1>2, <1>3, <1>5, <1>6, <1>12, <1>14, <1>20, DeliveredMore
<1>29. \A d \in Ends : d = e \/ d = r
    BY <1>2 DEF Ends
<1> QED
    BY <1>16, <1>18, <1>19, <1>22, <1>23, <1>25, <1>26, <1>27, <1>28, <1>29 DEF TransportInv

(* A frame that is read is the one that was framed.                        *)
LEMMA FrameTaken ==
    ASSUME NEW codec, NEW k, NEW p, NEW s, ReadsAs(codec, k, p, s),
           ReadFrame(codec, k, s).status = "frame"
    PROVE  /\ ReadFrame(codec, k, s).used = Len(Framed(codec, k, p))
           /\ ReadFrame(codec, k, s).payload = p
           /\ Len(s) >= Len(Framed(codec, k, p))
BY Statuses DEF ReadsAs, Chunk

(* A frame that is refused is over the limit.                              *)
LEMMA FrameRefused ==
    ASSUME NEW codec, NEW k, NEW p, NEW s, ReadsAs(codec, k, p, s),
           ReadFrame(codec, k, s).status = "invalid"
    PROVE  TooLong(codec, p)
BY Statuses DEF ReadsAs, Chunk

(* e reads the next payload of its peer, and takes four bytes for an       *)
(* error.                                                                  *)
Takes(e) ==
    LET k == end[e].read_seq_no
        p == sent[Peer(e)][k + 1]
    IN
    /\ end[e].why = "" /\ k < Len(sent[Peer(e)])
    /\ end'[e].read_seq_no = k + 1
    /\ end'[e].why = IF Len(p) = 4 THEN "protocol" ELSE ""
    /\ got'[e] = IF Len(p) = 4 THEN got[e] ELSE Append(got[e], p)
    /\ sent'[Peer(e)] = sent[Peer(e)]

(* Reading in order.                                                       *)
LEMMA DeliveredNext ==
    ASSUME TransportTypes, NEW e \in Ends, Delivered(e), Takes(e)
    PROVE  Delivered(e)'
<1>1. PICK S \in Seq(Seq(Byte)), g \in Seq(Seq(Byte)), k \in Nat :
        S = sent[Peer(e)] /\ g = got[e] /\ k = end[e].read_seq_no
    BY EndFields, Peers
<1>2. PICK p : p = S[k + 1]
    OBVIOUS
<1>3. /\ S = sent[Peer(e)] /\ g = got[e] /\ k = end[e].read_seq_no /\ p = S[k + 1]
      /\ S \in Seq(Seq(Byte)) /\ g \in Seq(Seq(Byte)) /\ k \in Nat
    BY <1>1, <1>2
<1>4. S \in Seq(Seq(Byte)) /\ g \in Seq(Seq(Byte)) /\ k \in Nat /\ Len(S) \in Nat
    BY <1>3
<1>5. /\ k < Len(S) /\ end'[e].read_seq_no = k + 1 /\ sent'[Peer(e)] = S /\ S[k + 1] = p
      /\ end[e].why = "" /\ end'[e].why = (IF Len(p) = 4 THEN "protocol" ELSE "")
      /\ got'[e] = (IF Len(p) = 4 THEN g ELSE Append(g, p))
    BY <1>3, Zenon DEF Takes
<1>6. Len(g) = k /\ \A i \in 1 .. k : g[i] = S[i]
    BY <1>3, <1>5, Zenon DEF Delivered
<1>7. p \in Seq(Byte) /\ k <= Len(S) /\ k + 1 <= Len(S)
  <2>1. k < Len(S)
      BY <1>5, Zenon
  <2>2. k + 1 \in 1 .. Len(S) /\ k <= Len(S) /\ k + 1 <= Len(S)
      BY <1>4, <2>1
  <2>3. S[k + 1] \in Seq(Byte)
      BY <1>4, <2>2
  <2> QED
      BY <1>5, <2>2, <2>3, Zenon
<1>8. CASE Len(p) = 4
  <2>1. end'[e].why = "protocol" /\ got'[e] = g /\ Len(S[k + 1]) = 4
      BY <1>5, <1>8, Zenon
  <2>2. "protocol" # "" /\ "protocol" # "invalid"
      OBVIOUS
  <2> QED
      BY <1>5, <1>6, <1>7, <2>1, <2>2, Zenon DEF Delivered
<1>9. CASE Len(p) # 4
  <2>1. end'[e].why = "" /\ got'[e] = Append(g, p) /\ "" # "protocol" /\ "" # "invalid"
      BY <1>5, <1>9, Zenon
  <2>2. PICK g2 \in Seq(Seq(Byte)) :
            /\ g2 = Append(g, p) /\ Len(g2) = Len(g) + 1
            /\ g2[Len(g) + 1] = p /\ \A i \in 1 .. Len(g) : g2[i] = g[i]
      BY <1>4, <1>7, Appended
  <2>3. Len(g2) = k + 1 /\ g2[k + 1] = p /\ \A i \in 1 .. k : g2[i] = g[i]
      BY <1>6, <2>2, Zenon
  <2>4. ASSUME NEW i \in 1 .. k + 1 PROVE g2[i] = S[i]
    <3>1. i = k + 1 \/ i \in 1 .. k
        BY <1>4
    <3> QED
        BY <1>5, <1>6, <2>3, <3>1, Zenon
  <2>5. got'[e] = g2
      BY <2>1, <2>2, Zenon
  <2> QED
      BY <1>5, <1>7, <2>1, <2>3, <2>4, <2>5, Zenon DEF Delivered
<1> QED
    BY <1>8, <1>9

(* Read: it takes the next frame, or stops because it is too long or       *)
(* because the peer has gone.                                              *)
LEMMA ReadKeeps ==
    ASSUME TransportInv, NEW e \in Ends, Read(e)
    PROVE  TransportInv'
<1>1. TransportTypes /\ NotStarted /\ NotDetected /\ Agreed /\ Announced /\ Numbered
    BY DEF TransportInv
<1>2. PICK r : r = Peer(e) /\ r \in Ends /\ r # e /\ Peer(r) = e
    BY Peers
<1>3. end[e].codec # NoCodec /\ end[e].why = ""
    BY DEF Read, Running
<1>4. /\ Client.codec \in Codecs /\ Client.obfuscated \in BOOLEAN
      /\ end[e].codec = Client.codec /\ end[e].obfuscated = Client.obfuscated
      /\ Skip(e) = 0 /\ Pos(e) = end[e].read_pos
    BY <1>3, Speaks
<1>5. PICK S \in Seq(Seq(Byte)), W \in Seq(Byte), last \in Nat, pos \in Nat, k \in Nat :
        /\ S = sent[r] /\ W = wire[r] /\ last = end[r].write_pos
        /\ pos = end[e].read_pos /\ k = end[e].read_seq_no
    BY <1>1, <1>2, EndFields
<1>6. last \in Nat /\ pos \in Nat /\ k \in Nat /\ Len(S) \in Nat /\ Len(W) \in Nat
    BY <1>5
<1>7. /\ Incoming(e) = ReadFrame(Client.codec, k, Heard(e))
      /\ Len(Heard(e)) = Len(W)
      /\ k = Len(S) => Incoming(e) = More
      /\ k < Len(S) => ReadsAs(Client.codec, k, S[k + 1], Heard(e))
    BY <1>2, <1>3, <1>5, IncomingRead, Zenon
<1>8. Flows(r) /\ Delivered(r) /\ Flows(e) /\ Delivered(e)
    BY <1>2 DEF TransportInv
<1>9. /\ k <= Len(S) /\ Streams(r, Client.codec, Client.obfuscated, W, S, last, pos, k, 0)
      /\ end[r].why = "" => Len(W) = 0 + (last - pos)
      /\ Len(got[e]) = k
    BY <1>2, <1>3, <1>4, <1>5, <1>8, Zenon DEF Flows, Delivered
<1>10. Incoming(e).status # "more" => k < Len(S)
  <2>1. k <= Len(S) /\ (k = Len(S) => Incoming(e) = More)
      BY <1>7, <1>9, Zenon
  <2>2. k < Len(S) \/ k = Len(S)
      BY <1>6, <2>1
  <2> QED
      BY <2>1, <2>2, Statuses, Zenon
<1>11. Client.codec # NoCodec
    BY <1>4, NoCodecIsNone
<1>12. CASE Incoming(e).status = "invalid" /\ Fail(e, "invalid")
  <2>1. k < Len(S)
      BY <1>10, <1>12
  <2>2. TooLong(Client.codec, S[k + 1])
      BY <1>7, <1>12, <2>1, FrameRefused
  <2>3. Len(got[e]) < Len(sent[Peer(e)]) /\ TooLong(end[e].codec, sent[Peer(e)][Len(got[e]) + 1])
      BY <1>2, <1>4, <1>5, <1>9, <2>1, <2>2, Zenon
  <2> QED
      BY <1>3, <1>11, <1>12, <2>3, FailKeeps
<1>13. CASE Incoming(e).status = "more" /\ ~Running(r) /\ Fail(e, "closed")
    BY <1>3, <1>11, <1>13, FailKeeps
<1>14. CASE /\ Incoming(e).status = "frame"
            /\ wire' = [wire EXCEPT ![r] = SubSeq(@, Incoming(e).used + 1, Len(@))]
            /\ end' = [end EXCEPT ![e].read_seq_no = @ + 1, ![e].read_pos = @ + Incoming(e).used,
                        ![e].why = IF Len(Incoming(e).payload) = 4 THEN "protocol" ELSE ""]
            /\ got' = IF Len(Incoming(e).payload) = 4 THEN got
                      ELSE [got EXCEPT ![e] = Append(@, Incoming(e).payload)]
            /\ sent' = sent
  <2>1. k < Len(S)
      BY <1>10, <1>14
  <2>2. PICK p \in Seq(Byte) : p = S[k + 1] /\ Writable(Client.codec, p)
    <3>1. k + 1 \in 1 .. Len(sent[r])
        BY <1>5, <2>1
    <3> QED
        BY <1>2, <1>5, <3>1, SentFrames
  <2>3. PICK F \in Seq(Byte) : F = Framed(Client.codec, k, p) /\ Len(F) \in Nat
      BY <1>4, <1>5, <2>2, FramedBytes
  <2>4. PICK f \in Nat :
            f = Len(F) /\ Incoming(e).used = f /\ Incoming(e).payload = p /\ f <= Len(W)
    <3>1. ReadsAs(Client.codec, k, p, Heard(e))
        BY <1>7, <2>1, <2>2, Zenon
    <3>2. /\ Incoming(e).used = Len(F) /\ Incoming(e).payload = p /\ Len(Heard(e)) >= Len(F)
      <4>1. ReadFrame(Client.codec, k, Heard(e)).status = "frame"
          BY <1>7, <1>14, Zenon
      <4>2. /\ ReadFrame(Client.codec, k, Heard(e)).used = Len(Framed(Client.codec, k, p))
            /\ ReadFrame(Client.codec, k, Heard(e)).payload = p
            /\ Len(Heard(e)) >= Len(Framed(Client.codec, k, p))
          BY <3>1, <4>1, FrameTaken, Zenon
      <4> QED
          BY <1>7, <2>3, <4>2, Zenon
    <3>3. Len(F) <= Len(W)
        BY <1>5, <1>7, <2>3, <3>2
    <3> QED
        BY <2>3, <3>2, <3>3, Zenon
  <2>5. PICK why : why = (IF Len(p) = 4 THEN "protocol" ELSE "") /\ (why = "protocol" \/ why = "")
      BY Zenon
  <2>6. /\ wire' = [wire EXCEPT ![r] = SubSeq(W, f + 1, Len(W))]
        /\ end' = [end EXCEPT ![e].read_seq_no = k + 1, ![e].read_pos = pos + f, ![e].why = why]
        /\ got' = IF Len(p) = 4 THEN got ELSE [got EXCEPT ![e] = Append(@, p)]
      BY <1>5, <1>14, <2>4, <2>5, Zenon
  <2>7. PICK W2 \in Seq(Byte) : W2 = SubSeq(W, f + 1, Len(W)) /\ Len(W2) = Len(W) - f
      BY <1>5, <2>4, Dropped
  <2>8. wire' \in [Ends -> Seq(Byte)] /\ wire'[r] = W2 /\ wire'[e] = wire[e]
      BY <1>1, <1>2, <2>6, <2>7 DEF TransportTypes
  <2>9. /\ end' \in [Ends -> EndStates] /\ end'[r] = end[r] /\ end'[e].read_seq_no = k + 1
        /\ end'[e].read_pos = pos + f /\ end'[e].why = why
    <3>1. k + 1 \in Nat /\ pos + f \in Nat
      <4>1. f \in Nat
          BY <2>4, Zenon
      <4> QED
          BY <1>6, <4>1
    <3> QED
      <4>1. why \in {"", "invalid", "closed", "protocol"}
          BY <2>5, Zenon
      <4>2. PICK a \in Nat, b \in Nat : a = k + 1 /\ b = pos + f
          BY <3>1
      <4>3. end' = [end EXCEPT ![e].read_seq_no = a, ![e].read_pos = b, ![e].why = why]
          BY <2>6, <4>2, Zenon
      <4>4. end \in [Ends -> EndStates]
          BY <1>1 DEF TransportTypes
      <4>5. /\ end' \in [Ends -> EndStates] /\ end'[r] = end[r] /\ end'[e].read_seq_no = a
            /\ end'[e].read_pos = b /\ end'[e].why = why
        <5>1. a \in Nat /\ b \in Nat
            BY <4>2, Zenon
        <5> QED
            BY <1>2, <4>1, <4>3, <4>4, <5>1, ZenonT(40) DEF EndStates
      <4> QED
          BY <4>2, <4>5, Zenon
  <2>10. ASSUME NEW d \in Ends
         PROVE  /\ end'[d].codec = end[d].codec /\ end'[d].obfuscated = end[d].obfuscated
                /\ end'[d].write_seq_no = end[d].write_seq_no
                /\ end'[d].write_pos = end[d].write_pos
      BY <1>1, <2>6 DEF TransportTypes, EndStates
  <2>11. got' \in [Ends -> Seq(Seq(Byte))] /\ got'[r] = got[r]
         /\ got'[e] = IF Len(p) = 4 THEN got[e] ELSE Append(got[e], p)
    <3>1. got[e] \in Seq(Seq(Byte)) /\ got \in [Ends -> Seq(Seq(Byte))]
        BY <1>1 DEF TransportTypes
    <3>2. Append(got[e], p) \in Seq(Seq(Byte))
        BY <2>2, <3>1, Appended
    <3>3. CASE Len(p) = 4
        BY <2>6, <3>1, <3>3
    <3>4. CASE Len(p) # 4
        BY <1>2, <2>6, <3>1, <3>2, <3>4
    <3> QED
        BY <3>3, <3>4
  <2>12. /\ Client'.codec = Client.codec /\ Client'.obfuscated = Client.obfuscated
         /\ Server'.codec = Server.codec /\ Server'.obfuscated = Server.obfuscated
         /\ Server'.write_pos = Server.write_pos
      BY <2>10 DEF Client, Server, Ends
  <2>13. TransportTypes'
      BY <1>1, <1>14, <2>8, <2>9, <2>11 DEF TransportTypes
  <2>14. NotStarted' /\ Agreed'
      BY <1>1, <1>11, <2>12 DEF NotStarted, Agreed
  <2>15. Server.codec # NoCodec
    <3>1. CASE e = "server"
        BY <1>3, <3>1 DEF Server
    <3>2. CASE e = "client"
      <4>1. r = "server"
          BY <1>2, <3>2 DEF Ends
      <4>2. SUFFICES ASSUME Server.codec = NoCodec PROVE FALSE
          OBVIOUS
      <4>3. S = <<>>
          BY <1>1, <1>5, <4>1, <4>2 DEF NotDetected
      <4>4. Len(S) = 0
          BY <4>3
      <4> QED
          BY <1>6, <2>1, <4>4
    <3> QED
        BY <3>1, <3>2 DEF Ends
  <2>16. NotDetected' /\ Announced'
      BY <2>12, <2>15 DEF NotDetected, Announced
  <2>17. Numbered'
      BY <1>1, <1>14, <2>10, <2>12 DEF Numbered
  <2>18. Flows(r)'
    <3>1. Skip(r)' = Skip(r) /\ Pos(r)' = Pos(r)
        BY <1>2, <2>9, <2>12, PlacesKept
    <3>2. end'[e].why = "" => end[e].why = ""
        BY <1>3
    <3> QED
        BY <1>2, <1>8, <1>14, <2>8, <2>9, <2>10, <2>12, <3>1, <3>2, FlowsKept, ZenonT(40)
  <2>19. Flows(e)'
    <3>1. Skip(e)' = 0 /\ Pos(e)' = pos + f /\ Peer(e)' = r
        BY <1>2, <2>9, <2>12, <2>15 DEF Skip, Pos, Peer
    <3>2. Frame(Client.codec, S, k + 1) = F
      <4>1. (k + 1) - 1 = k
          BY <1>6
      <4> QED
          BY <2>2, <2>3, <4>1, Zenon DEF Frame
    <3>3. Streams(r, Client.codec, Client.obfuscated, W2, S, last, pos + f, k + 1, 0)
      <4>1. /\ W \in Seq(Byte) /\ S \in Seq(Seq(Byte)) /\ last \in Nat /\ pos \in Nat /\ k \in Nat
            /\ f \in Nat /\ f <= Len(W)
          BY <1>5, <2>4, Zenon
      <4>2. f = Len(Frame(Client.codec, S, k + 1))
          BY <2>4, <3>2, Zenon
      <4>3. Streams(r, Client.codec, Client.obfuscated, W, S, last, pos, k, 0)
          BY <1>9, Zenon
      <4>4. Streams(r, Client.codec, Client.obfuscated, SubSeq(W, f + 1, Len(W)), S, last,
                    pos + f, k + 1, 0)
          BY <2>1, <4>1, <4>2, <4>3, StreamRead, Zenon
      <4> QED
          BY <2>7, <4>4, Zenon
    <3>4. k + 1 <= Len(S)
        BY <1>6, <2>1
    <3>5. end[r].why = "" => Len(W2) = 0 + (last - (pos + f))
      <4>1. PICK w \in Nat, w2 \in Nat : w = Len(W) /\ w2 = Len(W2) /\ w2 = w - f
          BY <1>6, <2>7
      <4>2. end[r].why = "" => w = 0 + (last - pos)
          BY <1>9, <4>1, Zenon
      <4>3. w = 0 + (last - pos) => w2 = 0 + (last - (pos + f))
        <5>1. f \in Nat /\ w \in Nat /\ w2 = w - f
            BY <2>4, <4>1, Zenon
        <5> QED
            BY <1>6, <5>1
      <4> QED
          BY <4>1, <4>2, <4>3, Zenon
    <3>6. end'[r].why = end[r].why /\ end'[r].write_pos = last /\ sent'[r] = S
        BY <1>5, <1>14, <2>9
    <3> QED
        BY <1>2, <2>8, <2>9, <2>12, <3>1, <3>3, <3>4, <3>5, <3>6, Zenon DEF Flows
  <2>20. Delivered(r)'
    <3>1. end'[r] = end[r] /\ got'[r] = got[r] /\ sent' = sent
        BY <1>14, <2>9, <2>11
    <3> QED
        BY <1>2, <1>8, <3>1, DeliveredKept
  <2>21. Delivered(e)'
    <3>1. end'[e].why = IF Len(p) = 4 THEN "protocol" ELSE ""
        BY <2>5, <2>9, Zenon
    <3>2. Takes(e)
        BY <1>2, <1>3, <1>5, <1>14, <2>1, <2>2, <2>9, <2>11, <3>1, Zenon DEF Takes
    <3> QED
        BY <1>1, <1>8, <3>2, DeliveredNext
  <2>22. \A d \in Ends : d = e \/ d = r
      BY <1>2 DEF Ends
  <2> QED
      BY <2>13, <2>14, <2>16, <2>17, <2>18, <2>19, <2>20, <2>21, <2>22 DEF TransportInv
<1> QED
    BY <1>2, <1>12, <1>13, <1>14, Zenon DEF Read

(* Detection finds the client's transport or waits; it refuses none.       *)
LEMMA DetectedRight ==
    ASSUME TransportInv, Server.codec = NoCodec
    PROVE  /\ Client.codec = NoCodec => DetectTransport(wire["client"]) = More
           /\ Client.codec # NoCodec =>
                DetectsAs(Client.codec, Client.obfuscated, wire["client"])
<1>1. TransportTypes /\ NotStarted /\ Agreed /\ Announced
    BY DEF TransportInv
<1>2. CASE Client.codec = NoCodec
  <2>1. wire["client"] = <<>>
      BY <1>1, <1>2 DEF NotStarted
  <2> QED
      BY <1>2, <2>1 DEF DetectTransport
<1>3. CASE Client.codec # NoCodec
  <2>1. PICK W \in Seq(Byte) : W = wire["client"]
      BY <1>1 DEF TransportTypes, Ends
  <2>2. PICK codec \in Codecs : codec = Client.codec
      BY <1>1, <1>3, EndFields DEF Client, Ends
  <2>3. Client.obfuscated \in BOOLEAN /\ (Client.obfuscated => codec # "full")
      BY <1>1, <2>2, EndFields DEF Client, Ends, Agreed
  <2>4. Agrees(W, Header(codec, Client.obfuscated))
      BY <1>1, <1>3, <2>1, <2>2 DEF Announced
  <2>5. CASE Client.obfuscated = TRUE
    <3>1. Header(codec, TRUE) = ObfuscatedInit(codec)
        BY Zenon DEF Header
    <3>2. codec \in Codecs \ {"full"} /\ Agrees(W, ObfuscatedInit(codec))
        BY <2>2, <2>3, <2>4, <2>5, <3>1
    <3>3. DetectsAs(codec, TRUE, W)
        BY <2>1, <3>2, ObfuscatedDetected
    <3> QED
        BY <1>3, <2>1, <2>2, <2>5, <3>3
  <2>6. CASE Client.obfuscated = FALSE /\ codec = "abridged"
    <3>1. Header("abridged", FALSE) = <<AbridgedStart>>
        BY DEF Header
    <3>2. DetectsAs("abridged", FALSE, W)
        BY <2>1, <2>4, <2>6, <3>1, AbridgedDetected
    <3> QED
        BY <1>3, <2>1, <2>2, <2>6, <3>2
  <2>7. CASE Client.obfuscated = FALSE /\ codec \in {"intermediate", "padded"}
    <3>1. Header(codec, FALSE) = Tag(codec)
        BY <2>7 DEF Header
    <3>2. DetectsAs(codec, FALSE, W)
        BY <2>1, <2>4, <2>7, <3>1, TaggedDetected
    <3> QED
        BY <1>3, <2>1, <2>2, <2>7, <3>2
  <2>8. CASE Client.obfuscated = FALSE /\ codec = "full"
    <3>1. PICK S \in Seq(Seq(Byte)), last \in Nat : S = sent["client"] /\ last = Client.write_pos
        BY <1>1, EndFields DEF Client, Ends
    <3>2. Header("full", FALSE) = <<>> /\ Len(<<>>) = 0
        BY DEF Header
    <3>3. /\ Pos("server") = 0 /\ Skip("server") = 0 /\ Server.read_seq_no = 0
          /\ Peer("server") = "client" /\ Flows("server")
      <4>1. Server.read_seq_no = 0
          BY DEF TransportInv, NotDetected
      <4>2. Pos("server") = 0
          BY <2>8, Zenon DEF Pos
      <4>3. Skip("server") = 0
          BY <1>3, <2>2, <2>8, <3>2, Zenon DEF Skip
      <4> QED
          BY <4>1, <4>2, <4>3, Peers DEF TransportInv, Ends
    <3>4. Streams("client", codec, Client.obfuscated, W, S, last, 0, 0, 0)
        BY <2>1, <2>2, <3>1, <3>3, Zenon DEF Flows, Client, Server
    <3>5. CASE S = <<>>
      <4>1. Len(S) = 0
          BY <3>5
      <4>2. Len(W) <= 0 + (last - 0) /\ last = 0
        <5>1. 0 <= Len(S) /\ 0 \in Nat
            BY <3>1
        <5> QED
            BY <3>1, <3>4, <4>1, <5>1, StreamLength
      <4>3. W = <<>>
        <5>1. PICK w \in Nat : w = Len(W)
            BY <2>1
        <5>2. w = 0
            BY <4>2, <5>1
        <5> QED
            BY <2>1, <5>1, <5>2, EmptySeq
      <4>4. DetectTransport(<<>>) = More /\ ~(Len(<<>>) >= 8)
          BY DEF DetectTransport
      <4>5. DetectsAs("full", FALSE, <<>>)
          BY <3>2, <4>4, NotYetDetected, Zenon
      <4> QED
          BY <1>3, <2>1, <2>2, <2>8, <4>3, <4>5, Zenon
    <3>6. CASE S # <<>>
      <4>1. 1 \in 1 .. Len(sent["client"]) /\ 0 < Len(S)
          BY <3>1, <3>6
      <4>2. PICK p \in Seq(Byte) :
                p = S[1] /\ Writable("full", p) /\ Len(p) \in Sizes
          BY <2>2, <2>8, <3>1, <4>1, SentFrames DEF Ends
      <4>3. (4 + 4 + Len(p) + 4) % Base # Base - 1
          BY <4>2, TransportConstants
      <4>4. Agrees(Clear("client", Client.obfuscated, 0, W), Frame(codec, S, 0 + 1))
        <5>1. 0 \in Nat
            OBVIOUS
        <5> QED
            BY <2>1, <2>3, <3>1, <3>4, <4>1, <5>1, StreamFront
      <4>5. Agrees(W, Framed("full", 0, p))
        <5>1. Clear("client", FALSE, 0, W) = W
            BY Zenon DEF Clear
        <5>2. 0 + 1 = 1 /\ 1 - 1 = 0
            OBVIOUS
        <5>3. Frame("full", S, 1) = Framed("full", 0, p)
            BY <4>2, <5>2, Zenon DEF Frame
        <5> QED
            BY <2>8, <4>4, <5>1, <5>2, <5>3, Zenon
      <4>6. DetectsAs("full", FALSE, W)
          BY <2>1, <4>2, <4>3, <4>5, FullDetected
      <4> QED
          BY <1>3, <2>1, <2>2, <2>8, <4>6, Zenon
    <3> QED
        BY <3>5, <3>6
  <2> QED
      BY <2>2, <2>3, <2>5, <2>6, <2>7, <2>8 DEF Codecs
<1> QED
    BY <1>2, <1>3

(* Detect: the header goes, and the frames are where the codec reads next, *)
(* in step with the keystream after the init.                              *)
LEMMA DetectKeeps ==
    ASSUME TransportInv, Detect
    PROVE  TransportInv'
<1>1. TransportTypes /\ NotStarted /\ NotDetected /\ Agreed /\ Announced /\ Numbered
    BY DEF TransportInv
<1>2. Server.codec = NoCodec /\ end["server"].why = ""
    BY DEF Detect, Running, Server
<1>3. PICK found : found = DetectTransport(wire["client"])
    OBVIOUS
<1>4. "client" \in Ends /\ "server" \in Ends /\ Peer("client") = "server" /\ Peer("server") = "client"
    BY Peers DEF Ends
<1>5. Client.codec = NoCodec => found.status = "more"
    BY <1>2, <1>3, DetectedRight, Statuses
<1>6. Client.codec # NoCodec =>
        /\ found.status = "more" \/
            found = Detected(Client.codec, Len(Header(Client.codec, Client.obfuscated)), Client.obfuscated)
        /\ found.status # "more" =>
            Len(wire["client"]) >= Len(Header(Client.codec, Client.obfuscated))
  <2>1. SUFFICES ASSUME Client.codec # NoCodec
        PROVE  /\ found.status = "more" \/
                   found = Detected(Client.codec, Len(Header(Client.codec, Client.obfuscated)), Client.obfuscated)
               /\ found.status # "more" =>
                   Len(wire["client"]) >= Len(Header(Client.codec, Client.obfuscated))
      OBVIOUS
  <2>2. DetectsAs(Client.codec, Client.obfuscated, wire["client"])
      BY <1>2, <2>1, DetectedRight
  <2>3. More.status = "more"
      BY Statuses
  <2> QED
      BY <1>3, <2>2, <2>3, Zenon DEF DetectsAs
<1>7. CASE found.status = "more" /\ ~Running("client") /\ Fail("server", "closed")
  <2>1. Client.codec # NoCodec
      BY <1>1, <1>7 DEF NotStarted, Running, Client
  <2> QED
      BY <1>2, <1>4, <1>7, <2>1, FailKeeps DEF Server
<1>8. CASE found.status = "invalid" /\ Fail("server", "invalid")
  <2>1. \A codec, used, obfuscated : Detected(codec, used, obfuscated).status = "codec"
      BY DetectedFields
  <2> QED
      BY <1>5, <1>6, <1>8, <2>1
<1>9. CASE /\ found.status = "codec"
           /\ end' = [end EXCEPT !["server"].codec = found.codec,
                                 !["server"].obfuscated = found.obfuscated,
                                 !["server"].read_pos = IF found.obfuscated THEN AcceptedPos ELSE 0]
           /\ wire' = [wire EXCEPT !["client"] = SubSeq(@, found.used + 1, Len(@))]
           /\ sent' = sent /\ got' = got
  <2>1. found.status # "more" /\ Client.codec # NoCodec
      BY <1>5, <1>9
  <2>2. PICK codec \in Codecs, obfuscated \in BOOLEAN :
            codec = Client.codec /\ obfuscated = Client.obfuscated
      BY <1>1, <1>4, <2>1, EndFields DEF Client
  <2>3. PICK head \in Nat : head = Len(Header(codec, obfuscated))
      BY <1>1, <2>2, HeaderBytes DEF Agreed
  <2>4. PICK W \in Seq(Byte) : W = wire["client"] /\ head <= Len(W)
    <3>1. wire["client"] \in Seq(Byte)
        BY <1>1, <1>4 DEF TransportTypes
    <3>2. Len(wire["client"]) >= head
        BY <1>6, <2>1, <2>2, <2>3, Zenon
    <3>3. PICK w \in Nat : w = Len(wire["client"])
        BY <3>1
    <3>4. head <= w
        BY <2>3, <3>2, <3>3
    <3> QED
        BY <3>1, <3>3, <3>4, Zenon
  <2>5. found.codec = codec /\ found.used = head /\ found.obfuscated = obfuscated
    <3>1. found = Detected(codec, head, obfuscated)
        BY <1>6, <2>1, <2>2, <2>3, Zenon
    <3> QED
        BY <3>1, DetectedFields
  <2>6. PICK pos \in Nat : pos = (IF obfuscated THEN InitLen ELSE 0)
      BY InitLenType
  <2>7. end' = [end EXCEPT !["server"].codec = codec, !["server"].obfuscated = obfuscated,
                           !["server"].read_pos = pos]
      BY <1>9, <2>5, <2>6, Zenon DEF AcceptedPos
  <2>8. PICK W2 \in Seq(Byte) : W2 = SubSeq(W, head + 1, Len(W)) /\ Len(W2) = Len(W) - head
      BY <2>3, <2>4, Dropped
  <2>9. wire' \in [Ends -> Seq(Byte)] /\ wire'["client"] = W2 /\ wire'["server"] = wire["server"]
    <3>1. wire' = [wire EXCEPT !["client"] = W2]
        BY <1>9, <2>4, <2>5, <2>8, Zenon
    <3> QED
        BY <1>1, <1>4, <2>8, <3>1 DEF TransportTypes
  <2>10. /\ end' \in [Ends -> EndStates] /\ end'["client"] = end["client"]
         /\ end'["server"].codec = codec /\ end'["server"].read_pos = pos
         /\ end'["server"].write_seq_no = end["server"].write_seq_no
         /\ end'["server"].read_seq_no = end["server"].read_seq_no
         /\ end'["server"].write_pos = end["server"].write_pos
         /\ end'["server"].why = end["server"].why
    <3>1. codec \in Codecs /\ obfuscated \in BOOLEAN /\ pos \in Nat
        BY <2>2, <2>6, Zenon
    <3>2. end \in [Ends -> EndStates]
        BY <1>1 DEF TransportTypes
    <3>3. end'["client"] = end["client"]
        BY <1>4, <2>7, <3>2
    <3>4. /\ end'["server"].codec = codec /\ end'["server"].read_pos = pos
          /\ end'["server"].write_seq_no = end["server"].write_seq_no
          /\ end'["server"].read_seq_no = end["server"].read_seq_no
          /\ end'["server"].write_pos = end["server"].write_pos
          /\ end'["server"].why = end["server"].why
        BY <1>4, <2>7, <3>2, ZenonT(40) DEF EndStates
    <3>5. end' \in [Ends -> EndStates]
      <4>1. end["server"] \in EndStates
          BY <1>4, <3>2
      <4>2. PICK x : x = [end["server"] EXCEPT !.codec = codec, !.obfuscated = obfuscated,
                                              !.read_pos = pos]
          OBVIOUS
      <4>3. x \in EndStates
          BY <3>1, <4>1, <4>2 DEF EndStates
      <4>4. end' = [end EXCEPT !["server"] = x]
          BY <1>4, <2>7, <3>2, <4>2
      <4> QED
          BY <1>4, <3>2, <4>3, <4>4
    <3> QED
        BY <3>3, <3>4, <3>5
  <2>11. end'["server"].obfuscated = obfuscated
    <3>1. end \in [Ends -> EndStates] /\ end["server"] \in EndStates
        BY <1>1, <1>4 DEF TransportTypes
    <3>2. PICK x : x = [end["server"] EXCEPT !.codec = codec, !.obfuscated = obfuscated,
                                            !.read_pos = pos]
        OBVIOUS
    <3>3. x.obfuscated = obfuscated
        BY <3>1, <3>2 DEF EndStates
    <3>4. end' = [end EXCEPT !["server"] = x]
        BY <1>4, <2>7, <3>1, <3>2
    <3>5. end'["server"] = x
        BY <1>4, <3>1, <3>4
    <3> QED
        BY <3>3, <3>5, Zenon
  <2>12. /\ Client' = Client /\ Server'.codec = codec /\ Server'.obfuscated = obfuscated
         /\ Server'.codec # NoCodec
      BY <2>2, <2>10, <2>11, NoCodecIsNone DEF Client, Server
  <2>13. TransportTypes'
      BY <1>1, <1>9, <2>9, <2>10 DEF TransportTypes
  <2>14. NotStarted' /\ NotDetected' /\ Announced'
      BY <2>1, <2>12 DEF NotStarted, NotDetected, Announced
  <2>15. Agreed'
      BY <1>1, <2>2, <2>12 DEF Agreed
  <2>16. Numbered'
    <3>1. \A d \in Ends : end'[d].write_seq_no = end[d].write_seq_no
        BY <2>10 DEF Ends
    <3> QED
        BY <1>1, <1>9, <2>12, <3>1 DEF Numbered
  <2>17. Flows("client")'
    <3>1. Flows("client")
        BY <1>4 DEF TransportInv
    <3>2. Skip("client")' = Skip("client") /\ Pos("client")' = Pos("client")
        BY <2>10 DEF Skip, Pos
    <3>3. end'["server"].why = "" => end["server"].why = ""
        BY <2>10
    <3> QED
        BY <1>4, <1>9, <2>9, <2>10, <2>12, <3>1, <3>2, <3>3, FlowsKept
  <2>18. Flows("server")'
    <3>1. PICK S \in Seq(Seq(Byte)), last \in Nat, k \in Nat :
            S = sent["client"] /\ last = end["client"].write_pos /\ k = end["server"].read_seq_no
        BY <1>1, <1>4, EndFields
    <3>2. Flows("server") /\ Skip("server") = head /\ Pos("server") = pos
      <4>1. Skip("server") = head
          BY <1>2, <2>1, <2>2, <2>3, Zenon DEF Skip
      <4>2. Pos("server") = pos
          BY <1>2, <2>2, <2>6, Zenon DEF Pos
      <4> QED
          BY <1>4, <4>1, <4>2 DEF TransportInv
    <3>3. /\ k <= Len(S) /\ Streams("client", codec, obfuscated, W, S, last, pos, k, head)
          /\ end["client"].why = "" => Len(W) = head + (last - pos)
        BY <1>4, <2>2, <2>4, <3>1, <3>2, Zenon DEF Flows
    <3>4. Streams("client", codec, obfuscated, W2, S, last, pos, k, 0)
      <4>1. /\ W \in Seq(Byte) /\ S \in Seq(Seq(Byte)) /\ last \in Nat /\ pos \in Nat /\ k \in Nat
            /\ head \in Nat /\ head <= Len(W)
          BY <2>3, <2>4, <2>6, <3>1, Zenon
      <4>2. k <= Len(S) /\ Streams("client", codec, obfuscated, W, S, last, pos, k, head)
          BY <3>3, Zenon
      <4>3. Streams("client", codec, obfuscated, SubSeq(W, head + 1, Len(W)), S, last, pos, k, 0)
          BY <4>1, <4>2, StreamDetected, Zenon
      <4> QED
          BY <2>8, <4>3, Zenon
    <3>5. end["client"].why = "" => Len(W2) = 0 + (last - pos)
      <4>1. PICK w \in Nat, w2 \in Nat : w = Len(W) /\ w2 = Len(W2) /\ w2 = w - head
          BY <2>4, <2>8
      <4>2. end["client"].why = "" => w = head + (last - pos)
          BY <3>3, <4>1, Zenon
      <4>3. w = head + (last - pos) => w2 = 0 + (last - pos)
        <5>1. head \in Nat /\ last \in Nat /\ pos \in Nat /\ w \in Nat /\ w2 = w - head
            BY <2>3, <2>6, <3>1, <4>1, Zenon
        <5> QED
            BY <5>1
      <4> QED
          BY <4>1, <4>2, <4>3, Zenon
    <3>6. Skip("server")' = 0 /\ Pos("server")' = pos /\ Peer("server")' = "client"
        BY <1>4, <2>10, <2>12 DEF Skip, Pos, Peer
    <3>7. /\ end'["server"].read_seq_no = k /\ end'["client"] = end["client"] /\ sent' = sent
        BY <1>9, <2>10, <3>1
    <3> QED
        BY <2>2, <2>9, <2>12, <3>1, <3>3, <3>4, <3>5, <3>6, <3>7, Zenon DEF Flows
  <2>19. Delivered("client")'
    <3>1. Delivered("client")
        BY <1>4 DEF TransportInv
    <3> QED
        BY <1>4, <1>9, <2>10, <3>1, DeliveredKept
  <2>20. Delivered("server")'
    <3>1. Delivered("server")
        BY <1>4 DEF TransportInv
    <3>2. end'["server"].why = "" /\ end["server"].why = ""
          /\ end'["server"].read_seq_no = end["server"].read_seq_no
        BY <1>2, <2>10
    <3> QED
        BY <1>9, <3>1, <3>2 DEF Delivered
  <2> QED
      BY <2>13, <2>14, <2>15, <2>16, <2>17, <2>18, <2>19, <2>20 DEF TransportInv, Ends
<1> QED
    BY <1>3, <1>7, <1>8, <1>9, Zenon DEF Detect

(* Every step of the connection keeps the invariant.                       *)
LEMMA TransportStep ==
    ASSUME TransportInv, [TransportNext]_transportVars
    PROVE  TransportInv'
<1>1. CASE \E codec \in Codecs, obfuscated \in BOOLEAN : Start(codec, obfuscated)
    BY <1>1, StartKeeps
<1>2. CASE Detect
    BY <1>2, DetectKeeps
<1>3. CASE \E e \in Ends : Read(e)
    BY <1>3, ReadKeeps
<1>4. CASE \E e \in Ends : \E payload \in Payloads(e) : Write(e, payload)
    BY <1>4, WriteKeeps
<1>5. CASE HangUp
    BY <1>5, HangUpKeeps
<1>6. CASE UNCHANGED transportVars
  <2>1. wire' = wire /\ end' = end /\ sent' = sent /\ got' = got
      BY <1>6 DEF transportVars
  <2> QED
      BY <2>1, Zenon DEF TransportInv, TransportTypes, NotStarted, NotDetected, Agreed, Announced,
                         Numbered, Flows, Delivered, Skip, Pos, Client, Server
<1>7. CASE Stopped
    BY <1>6, <1>7 DEF Stopped
<1> QED
    BY <1>1, <1>2, <1>3, <1>4, <1>5, <1>6, <1>7, Zenon DEF TransportNext

(* TransportInv is an invariant of the codecs: whatever was written and    *)
(* not read is on the wire frame after frame, in step with the keystream.  *)
THEOREM TransportInvariance == TransportSpec => []TransportInv
BY TransportStarts, TransportStep, PTL DEF TransportSpec

(* The server speaks what the client chose, and each end has read exactly  *)
(* the first payloads that the other wrote, whatever the codec, obfuscated *)
(* or not, and wherever the connection was cut.                            *)
THEOREM FramesStayInOrder == TransportSpec => []FramesInOrder
BY TransportInvariance, TransportInOrder, PTL

(* What Write accepts, Read accepts: a frame is refused only when what its *)
(* codec adds takes it over kMaxMessageSize, an error is thrown only for a *)
(* payload of four bytes, and an end of a live connection waits if and     *)
(* only if it has read everything.                                         *)
THEOREM WrittenStaysReadable == TransportSpec => []WrittenIsReadable
BY TransportInvariance, TransportReadable, PTL
=============================================================================
