------------------------------ MODULE Exchange ------------------------------
(***************************************************************************)
(* ServerExchange::Run message by message: a server thread and a client    *)
(* over one TCP connection, which run several exchanges one after another. *)
(*                                                                         *)
(* The server acts when it has read a frame: a step is everything it does  *)
(* from one read to the next.  Random values are numbered: the n-th        *)
(* exchange of the server has server_nonce and secret a = n, the m-th of   *)
(* the client new_nonce and secret b = m, and the auth key is <<a, b>>.    *)
(* The client is written from what the server and its tests expect of one; *)
(* it may repeat req_pq, acknowledge anything, go wrong, and hang up.      *)
(***************************************************************************)
EXTENDS Integers, Sequences

CONSTANTS
    MaxExchanges,  \* bound on the client's exchanges
    MaxReqPqs,     \* bound on the req_pq messages, repeated ones included
    MaxInt,        \* largest signed 32-bit number
    Times,         \* what the system clock may show, in seconds
    Lifetimes      \* the expires_in a client may ask for

ASSUME ExchangeConstants ==
    /\ MaxExchanges \in Nat \ {0} /\ MaxReqPqs \in Nat /\ MaxInt \in Nat \ {0}
    /\ Times \subseteq 1 .. MaxInt
    /\ Lifetimes \subseteq -(MaxInt + 1) .. MaxInt

VARIABLES
    server,     \* locals of ServerExchange::Run and of its caller
    client,
    to_server,  \* the two directions of the TCP connection
    to_client,
    made,       \* the results of Run: expires_at of an auth key
    taken       \* the keys the client has accepted, and if they are temporary

vars == <<server, client, to_server, to_client, made, taken>>

Count == 0 .. MaxReqPqs

(* A client that strays may make the server begin one exchange more.       *)
ServerNonces == 0 .. MaxExchanges + 1

AuthKeys == (1 .. MaxExchanges) \X (1 .. MaxExchanges)

(* The kinds of p_q_inner_data: plain and dc, or temp_dc with a lifetime.  *)
Requests == [temp : {FALSE}, expires_in : {0}] \cup [temp : {TRUE}, expires_in : Lifetimes]

Inner == [new_nonce : 1 .. MaxExchanges, request : Requests]

Garbled == [new_nonce |-> 0]  \* what RsaUnpad or Decode throws at

ReqPqMessage == [id : {"req_pq"}, nonce : Count]

ReqDhParamsMessage == [id : {"req_DH_params"}, inner : Inner \cup {Garbled}]

(* sealed: the nonces that client_DH_inner_data was encrypted with.        *)
SetClientDhMessage == [id : {"set_client_DH_params"}, sealed : ServerNonces \X (0 .. MaxExchanges)]

ToServer == ReqPqMessage \cup ReqDhParamsMessage \cup SetClientDhMessage
                \cup [id : {"msgs_ack", "other", "encrypted"}]

ResPqMessage == [id : {"resPQ"}, nonce : Count, server_nonce : ServerNonces]

ServerDhParamsOk == [id : {"server_DH_params_ok"}, nonce : Count, server_nonce : ServerNonces]

DhGenOk == [id : {"dh_gen_ok"}, nonce : Count, server_nonce : ServerNonces, hash : AuthKeys]

ToClient == ResPqMessage \cup ServerDhParamsOk \cup DhGenOk

Server == [pc : {"req_pq", "req_DH_params", "set_client_DH", "session", "closed"},
           nonce : Count, server_nonce : ServerNonces, new_nonce : 0 .. MaxExchanges,
           expires_at : 0 .. MaxInt,
           why : {"", "unexpected", "garbled", "lifetime", "hangup"},
           refused : {<<>>} \cup (Times \X Lifetimes)]

Client == [pc : {"idle", "resPQ", "server_DH_params", "dh_gen"},
           nonce : Count, server_nonce : ServerNonces, new_nonce : 0 .. MaxExchanges,
           temp : BOOLEAN, strayed : BOOLEAN]

TypeOK ==
    /\ server \in Server
    /\ client \in Client
    /\ to_server \in Seq(ToServer)
    /\ to_client \in Seq(ToClient)
    /\ \A k \in DOMAIN made : k \in AuthKeys /\ made[k] \in 0 .. MaxInt
    /\ \A k \in DOMAIN taken : k \in AuthKeys /\ taken[k] \in BOOLEAN

Init ==
    /\ server = [pc |-> "req_pq", nonce |-> 0, server_nonce |-> 0, new_nonce |-> 0,
                 expires_at |-> 0, why |-> "", refused |-> <<>>]
    /\ client = [pc |-> "idle", nonce |-> 0, server_nonce |-> 0, new_nonce |-> 0,
                 temp |-> FALSE, strayed |-> FALSE]
    /\ to_server = <<>> /\ to_client = <<>>
    /\ made = <<>> /\ taken = <<>>

With(f, k, v) == [x \in DOMAIN f \cup {k} |-> IF x = k THEN v ELSE f[x]]

-----------------------------------------------------------------------------
(* The server.                                                             *)

Open == server.pc \notin {"session", "closed"}

(* The frame that a read returns.                                          *)
Frame == Head(to_server)

Reads(pcs, ids) == to_server # <<>> /\ server.pc \in pcs /\ Frame.id \in ids

Consumed == to_server' = Tail(to_server)

Refuse(why, refused) ==
    /\ server' = [server EXCEPT !.pc = "closed", !.why = why, !.refused = refused]
    /\ Consumed
    /\ UNCHANGED <<client, to_client, made, taken>>

(* A mutation: only the first wait of an exchange expects an ack.          *)
Skipped_FirstOnly == IF server.pc = "req_pq" THEN {"msgs_ack"} ELSE {}

Skipped == {"msgs_ack"}

(* ReadNextRealHandshakeMessage                                            *)
SkipAck ==
    /\ Reads({"req_pq", "req_DH_params", "set_client_DH"}, Skipped)
    /\ Consumed
    /\ UNCHANGED <<server, client, to_client, made, taken>>

(* UnexpectedEncryptedFrameError: the exchange is over.                    *)
LeaveExchange ==
    /\ Reads({"req_pq", "req_DH_params", "set_client_DH"}, {"encrypted"})
    /\ server' = [server EXCEPT !.pc = "session"]
    /\ Consumed
    /\ UNCHANGED <<client, to_client, made, taken>>

(* A message id that is not a client's, another type, or bytes missing:    *)
(* Decode throws.                                                          *)
Expected == CASE server.pc = "req_pq"        -> {"req_pq"}
              [] server.pc = "req_DH_params" -> {"req_pq", "req_DH_params"}
              [] server.pc = "set_client_DH" -> {"set_client_DH_params"}

Unexpected ==
    /\ Open /\ to_server # <<>>
    /\ Frame.id \notin Expected \cup Skipped \cup {"encrypted"}
    /\ Refuse("unexpected", <<>>)

(* A mutation: a repeated req_pq is answered with the first one's nonce.   *)
ReqPqNonce_First == IF server.pc = "req_DH_params" THEN server.nonce ELSE Frame.nonce

ReqPqNonce == Frame.nonce

(* The first req_pq draws server_nonce; a repeated one keeps it.           *)
ReqPq ==
    LET server_nonce == IF server.pc = "req_pq" THEN server.server_nonce + 1
                        ELSE server.server_nonce
    IN
    /\ Reads({"req_pq", "req_DH_params"}, {"req_pq"})
    /\ server' = [server EXCEPT !.pc = "req_DH_params", !.nonce = ReqPqNonce,
                                !.server_nonce = server_nonce]
    /\ to_client' = Append(to_client, [id |-> "resPQ", nonce |-> ReqPqNonce,
                                       server_nonce |-> server_nonce])
    /\ Consumed
    /\ UNCHANGED <<client, made, taken>>

(* static_cast<int>                                                        *)
Int32(n) == ((n + MaxInt + 1) % (2 * (MaxInt + 1))) - (MaxInt + 1)

(* A mutation: the sum is not compared with the largest int32.             *)
LifetimeFits_Wraps(request, now) == request.temp => request.expires_in > 0

(* A mutation: the lifetime is not compared with zero.                     *)
LifetimeFits_AnySign(request, now) == request.temp => now + request.expires_in <= MaxInt

LifetimeFits(request, now) ==
    request.temp => /\ request.expires_in > 0
                    /\ now + request.expires_in > 0
                    /\ now + request.expires_in <= MaxInt

ReqDhParams ==
    /\ Reads({"req_DH_params"}, {"req_DH_params"})
    /\ \E now \in Times :
        LET inner == Frame.inner IN
        \/ /\ inner = Garbled
           /\ Refuse("garbled", <<>>)
        \/ /\ inner # Garbled /\ ~LifetimeFits(inner.request, now)
           /\ Refuse("lifetime", <<now, inner.request.expires_in>>)
        \/ /\ inner # Garbled /\ LifetimeFits(inner.request, now)
           /\ server' = [server EXCEPT !.pc = "set_client_DH", !.new_nonce = inner.new_nonce,
                            !.expires_at = IF inner.request.temp
                                           THEN Int32(now + inner.request.expires_in) ELSE 0]
           /\ to_client' = Append(to_client, [id |-> "server_DH_params_ok",
                                              nonce |-> server.nonce,
                                              server_nonce |-> server.server_nonce])
           /\ Consumed
           /\ UNCHANGED <<client, made, taken>>

(* DecryptExchangeAnswer succeeds under the keys of this exchange.         *)
SetClientDhParams ==
    LET key == <<server.server_nonce, server.new_nonce>> IN
    /\ Reads({"set_client_DH"}, {"set_client_DH_params"})
    /\ IF Frame.sealed = key
       THEN /\ made' = With(made, key, server.expires_at)
            /\ to_client' = Append(to_client, [id |-> "dh_gen_ok", nonce |-> server.nonce,
                                               server_nonce |-> server.server_nonce,
                                               hash |-> key])
            /\ server' = [server EXCEPT !.pc = "req_pq"]
            /\ Consumed
            /\ UNCHANGED <<client, taken>>
       ELSE Refuse("garbled", <<>>)

Serve == SkipAck \/ LeaveExchange \/ Unexpected \/ ReqPq \/ ReqDhParams \/ SetClientDhParams

-----------------------------------------------------------------------------
(* The client.                                                             *)

Send(msgs) == to_server' = to_server \o msgs

(* A new exchange, or req_pq again while the answer is awaited.            *)
SendReqPq ==
    /\ Open
    /\ client.nonce < MaxReqPqs
    /\ \/ client.pc = "idle" /\ client.new_nonce < MaxExchanges
       \/ client.pc = "resPQ"
    /\ client' = [client EXCEPT !.pc = "resPQ", !.nonce = @ + 1,
                    !.new_nonce = IF client.pc = "idle" THEN @ + 1 ELSE @]
    /\ Send(<<[id |-> "req_pq", nonce |-> client.nonce + 1]>>)
    /\ UNCHANGED <<server, to_client, made, taken>>

Answer == Head(to_client)

Ack(acked) == IF acked THEN <<[id |-> "msgs_ack"]>> ELSE <<>>

(* The answer to an earlier req_pq is acknowledged, and then ignored.      *)
Ignore(acked) ==
    /\ to_client # <<>>
    /\ Answer.id = "resPQ" /\ Answer.nonce # client.nonce
    /\ to_client' = Tail(to_client)
    /\ Send(Ack(acked))
    /\ UNCHANGED <<server, client, made, taken>>

TakeResPq(acked, request) ==
    /\ to_client # <<>> /\ client.pc = "resPQ"
    /\ Answer.id = "resPQ" /\ Answer.nonce = client.nonce
    /\ client' = [client EXCEPT !.pc = "server_DH_params", !.temp = request.temp,
                                !.server_nonce = Answer.server_nonce]
    /\ to_client' = Tail(to_client)
    /\ Send(Ack(acked) \o <<[id |-> "req_DH_params",
                inner |-> [new_nonce |-> client.new_nonce, request |-> request]]>>)
    /\ UNCHANGED <<server, made, taken>>

IsMine == Answer.nonce = client.nonce /\ Answer.server_nonce = client.server_nonce

TakeServerDhParams(acked) ==
    /\ to_client # <<>> /\ client.pc = "server_DH_params"
    /\ Answer.id = "server_DH_params_ok" /\ IsMine
    /\ client' = [client EXCEPT !.pc = "dh_gen"]
    /\ to_client' = Tail(to_client)
    /\ Send(Ack(acked) \o <<[id |-> "set_client_DH_params",
                sealed |-> <<client.server_nonce, client.new_nonce>>]>>)
    /\ UNCHANGED <<server, made, taken>>

TakeDhGenOk(acked) ==
    /\ to_client # <<>> /\ client.pc = "dh_gen"
    /\ Answer.id = "dh_gen_ok" /\ IsMine
    /\ Answer.hash = <<client.server_nonce, client.new_nonce>>
    /\ taken' = With(taken, Answer.hash, client.temp)
    /\ client' = [client EXCEPT !.pc = "idle"]
    /\ to_client' = Tail(to_client)
    /\ Send(Ack(acked))
    /\ UNCHANGED <<server, made>>

(* A first message under a key that was agreed on.                         *)
SendEncrypted ==
    /\ Open /\ client.pc = "idle" /\ taken # <<>>
    /\ "encrypted" \notin {to_server[i].id : i \in 1 .. Len(to_server)}
    /\ Send(<<[id |-> "encrypted"]>>)
    /\ UNCHANGED <<server, client, to_client, made, taken>>

(* A client goes wrong, once: req_pq after req_DH_params, an answer sealed *)
(* with other nonces, an undecodable request, or something else.           *)
Stray ==
    /\ Open /\ ~client.strayed
    /\ client' = [client EXCEPT !.strayed = TRUE]
    /\ \E msg \in {[id |-> "other"],
                   [id |-> "req_pq", nonce |-> client.nonce],
                   [id |-> "req_DH_params", inner |-> Garbled],
                   [id |-> "set_client_DH_params", sealed |-> <<0, 0>>]} :
        Send(<<msg>>)
    /\ UNCHANGED <<server, to_client, made, taken>>

HangUp ==
    /\ Open
    /\ server' = [server EXCEPT !.pc = "closed", !.why = "hangup"]
    /\ UNCHANGED <<client, to_server, to_client, made, taken>>

Receive ==
    \E acked \in BOOLEAN :
        \/ Ignore(acked)
        \/ \E request \in Requests : TakeResPq(acked, request)
        \/ TakeServerDhParams(acked)
        \/ TakeDhGenOk(acked)

-----------------------------------------------------------------------------
(* The exchange was left, or the connection is closed.                     *)
Finished ==
    /\ ~Open
    /\ UNCHANGED vars

Next == Serve \/ SendReqPq \/ Receive \/ SendEncrypted \/ Stray \/ HangUp \/ Finished

(* A server thread that can read a frame does, and a client handles what   *)
(* it receives; it need not send, nor ever begin.                          *)
Fairness == WF_vars(Serve) /\ WF_vars(Receive)

Spec == Init /\ [][Next]_vars /\ Fairness

-----------------------------------------------------------------------------
(* Properties.                                                             *)

Agreement == INSTANCE KeyAgreement

(* Message by message, with repeated req_pq, acknowledgements and several  *)
(* exchanges on a connection, both sides end up with the same new key, of  *)
(* the kind the client asked for: a temporary one has an end in int32.     *)
ImplementsAgreement == Agreement!Spec

(* The server refuses nobody who follows the protocol, wherever it repeats *)
(* req_pq or acknowledges: an unexpected or undecodable message was sent   *)
(* by a client that strayed, and a lifetime it refuses does not fit.       *)
OrderlyNotRefused ==
    /\ server.why \in {"unexpected", "garbled"} => client.strayed
    /\ server.why = "lifetime" =>
        server.refused[2] <= 0 \/ server.refused[1] + server.refused[2] > MaxInt

(* An exchange that was begun ends: the client gets its key, unless the    *)
(* exchange is left or the connection closed.  "Resend ResPQ with the      *)
(* retried nonce": a client that repeats req_pq is not left waiting.       *)
ExchangeEnds == client.pc # "idle" ~> client.pc = "idle" \/ client.strayed \/ ~Open
=============================================================================
