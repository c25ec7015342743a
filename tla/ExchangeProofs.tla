--------------------------- MODULE ExchangeProofs ---------------------------
(***************************************************************************)
(* Proofs about Exchange, for every number of exchanges and of req_pq      *)
(* messages, every clock and every lifetime, whatever the width of the     *)
(* integers.                                                               *)
(***************************************************************************)
EXTENDS Exchange, SequenceTheorems, TLAPS

(* A request that names a new_nonce.                                       *)
IsRequest(msg) == msg.id = "req_DH_params" /\ msg.inner # Garbled

(* new_nonce n was drawn by the client; if for its current exchange, then  *)
(* it has asked for a key, and temp is what it asked for.                  *)
Asked(n, temp) ==
    /\ n <= client.new_nonce
    /\ n = client.new_nonce => client.pc # "resPQ" /\ (temp <=> client.temp)

(* The requests on their way: newer than the one that the server handled   *)
(* last, and one after another.                                            *)
RequestsInv ==
    /\ \A i \in 1 .. Len(to_server) : IsRequest(to_server[i]) =>
        /\ server.new_nonce < to_server[i].inner.new_nonce
        /\ Asked(to_server[i].inner.new_nonce, to_server[i].inner.request.temp)
    /\ \A i, j \in 1 .. Len(to_server) :
        i < j /\ IsRequest(to_server[i]) /\ IsRequest(to_server[j]) =>
            to_server[i].inner.new_nonce < to_server[j].inner.new_nonce
    /\ server.new_nonce <= client.new_nonce
    /\ client.pc = "resPQ" => server.new_nonce < client.new_nonce

(* Every exchange of the server but the last has used up a new_nonce, so   *)
(* its key is new.                                                         *)
KeysInv ==
    /\ server.server_nonce <= server.new_nonce + 1
    /\ server.pc \in {"req_pq", "set_client_DH"} => server.server_nonce <= server.new_nonce
    /\ server.pc \in {"req_DH_params", "set_client_DH"} => server.server_nonce >= 1
    /\ server.pc = "set_client_DH" =>
        server.new_nonce >= 1 /\ Asked(server.new_nonce, server.expires_at > 0)
    /\ \A k \in DOMAIN made :
        /\ k[1] <= server.server_nonce
        /\ server.pc \in {"req_DH_params", "set_client_DH"} => k[1] < server.server_nonce
        /\ Asked(k[2], made[k] > 0)
    /\ \A k \in DOMAIN taken :
        k[2] <= client.new_nonce /\ (k[2] = client.new_nonce => client.pc = "idle")
    /\ \A i \in 1 .. Len(to_client) :
        to_client[i].id = "dh_gen_ok" => to_client[i].hash \in DOMAIN made

(* While the client has not strayed: what is under way, by where the two   *)
(* sides stand.                                                            *)
OnlySends(ids) ==
    \A i \in 1 .. Len(to_server) : to_server[i].id \in ids \cup {"msgs_ack", "encrypted"}

Once(id) ==
    /\ to_client = <<>>
    /\ \A i, j \in 1 .. Len(to_server) : i < j => to_server[i].id # id \/ to_server[j].id # id

Answered(id) ==
    /\ OnlySends({}) /\ Len(to_client) <= 1
    /\ \A i \in 1 .. Len(to_client) : to_client[i].id = id

PhaseIdle ==
    client.pc = "idle" => server.pc = "req_pq" /\ OnlySends({}) /\ to_client = <<>>

PhaseResPq ==
    client.pc = "resPQ" =>
        /\ server.pc \in {"req_pq", "req_DH_params"} /\ OnlySends({"req_pq"})
        /\ to_client # <<>> => server.pc = "req_DH_params"
        /\ \A i \in 1 .. Len(to_server) : to_server[i].id = "req_pq" =>
            server.nonce < to_server[i].nonce /\ to_server[i].nonce <= client.nonce
        /\ \A i, j \in 1 .. Len(to_server) :
            i < j /\ to_server[i].id = "req_pq" /\ to_server[j].id = "req_pq" =>
                to_server[i].nonce < to_server[j].nonce
        /\ \A i \in 1 .. Len(to_client) :
            /\ to_client[i].id = "resPQ" /\ to_client[i].nonce <= server.nonce
            /\ to_client[i].server_nonce = server.server_nonce
        /\ \A i, j \in 1 .. Len(to_client) : i < j => to_client[i].nonce < to_client[j].nonce

SameExchange == client.server_nonce = server.server_nonce

PhaseDhParams ==
    client.pc = "server_DH_params" =>
        /\ SameExchange
        /\ \/ /\ server.pc = "req_DH_params" /\ OnlySends({"req_DH_params"}) /\ Once("req_DH_params")
              /\ \A i \in 1 .. Len(to_server) : to_server[i].id = "req_DH_params" =>
                    to_server[i].inner # Garbled /\ to_server[i].inner.new_nonce = client.new_nonce
           \/ /\ server.pc = "set_client_DH" /\ Answered("server_DH_params_ok")
              /\ server.new_nonce = client.new_nonce

PhaseDhGen ==
    client.pc = "dh_gen" =>
        \/ /\ SameExchange /\ server.new_nonce = client.new_nonce
           /\ server.pc = "set_client_DH"
           /\ OnlySends({"set_client_DH_params"}) /\ Once("set_client_DH_params")
           /\ \A i \in 1 .. Len(to_server) : to_server[i].id = "set_client_DH_params" =>
                to_server[i].sealed = <<server.server_nonce, server.new_nonce>>
        \/ server.pc = "req_pq" /\ Answered("dh_gen_ok")

Phases == server.nonce <= client.nonce /\ PhaseIdle /\ PhaseResPq /\ PhaseDhParams /\ PhaseDhGen

PhaseInv == ~ client.strayed /\ Open => Phases

(* What holds whatever the client does, and what holds until it strays.    *)
CoreInv == TypeOK /\ RequestsInv /\ KeysInv

ExchangeInv == CoreInv /\ PhaseInv /\ OrderlyNotRefused
-----------------------------------------------------------------------------
(* What a read, and what a write, does to the two directions.              *)
Consumes ==
    /\ Len(to_server) \in Nat \ {0} /\ Frame = to_server[1] /\ Frame \in ToServer
    /\ to_server' \in Seq(ToServer) /\ Len(to_server') = Len(to_server) - 1
    /\ \A i \in 1 .. Len(to_server') :
        i + 1 \in 1 .. Len(to_server) /\ to_server'[i] = to_server[i + 1]

Takes ==
    /\ Len(to_client) \in Nat \ {0} /\ Answer = to_client[1] /\ Answer \in ToClient
    /\ to_client' \in Seq(ToClient) /\ Len(to_client') = Len(to_client) - 1
    /\ \A i \in 1 .. Len(to_client') :
        i + 1 \in 1 .. Len(to_client) /\ to_client'[i] = to_client[i + 1]

(* Acknowledgements, and msg after them.                                   *)
Adds(msg) ==
    /\ Len(to_server) \in Nat /\ Len(to_server') \in Nat /\ Len(to_server) <= Len(to_server')
    /\ to_server' \in Seq(ToServer)
    /\ \A i \in 1 .. Len(to_server') :
        \/ i <= Len(to_server) /\ to_server'[i] = to_server[i]
        \/ i > Len(to_server) /\ to_server'[i].id = "msgs_ack"
        \/ i > Len(to_server) /\ i = Len(to_server') /\ to_server'[i] = msg

Replies(msg) ==
    /\ Len(to_client) \in Nat /\ Len(to_client') = Len(to_client) + 1
    /\ to_client' \in Seq(ToClient) /\ to_client'[Len(to_client) + 1] = msg
    /\ \A i \in 1 .. Len(to_client) : to_client'[i] = to_client[i]

(* A message the server has read leaves the front of its queue.            *)
LEMMA ConsumedConsumes ==
    ASSUME TypeOK, to_server # <<>>, Consumed
    PROVE  Consumes
<1>1. to_server \in Seq(ToServer) /\ to_server' = Tail(to_server)
    BY DEF TypeOK, Consumed
<1>2. Len(to_server) \in Nat \ {0}
    BY <1>1, EmptySeq
<1>3. Frame = to_server[1] /\ Frame \in ToServer
    BY <1>1, <1>2, ElementOfSeq, HeadTailProperties DEF Frame
<1>4. /\ to_server' \in Seq(ToServer) /\ Len(to_server') = Len(to_server) - 1
      /\ \A i \in 1 .. Len(to_server') : to_server'[i] = to_server[i + 1]
    BY <1>1, HeadTailProperties
<1> QED
    BY <1>2, <1>3, <1>4 DEF Consumes

(* A message the client has read leaves the front of its queue.            *)
LEMMA TailTakes ==
    ASSUME TypeOK, to_client # <<>>, to_client' = Tail(to_client)
    PROVE  Takes
<1>1. to_client \in Seq(ToClient)
    BY DEF TypeOK
<1>2. Len(to_client) \in Nat \ {0}
    BY <1>1, EmptySeq
<1>3. Answer = to_client[1] /\ Answer \in ToClient
    BY <1>1, <1>2, ElementOfSeq, HeadTailProperties DEF Answer
<1>4. /\ to_client' \in Seq(ToClient) /\ Len(to_client') = Len(to_client) - 1
      /\ \A i \in 1 .. Len(to_client') : to_client'[i] = to_client[i + 1]
    BY <1>1, HeadTailProperties
<1> QED
    BY <1>2, <1>3, <1>4 DEF Takes

(* One message is sent, after an acknowledgement or without.               *)
LEMMA SendAdds ==
    ASSUME TypeOK, NEW msg \in ToServer, NEW acked \in BOOLEAN,
           Send(<<msg>>) \/ Send(Ack(acked) \o <<msg>>)
    PROVE  Adds(msg)
<1>a. to_server \in Seq(ToServer)
    BY DEF TypeOK
<1>b. [id |-> "msgs_ack"] \in ToServer
    BY DEF ToServer
<1>c. Len(to_server) \in Nat
    BY <1>a, LenProperties
<1>1. ASSUME to_server' = to_server \o <<msg>> PROVE Adds(msg)
  <2>1. <<msg>> \in Seq(ToServer) /\ Len(<<msg>>) = 1 /\ <<msg>>[1] = msg
      OBVIOUS
  <2>2. /\ to_server' \in Seq(ToServer) /\ Len(to_server') = Len(to_server) + 1
        /\ \A i \in 1 .. Len(to_server) + 1 : to_server'[i] =
             IF i <= Len(to_server) THEN to_server[i] ELSE <<msg>>[i - Len(to_server)]
      BY <1>a, <1>1, <2>1, ConcatProperties
  <2>3. ASSUME NEW i \in 1 .. Len(to_server'), i > Len(to_server)
        PROVE  i = Len(to_server') /\ to_server'[i] = msg
      BY <1>c, <2>1, <2>2, <2>3
  <2> QED
      BY <1>c, <2>2, <2>3 DEF Adds
<1>2. ASSUME to_server' = to_server \o <<[id |-> "msgs_ack"], msg>> PROVE Adds(msg)
  <2> DEFINE ack == [id |-> "msgs_ack"]
  <2>1. /\ <<ack, msg>> \in Seq(ToServer) /\ Len(<<ack, msg>>) = 2
        /\ <<ack, msg>>[1] = ack /\ <<ack, msg>>[2] = msg
      BY <1>b
  <2>2. ack.id = "msgs_ack"
      OBVIOUS
  <2> HIDE DEF ack
  <2>3. /\ to_server' \in Seq(ToServer) /\ Len(to_server') = Len(to_server) + 2
        /\ \A i \in 1 .. Len(to_server) + 2 : to_server'[i] =
             IF i <= Len(to_server) THEN to_server[i] ELSE <<ack, msg>>[i - Len(to_server)]
      BY <1>a, <1>2, <2>1, ConcatProperties DEF ack
  <2>4. ASSUME NEW i \in 1 .. Len(to_server'), i > Len(to_server)
        PROVE  to_server'[i].id = "msgs_ack" \/ (i = Len(to_server') /\ to_server'[i] = msg)
    <3>1. i - Len(to_server) \in {1, 2}
        BY <1>c, <2>3, <2>4
    <3> QED
        BY <1>c, <2>1, <2>2, <2>3, <2>4, <3>1
  <2> QED
      BY <1>c, <2>3, <2>4 DEF Adds
<1>3. Ack(acked) \o <<msg>> \in {<<msg>>, <<[id |-> "msgs_ack"], msg>>}
  <2>1. <<msg>> \in Seq(ToServer)
      OBVIOUS
  <2>2. CASE acked
    <3>1. PICK ack \in ToServer : ack = [id |-> "msgs_ack"]
        BY <1>b
    <3>2. <<ack>> \o <<msg>> = <<ack, msg>>
      <4>1. /\ <<ack>> \in Seq(ToServer) /\ Len(<<ack>>) = 1 /\ <<ack>>[1] = ack
            /\ <<msg>> \in Seq(ToServer) /\ Len(<<msg>>) = 1 /\ <<msg>>[1] = msg
            /\ <<ack, msg>> \in Seq(ToServer) /\ Len(<<ack, msg>>) = 2
            /\ <<ack, msg>>[1] = ack /\ <<ack, msg>>[2] = msg
          OBVIOUS
      <4>2. /\ <<ack>> \o <<msg>> \in Seq(ToServer) /\ Len(<<ack>> \o <<msg>>) = 2
            /\ (<<ack>> \o <<msg>>)[1] = ack /\ (<<ack>> \o <<msg>>)[2] = msg
          BY <4>1, ConcatProperties
      <4>3. \A i \in 1 .. 2 : (<<ack>> \o <<msg>>)[i] = <<ack, msg>>[i]
          BY <4>1, <4>2
      <4> QED
          BY <4>1, <4>2, <4>3, SeqEqual
    <3> QED
        BY <2>2, <3>1, <3>2 DEF Ack
  <2>3. CASE ~ acked
      BY <2>1, <2>3, ConcatEmptySeq DEF Ack
  <2> QED
      BY <2>2, <2>3
<1> QED
    BY <1>1, <1>2, <1>3 DEF Send

(* Nothing but an acknowledgement.                                         *)
LEMMA AckAdds ==
    ASSUME TypeOK, NEW acked \in BOOLEAN, Send(Ack(acked))
    PROVE  Adds([id |-> "msgs_ack"])
<1>1. CASE acked
  <2>1. [id |-> "msgs_ack"] \in ToServer
      BY DEF ToServer
  <2>2. Send(<<[id |-> "msgs_ack"]>>)
      BY <1>1 DEF Ack
  <2> QED
      BY <2>1, <2>2, SendAdds
<1>2. CASE ~ acked
  <2>1. to_server' = to_server /\ to_server \in Seq(ToServer)
      BY <1>2, ConcatEmptySeq DEF Ack, Send, TypeOK
  <2> QED
      BY <2>1, LenProperties DEF Adds
<1> QED
    BY <1>1, <1>2

(* An answer of the server goes to the end of the client's queue.          *)
LEMMA AppendReplies ==
    ASSUME TypeOK, NEW msg \in ToClient, to_client' = Append(to_client, msg)
    PROVE  Replies(msg)
BY AppendProperties, LenProperties DEF TypeOK, Replies
-----------------------------------------------------------------------------
(* Requests and keys, whatever the client does.                            *)
LEMMA Numbers ==
    ASSUME TypeOK
    PROVE  /\ server.new_nonce \in Nat /\ server.server_nonce \in Nat /\ server.nonce \in Nat
           /\ client.new_nonce \in Nat /\ client.server_nonce \in Nat /\ client.nonce \in Nat
           /\ client.temp \in BOOLEAN
<1>1. /\ server.new_nonce \in 0 .. MaxExchanges /\ server.server_nonce \in 0 .. MaxExchanges + 1
      /\ server.nonce \in 0 .. MaxReqPqs
    BY DEF TypeOK, Server, Count, ServerNonces
<1>2. /\ client.new_nonce \in 0 .. MaxExchanges /\ client.server_nonce \in 0 .. MaxExchanges + 1
      /\ client.nonce \in 0 .. MaxReqPqs /\ client.temp \in BOOLEAN
    BY DEF TypeOK, Client, Count, ServerNonces
<1> QED
    BY <1>1, <1>2

(* The inner data of a readable req_DH_params.                             *)
LEMMA RequestType ==
    ASSUME NEW msg \in ToServer, IsRequest(msg)
    PROVE  /\ msg.inner \in Inner /\ msg.inner.new_nonce \in 1 .. MaxExchanges
           /\ msg.inner.request \in Requests /\ msg.inner.request.temp \in BOOLEAN
<1>1. msg \in ReqDhParamsMessage
    BY DEF IsRequest, ToServer, ReqPqMessage, SetClientDhMessage, ReqDhParamsMessage
<1>2. msg.inner \in Inner
    BY <1>1 DEF ReqDhParamsMessage, IsRequest
<1> QED
    BY <1>2 DEF Inner, Requests

(* What the client has asked for stays asked for.                          *)
AskedStays == \A n \in Nat, temp \in BOOLEAN : Asked(n, temp) => Asked(n, temp)'

(* What a client asked for depends on the client only.                     *)
LEMMA SameClientAsked == UNCHANGED client => AskedStays
BY DEF AskedStays, Asked

(* A read that is not of a request.                                        *)
LEMMA ReadKeepsRequests ==
    ASSUME TypeOK, RequestsInv, Consumes \/ UNCHANGED to_server, UNCHANGED client,
           server'.new_nonce = server.new_nonce
    PROVE  RequestsInv'
<1>1. CASE UNCHANGED to_server
    BY <1>1 DEF RequestsInv, Asked, IsRequest
<1>2. CASE Consumes
  <2>1. ASSUME NEW i \in 1 .. Len(to_server'), IsRequest(to_server'[i])
        PROVE  /\ server.new_nonce < to_server'[i].inner.new_nonce
               /\ Asked(to_server'[i].inner.new_nonce, to_server'[i].inner.request.temp)
      BY <1>2, <2>1 DEF Consumes, RequestsInv
  <2>2. ASSUME NEW i \in 1 .. Len(to_server'), NEW j \in 1 .. Len(to_server'), i < j,
               IsRequest(to_server'[i]), IsRequest(to_server'[j])
        PROVE  to_server'[i].inner.new_nonce < to_server'[j].inner.new_nonce
    <3>1. /\ i + 1 \in 1 .. Len(to_server) /\ j + 1 \in 1 .. Len(to_server) /\ i + 1 < j + 1
          /\ to_server'[i] = to_server[i + 1] /\ to_server'[j] = to_server[j + 1]
        BY <1>2, <2>2 DEF Consumes
    <3> QED
        BY <2>2, <3>1 DEF RequestsInv
  <2> QED
      BY <2>1, <2>2 DEF RequestsInv, Asked, IsRequest
<1> QED
    BY <1>1, <1>2

(* The client sends msg; if that is a request, the first of its exchange.  *)
LEMMA SendKeepsRequests ==
    ASSUME TypeOK, RequestsInv, NEW msg \in ToServer, Adds(msg), UNCHANGED server, AskedStays,
           client'.new_nonce \in Nat, client.new_nonce <= client'.new_nonce,
           client'.pc = "resPQ" => server.new_nonce < client'.new_nonce,
           IsRequest(msg) => /\ client.pc = "resPQ" /\ msg.inner.new_nonce = client.new_nonce
                             /\ Asked(msg.inner.new_nonce, msg.inner.request.temp)'
    PROVE  RequestsInv'
<1>a. to_server \in Seq(ToServer) /\ client.new_nonce \in Nat /\ server.new_nonce \in Nat
    BY Numbers DEF TypeOK
<1>b. ASSUME NEW i \in 1 .. Len(to_server')
      PROVE  \/ i \in 1 .. Len(to_server) /\ to_server'[i] = to_server[i]
                /\ to_server[i] \in ToServer
             \/ to_server'[i].id = "msgs_ack"
             \/ i = Len(to_server') /\ to_server'[i] = msg /\ Len(to_server) < i
    BY <1>a, <1>b, ElementOfSeq DEF Adds
<1>c. ASSUME NEW i \in 1 .. Len(to_server), IsRequest(to_server[i]),
             to_server'[i] = to_server[i]
      PROVE  /\ server.new_nonce < to_server[i].inner.new_nonce
             /\ Asked(to_server[i].inner.new_nonce, to_server[i].inner.request.temp)'
             /\ client.pc = "resPQ" => to_server[i].inner.new_nonce < client.new_nonce
  <2>1. to_server[i] \in ToServer
      BY <1>a, <1>c, ElementOfSeq
  <2>2. to_server[i].inner.new_nonce \in Nat /\ to_server[i].inner.request.temp \in BOOLEAN
      BY <1>c, <2>1, RequestType
  <2>3. /\ server.new_nonce < to_server[i].inner.new_nonce
        /\ Asked(to_server[i].inner.new_nonce, to_server[i].inner.request.temp)
      BY <1>c DEF RequestsInv
  <2>4. PICK n \in Nat, temp \in BOOLEAN :
          n = to_server[i].inner.new_nonce /\ temp = to_server[i].inner.request.temp
      BY <2>2
  <2>5. Asked(n, temp)'
      BY <2>3, <2>4 DEF AskedStays
  <2>6. client.pc = "resPQ" => to_server[i].inner.new_nonce < client.new_nonce
      BY <1>a, <2>2, <2>3 DEF Asked
  <2>7. Asked(to_server[i].inner.new_nonce, to_server[i].inner.request.temp)'
      BY <1>c, <2>4, <2>5 DEF Asked
  <2> QED
      BY <2>3, <2>6, <2>7
<1>d. \A m : m.id = "msgs_ack" => ~ IsRequest(m)
    BY DEF IsRequest
<1>1. ASSUME NEW i \in 1 .. Len(to_server'), IsRequest(to_server'[i])
      PROVE  /\ server.new_nonce < to_server'[i].inner.new_nonce
             /\ Asked(to_server[i].inner.new_nonce, to_server[i].inner.request.temp)'
  <2>1. CASE i \in 1 .. Len(to_server) /\ to_server'[i] = to_server[i]
      BY <1>1, <1>c, <2>1
  <2>2. CASE to_server'[i] = msg
      BY <1>1, <2>2, <1>a DEF RequestsInv, Asked
  <2> QED
      BY <1>1, <1>b, <1>d, <2>1, <2>2
<1>2. ASSUME NEW i \in 1 .. Len(to_server'), NEW j \in 1 .. Len(to_server'), i < j,
             IsRequest(to_server'[i]), IsRequest(to_server'[j])
      PROVE  to_server'[i].inner.new_nonce < to_server'[j].inner.new_nonce
  <2>1. Len(to_server') \in Nat /\ i # Len(to_server')
      BY <1>2 DEF Adds
  <2>2. i \in 1 .. Len(to_server) /\ to_server'[i] = to_server[i]
      BY <1>2, <1>b, <1>d, <2>1
  <2>3. CASE j \in 1 .. Len(to_server) /\ to_server'[j] = to_server[j]
      BY <1>2, <2>2, <2>3 DEF RequestsInv
  <2>4. CASE to_server'[j] = msg
      BY <1>2, <1>c, <2>2, <2>4
  <2> QED
      BY <1>2, <1>b, <1>d, <2>3, <2>4
<1>3. server.new_nonce <= client'.new_nonce
    BY <1>a DEF RequestsInv
<1>4. server' = server
    OBVIOUS
<1> QED
    BY <1>1, <1>2, <1>3, <1>4 DEF RequestsInv, IsRequest
-----------------------------------------------------------------------------
(* The steps of the server preserve CoreInv.                               *)

(* One that hands out nothing: an ack is skipped, the exchange left, the   *)
(* connection closed.                                                      *)
LEMMA ReadKeepsCore ==
    ASSUME CoreInv, Consumes \/ UNCHANGED to_server, server' \in Server,
           server'.pc \in {server.pc, "session", "closed"},
           server'.new_nonce = server.new_nonce, server'.server_nonce = server.server_nonce,
           server'.expires_at = server.expires_at,
           UNCHANGED <<client, to_client, made, taken>>
    PROVE  CoreInv'
<1>1. to_server' \in Seq(ToServer)
    BY DEF Consumes, CoreInv, TypeOK
<1>2. TypeOK'
    BY <1>1 DEF CoreInv, TypeOK
<1>3. RequestsInv'
    BY ReadKeepsRequests DEF CoreInv
<1>4. KeysInv'
    BY DEF CoreInv, KeysInv, Asked
<1> QED
    BY <1>2, <1>3, <1>4 DEF CoreInv

(* The fields of the message the server reads.                             *)
LEMMA FrameType ==
    ASSUME Consumes
    PROVE  /\ Frame.id = "req_pq" => Frame.nonce \in Count
           /\ Frame.id = "req_DH_params" => Frame.inner \in Inner \cup {Garbled}
BY DEF Consumes, ToServer, ReqPqMessage, ReqDhParamsMessage, SetClientDhMessage

(* req_pq: a new server nonce, no secret yet.                              *)
LEMMA ReqPqCore ==
    ASSUME CoreInv, ReqPq
    PROVE  CoreInv'
<1> DEFINE sn == IF server.pc = "req_pq" THEN server.server_nonce + 1 ELSE server.server_nonce
           msg == [id |-> "resPQ", nonce |-> ReqPqNonce, server_nonce |-> sn]
<1>a. /\ to_server # <<>> /\ server.pc \in {"req_pq", "req_DH_params"} /\ Frame.id = "req_pq"
      /\ server' = [server EXCEPT !.pc = "req_DH_params", !.nonce = ReqPqNonce,
                                  !.server_nonce = sn]
      /\ to_client' = Append(to_client, msg) /\ Consumed
      /\ UNCHANGED <<client, made, taken>>
    BY DEF ReqPq, Reads
<1>b. TypeOK /\ RequestsInv /\ KeysInv
    BY DEF CoreInv
<1>c. Consumes
    BY <1>a, <1>b, ConsumedConsumes
<1>d. ReqPqNonce \in Count
    BY <1>a, <1>c, FrameType DEF ReqPqNonce
<1>e. /\ server.new_nonce \in 0 .. MaxExchanges /\ server.server_nonce \in Nat
      /\ server.server_nonce \in ServerNonces /\ server \in Server
    BY <1>b, Numbers DEF TypeOK, Server
<1>f. sn \in ServerNonces /\ sn <= server.new_nonce + 1 /\ sn >= 1 /\ sn >= server.server_nonce
  <2>1. CASE server.pc = "req_pq"
    <3>1. sn = server.server_nonce + 1 /\ server.server_nonce <= server.new_nonce
        BY <1>b, <2>1 DEF KeysInv
    <3> HIDE DEF sn
    <3> QED
        BY <1>e, <3>1, ExchangeConstants DEF ServerNonces
  <2>2. CASE server.pc = "req_DH_params"
      BY <1>b, <1>e, <2>2 DEF KeysInv
  <2> QED
      BY <1>a, <2>1, <2>2
<1>g. msg \in ToClient
    BY <1>d, <1>f DEF ToClient, ResPqMessage
<1>h. msg.id = "resPQ"
    OBVIOUS
<1> HIDE DEF sn
<1>1. server' \in Server
    BY <1>a, <1>d, <1>e, <1>f DEF Server
<1>2. /\ server'.new_nonce = server.new_nonce /\ server'.server_nonce = sn
      /\ server'.pc = "req_DH_params"
    BY <1>a, <1>e DEF Server
<1> HIDE DEF msg
<1>3. Replies(msg)
    BY <1>a, <1>b, <1>g, AppendReplies
<1>4. TypeOK'
    BY <1>a, <1>b, <1>c, <1>1, <1>3 DEF TypeOK, Consumes, Replies
<1>5. RequestsInv'
    BY <1>a, <1>b, <1>c, <1>2, ReadKeepsRequests
<1>6. ASSUME NEW k \in DOMAIN made PROVE k[1] < sn /\ Asked(k[2], made[k] > 0)'
  <2>1. k[1] \in Nat
      BY <1>b DEF TypeOK, AuthKeys
  <2>2. k[1] < sn
    <3>1. CASE server.pc = "req_pq"
        BY <1>b, <1>e, <2>1, <3>1 DEF KeysInv, sn
    <3>2. CASE server.pc = "req_DH_params"
        BY <1>b, <3>2 DEF KeysInv, sn
    <3> QED
        BY <1>a, <3>1, <3>2
  <2>3. Asked(k[2], made[k] > 0)'
      BY <1>a, <1>b DEF KeysInv, Asked
  <2> QED
      BY <2>2, <2>3
<1>7. ASSUME NEW i \in 1 .. Len(to_client'), to_client'[i].id = "dh_gen_ok"
      PROVE  to_client'[i].hash \in DOMAIN made
    BY <1>3, <1>7, <1>b, <1>h DEF Replies, KeysInv
<1>8. \A k \in DOMAIN taken :
        k[2] <= client.new_nonce /\ (k[2] = client.new_nonce => client.pc = "idle")
    BY <1>b DEF KeysInv
<1>9. \A k \in DOMAIN made : k[1] <= sn
  <2> SUFFICES ASSUME NEW k \in DOMAIN made PROVE k[1] <= sn
      OBVIOUS
  <2>1. k[1] \in Nat /\ sn \in Nat
      BY <1>b, <1>f DEF TypeOK, AuthKeys, ServerNonces
  <2> QED
      BY <1>6, <2>1
<1>10. KeysInv'
    BY <1>a, <1>f, <1>2, <1>6, <1>7, <1>8, <1>9 DEF KeysInv
<1> QED
    BY <1>4, <1>5, <1>10 DEF CoreInv

(* expires_at of a temporary key does not wrap.                            *)
LEMMA EndInInt32 ==
    ASSUME NEW request \in Requests, NEW now \in Times, LifetimeFits(request, now), request.temp
    PROVE  /\ Int32(now + request.expires_in) = now + request.expires_in
           /\ now + request.expires_in \in 1 .. MaxInt
<1>1. now \in Int /\ request.expires_in \in Int /\ MaxInt \in Nat
  <2>1. request.expires_in \in Lifetimes \cup {0}
      BY DEF Requests
  <2>2. Times \subseteq Int /\ Lifetimes \subseteq Int /\ MaxInt \in Nat
      BY ExchangeConstants
  <2>3. \A x : (x \in Times => x \in Int) /\ (x \in Lifetimes => x \in Int)
      BY <2>2
  <2>4. 0 \in Int
      OBVIOUS
  <2> QED
      BY <2>1, <2>2, <2>3, <2>4, Zenon
<1>2. PICK n \in 1 .. MaxInt : n = now + request.expires_in
    BY <1>1 DEF LifetimeFits
<1>3. Int32(n) = n
  <2>1. PICK a \in Int, b \in Int : a = n + MaxInt + 1 /\ b = 2 * (MaxInt + 1)
      BY <1>1
  <2>2. 0 <= a /\ a < b
      BY <1>1, <2>1
  <2>3. a % b = a
      BY <2>2
  <2> QED
      BY <1>1, <2>1, <2>3 DEF Int32
<1> QED
    BY <1>2, <1>3

(* A request is accepted.                                                  *)
AcceptRequest(now) ==
    /\ Reads({"req_DH_params"}, {"req_DH_params"})
    /\ Frame.inner # Garbled /\ LifetimeFits(Frame.inner.request, now)
    /\ server' = [server EXCEPT !.pc = "set_client_DH", !.new_nonce = Frame.inner.new_nonce,
                     !.expires_at = IF Frame.inner.request.temp
                                    THEN Int32(now + Frame.inner.request.expires_in) ELSE 0]
    /\ to_client' = Append(to_client, [id |-> "server_DH_params_ok",
                                       nonce |-> server.nonce,
                                       server_nonce |-> server.server_nonce])
    /\ Consumed
    /\ UNCHANGED <<client, made, taken>>

(* An accepted req_DH_params: the server adopts a new nonce beyond its     *)
(* last one.                                                               *)
LEMMA AcceptRequestCore ==
    ASSUME CoreInv, NEW now \in Times, AcceptRequest(now)
    PROVE  CoreInv'
<1>b. TypeOK /\ RequestsInv /\ KeysInv
    BY DEF CoreInv
<1>c. Consumes /\ Frame.id = "req_DH_params" /\ server.pc = "req_DH_params"
    BY <1>b, ConsumedConsumes DEF AcceptRequest, Reads
<1>d. IsRequest(Frame) /\ Frame \in ToServer
    BY <1>c DEF AcceptRequest, IsRequest, Consumes
<1>e. PICK n \in 1 .. MaxExchanges, request \in Requests :
        n = Frame.inner.new_nonce /\ request = Frame.inner.request
    BY <1>d, RequestType
<1>f. request.temp \in BOOLEAN
    BY DEF Requests
<1> DEFINE e == IF request.temp THEN Int32(now + request.expires_in) ELSE 0
           msg == [id |-> "server_DH_params_ok", nonce |-> server.nonce,
                   server_nonce |-> server.server_nonce]
<1>g. e \in 0 .. MaxInt /\ (e > 0 <=> request.temp)
  <2>1. CASE request.temp
    <3>1. LifetimeFits(request, now)
        BY <1>e DEF AcceptRequest
    <3>2. e = now + request.expires_in /\ now + request.expires_in \in 1 .. MaxInt
        BY <2>1, <3>1, EndInInt32
    <3> HIDE DEF e
    <3>3. e \in 1 .. MaxInt
        BY <3>2
    <3> QED
        BY <2>1, <3>3
  <2>2. CASE ~ request.temp
      BY <2>2, ExchangeConstants
  <2> QED
      BY <2>1, <2>2
<1>h. server' = [server EXCEPT !.pc = "set_client_DH", !.new_nonce = n, !.expires_at = e]
    BY <1>e DEF AcceptRequest
<1>i. server \in Server
    BY <1>b DEF TypeOK
<1>j. msg \in ToClient /\ msg.id = "server_DH_params_ok"
    BY <1>i DEF Server, ToClient, ServerDhParamsOk
<1> HIDE DEF e
<1>1. server' \in Server
  <2>1. n \in 0 .. MaxExchanges
      OBVIOUS
  <2> QED
      BY <1>g, <1>h, <1>i, <2>1 DEF Server
<1>2. /\ server'.new_nonce = n /\ server'.server_nonce = server.server_nonce
      /\ server'.pc = "set_client_DH" /\ server'.expires_at = e
    BY <1>h, <1>i DEF Server
<1>3. Replies(msg)
    BY <1>b, <1>j, AppendReplies DEF AcceptRequest
<1> HIDE DEF msg
<1>4. TypeOK'
    BY <1>b, <1>c, <1>1, <1>3 DEF TypeOK, Consumes, Replies, AcceptRequest
<1>5. /\ server.new_nonce < n /\ Asked(n, request.temp) /\ client' = client
      /\ 1 \in 1 .. Len(to_server) /\ to_server[1] = Frame
    BY <1>b, <1>c, <1>d, <1>e DEF RequestsInv, Consumes, AcceptRequest
<1>6. Asked(n, e > 0)'
    BY <1>5, <1>g DEF Asked
<1>7. client.new_nonce \in Nat /\ server.new_nonce \in Nat /\ server.server_nonce \in Nat
    BY <1>b, Numbers
<1>8. RequestsInv'
  <2>1. ASSUME NEW i \in 1 .. Len(to_server'), IsRequest(to_server'[i])
        PROVE  /\ n < to_server'[i].inner.new_nonce
               /\ Asked(to_server'[i].inner.new_nonce, to_server'[i].inner.request.temp)
    <3>1. /\ i + 1 \in 1 .. Len(to_server) /\ 1 < i + 1
          /\ to_server'[i] = to_server[i + 1]
        BY <1>c, <2>1 DEF Consumes
    <3> QED
        BY <1>b, <1>d, <1>e, <1>5, <2>1, <3>1 DEF RequestsInv
  <2>2. ASSUME NEW i \in 1 .. Len(to_server'), NEW j \in 1 .. Len(to_server'), i < j,
               IsRequest(to_server'[i]), IsRequest(to_server'[j])
        PROVE  to_server'[i].inner.new_nonce < to_server'[j].inner.new_nonce
    <3>1. /\ i + 1 \in 1 .. Len(to_server) /\ j + 1 \in 1 .. Len(to_server) /\ i + 1 < j + 1
          /\ to_server'[i] = to_server[i + 1] /\ to_server'[j] = to_server[j + 1]
        BY <1>c, <2>2 DEF Consumes
    <3> QED
        BY <1>b, <2>2, <3>1 DEF RequestsInv
  <2>3. n <= client.new_nonce /\ (client.pc = "resPQ" => n < client.new_nonce)
      BY <1>5, <1>7 DEF Asked
  <2> QED
      BY <1>2, <1>5, <2>1, <2>2, <2>3 DEF RequestsInv, Asked, IsRequest
<1>9. KeysInv'
  <2>1. /\ server.server_nonce >= 1 /\ server.server_nonce <= n /\ n >= 1
        /\ server.server_nonce <= n + 1
      BY <1>b, <1>c, <1>5, <1>7 DEF KeysInv
  <2>2. made' = made /\ taken' = taken /\ client' = client
      BY DEF AcceptRequest
  <2>3. ASSUME NEW k \in DOMAIN made
        PROVE  /\ k[1] <= server.server_nonce /\ k[1] < server.server_nonce
               /\ Asked(k[2], made[k] > 0)
      BY <1>b, <1>c DEF KeysInv
  <2>4. ASSUME NEW i \in 1 .. Len(to_client'), to_client'[i].id = "dh_gen_ok"
        PROVE  to_client'[i].hash \in DOMAIN made
      BY <1>3, <2>4, <1>b, <1>j DEF Replies, KeysInv
  <2>5. \A k \in DOMAIN taken :
          k[2] <= client.new_nonce /\ (k[2] = client.new_nonce => client.pc = "idle")
      BY <1>b DEF KeysInv
  <2> QED
      BY <1>2, <1>6, <2>1, <2>2, <2>3, <2>4, <2>5 DEF KeysInv, Asked
<1> QED
    BY <1>4, <1>8, <1>9 DEF CoreInv

(* The client's secret is accepted, and the key made.                      *)
MakeKey ==
    LET key == <<server.server_nonce, server.new_nonce>> IN
    /\ Reads({"set_client_DH"}, {"set_client_DH_params"})
    /\ Frame.sealed = key
    /\ made' = With(made, key, server.expires_at)
    /\ to_client' = Append(to_client, [id |-> "dh_gen_ok", nonce |-> server.nonce,
                                       server_nonce |-> server.server_nonce, hash |-> key])
    /\ server' = [server EXCEPT !.pc = "req_pq"]
    /\ Consumed
    /\ UNCHANGED <<client, taken>>

(* set_client_DH_params: the key's pair of secrets has made no key before. *)
LEMMA MakeKeyCore ==
    ASSUME CoreInv, MakeKey
    PROVE  /\ CoreInv'
           /\ <<server.server_nonce, server.new_nonce>> \in AuthKeys \ DOMAIN made
<1>b. TypeOK /\ RequestsInv /\ KeysInv
    BY DEF CoreInv
<1>c. Consumes /\ server.pc = "set_client_DH"
    BY <1>b, ConsumedConsumes DEF MakeKey, Reads
<1>d. server \in Server /\ server.new_nonce \in 0 .. MaxExchanges /\ server.server_nonce \in Nat
    BY <1>b, Numbers DEF TypeOK, Server
<1>e. PICK a \in 1 .. MaxExchanges, b \in 1 .. MaxExchanges, key \in AuthKeys :
        /\ a = server.server_nonce /\ b = server.new_nonce
        /\ key = <<a, b>> /\ key[1] = a /\ key[2] = b
  <2>1. /\ server.server_nonce >= 1 /\ server.server_nonce <= server.new_nonce
        /\ server.new_nonce >= 1
      BY <1>b, <1>c DEF KeysInv
  <2>2. PICK a \in 1 .. MaxExchanges, b \in 1 .. MaxExchanges :
          a = server.server_nonce /\ b = server.new_nonce
      BY <1>d, <2>1, ExchangeConstants
  <2>3. <<a, b>> \in AuthKeys /\ <<a, b>>[1] = a /\ <<a, b>>[2] = b
      BY DEF AuthKeys
  <2> QED
      BY <2>2, <2>3
<1> DEFINE msg == [id |-> "dh_gen_ok", nonce |-> server.nonce,
                   server_nonce |-> server.server_nonce, hash |-> key]
<1>f. msg \in ToClient /\ msg.hash = key
    BY <1>d DEF Server, ToClient, DhGenOk
<1>1. server' \in Server /\ server' = [server EXCEPT !.pc = "req_pq"]
    BY <1>d DEF MakeKey, Server
<1>2. /\ server'.new_nonce = b /\ server'.server_nonce = a /\ server'.pc = "req_pq"
      /\ server'.new_nonce = server.new_nonce
    BY <1>1, <1>d, <1>e DEF Server
<1>3. Replies(msg)
    BY <1>b, <1>e, <1>f, AppendReplies DEF MakeKey
<1> HIDE DEF msg
<1>4. /\ made' = With(made, key, server.expires_at) /\ client' = client /\ taken' = taken
      /\ server.expires_at \in 0 .. MaxInt
    BY <1>d, <1>e DEF MakeKey, Server
<1>5. /\ DOMAIN made' = DOMAIN made \cup {key} /\ made'[key] = server.expires_at
      /\ \A k \in DOMAIN made : k # key => made'[k] = made[k]
    BY <1>4 DEF With
<1>6. key \notin DOMAIN made
    BY <1>b, <1>c, <1>e DEF KeysInv
<1>7. TypeOK'
    BY <1>b, <1>c, <1>1, <1>3, <1>4, <1>5 DEF TypeOK, Consumes, Replies
<1>8. RequestsInv'
    BY <1>b, <1>c, <1>2, <1>4, ReadKeepsRequests
<1>9. KeysInv'
  <2>1. a <= b /\ a <= b + 1
      BY <1>b, <1>c, <1>e DEF KeysInv
  <2>2. ASSUME NEW k \in DOMAIN made'
        PROVE  k[1] <= a /\ Asked(k[2], made'[k] > 0)
    <3>1. CASE k = key
        BY <1>b, <1>c, <1>e, <1>5, <3>1 DEF KeysInv, Asked
    <3>2. CASE k \in DOMAIN made /\ k # key
        BY <1>b, <1>e, <1>5, <3>2 DEF KeysInv
    <3> QED
        BY <1>5, <3>1, <3>2
  <2>3. ASSUME NEW i \in 1 .. Len(to_client'), to_client'[i].id = "dh_gen_ok"
        PROVE  to_client'[i].hash \in DOMAIN made'
    <3>1. CASE i \in 1 .. Len(to_client)
        BY <1>b, <1>3, <1>5, <2>3, <3>1 DEF Replies, KeysInv
    <3>2. CASE i = Len(to_client) + 1
        BY <1>f, <1>3, <1>5, <3>2 DEF Replies
    <3> QED
        BY <1>3, <3>1, <3>2 DEF Replies
  <2>4. \A k \in DOMAIN taken :
          k[2] <= client.new_nonce /\ (k[2] = client.new_nonce => client.pc = "idle")
      BY <1>b DEF KeysInv
  <2> QED
      BY <1>2, <1>4, <2>1, <2>2, <2>3, <2>4 DEF KeysInv, Asked
<1> QED
    BY <1>e, <1>6, <1>7, <1>8, <1>9 DEF CoreInv
-----------------------------------------------------------------------------
(* The steps of the client preserve CoreInv.                               *)

TakenInv ==
    \A k \in DOMAIN taken :
        /\ k \in AuthKeys /\ taken[k] \in BOOLEAN
        /\ k[2] <= client.new_nonce /\ (k[2] = client.new_nonce => client.pc = "idle")

(* A message of the client keeps the invariant if it is what its place in  *)
(* the exchange allows.                                                    *)
LEMMA ClientKeepsCore ==
    ASSUME CoreInv, NEW msg \in ToServer, Adds(msg), UNCHANGED <<server, made>>, AskedStays,
           client' \in Client, client.new_nonce <= client'.new_nonce,
           client'.pc = "resPQ" => server.new_nonce < client'.new_nonce,
           IsRequest(msg) => /\ client.pc = "resPQ" /\ msg.inner.new_nonce = client.new_nonce
                             /\ Asked(msg.inner.new_nonce, msg.inner.request.temp)',
           Takes \/ UNCHANGED to_client, TakenInv'
    PROVE  CoreInv'
<1>b. TypeOK /\ RequestsInv /\ KeysInv
    BY DEF CoreInv
<1>1. TypeOK'
    BY <1>b DEF TypeOK, Adds, Takes, TakenInv
<1>2. client'.new_nonce \in Nat
    BY DEF Client
<1>3. RequestsInv'
    BY <1>b, <1>2, SendKeepsRequests
<1>4. server.pc = "set_client_DH" => Asked(server.new_nonce, server.expires_at > 0)'
  <2>1. PICK n \in Nat : n = server.new_nonce
      BY <1>b, Numbers
  <2>3. PICK temp \in BOOLEAN : temp <=> server.expires_at > 0
      OBVIOUS
  <2>2. Asked(n, temp) => Asked(n, temp)'
      BY DEF AskedStays
  <2> QED
      BY <1>b, <2>1, <2>2, <2>3 DEF KeysInv, Asked
<1>5. ASSUME NEW k \in DOMAIN made
      PROVE  Asked(k[2], made[k] > 0)'
  <2>1. PICK n \in Nat : n = k[2]
      BY <1>b DEF TypeOK, AuthKeys
  <2>3. PICK temp \in BOOLEAN : temp <=> made[k] > 0
      OBVIOUS
  <2>2. Asked(n, temp) => Asked(n, temp)'
      BY DEF AskedStays
  <2> QED
      BY <1>b, <2>1, <2>2, <2>3 DEF KeysInv, Asked
<1>6. ASSUME NEW i \in 1 .. Len(to_client'), to_client'[i].id = "dh_gen_ok"
      PROVE  to_client'[i].hash \in DOMAIN made
    BY <1>b, <1>6 DEF Takes, KeysInv
<1>7. KeysInv'
    BY <1>b, <1>4, <1>5, <1>6 DEF KeysInv, TakenInv, Asked
<1> QED
    BY <1>1, <1>3, <1>7 DEF CoreInv

(* The keys a client has taken are of exchanges it has finished, and stay  *)
(* so while it moves forward.                                              *)
LEMMA TakenKept ==
    ASSUME CoreInv, UNCHANGED taken, client'.new_nonce \in Nat,
           \/ client.new_nonce < client'.new_nonce
           \/ client'.new_nonce = client.new_nonce /\ (client.pc = "idle" => client'.pc = "idle")
    PROVE  TakenInv'
<1> SUFFICES ASSUME NEW k \in DOMAIN taken
             PROVE  /\ k \in AuthKeys /\ taken[k] \in BOOLEAN
                    /\ k[2] <= client'.new_nonce
                    /\ k[2] = client'.new_nonce => client'.pc = "idle"
    BY DEF TakenInv
<1>1. k \in AuthKeys /\ taken[k] \in BOOLEAN /\ client.new_nonce \in Nat
    BY Numbers DEF CoreInv, TypeOK
<1>2. k[2] \in Nat
    BY <1>1 DEF AuthKeys
<1>3. k[2] <= client.new_nonce /\ (k[2] = client.new_nonce => client.pc = "idle")
    BY DEF CoreInv, KeysInv
<1> QED
    BY <1>1, <1>2, <1>3

(* A client begins an exchange with a new nonce.                           *)
LEMMA SendReqPqCore ==
    ASSUME CoreInv, SendReqPq
    PROVE  CoreInv'
<1> DEFINE msg == [id |-> "req_pq", nonce |-> client.nonce + 1]
<1>a. client \in Client /\ server.new_nonce \in Nat /\ client.new_nonce \in Nat
    BY Numbers DEF CoreInv, TypeOK
<1>b. client.nonce + 1 \in Count
  <2>1. client.nonce \in Nat /\ client.nonce < MaxReqPqs
      BY Numbers DEF SendReqPq, CoreInv
  <2> QED
      BY <2>1, ExchangeConstants DEF Count
<1>c. msg \in ToServer /\ ~ IsRequest(msg)
    BY <1>b DEF ToServer, ReqPqMessage, IsRequest
<1>d. Adds(msg)
    BY <1>c, SendAdds DEF SendReqPq, CoreInv
<1>e. /\ client' \in Client /\ client'.pc = "resPQ"
      /\ client'.new_nonce = IF client.pc = "idle" THEN client.new_nonce + 1
                             ELSE client.new_nonce
  <2>1. PICK n \in 0 .. MaxExchanges :
          n = IF client.pc = "idle" THEN client.new_nonce + 1 ELSE client.new_nonce
    <3>1. client.new_nonce \in 0 .. MaxExchanges
        BY <1>a DEF Client
    <3> QED
        BY <3>1, ExchangeConstants DEF SendReqPq
  <2>2. client' = [client EXCEPT !.pc = "resPQ", !.nonce = client.nonce + 1, !.new_nonce = n]
      BY <2>1 DEF SendReqPq
  <2> QED
      BY <1>a, <1>b, <2>1, <2>2 DEF Client
<1>f. UNCHANGED <<server, to_client, made, taken>> /\ client.pc \in {"idle", "resPQ"}
    BY DEF SendReqPq
<1> HIDE DEF msg
<1>1. AskedStays
    BY <1>a, <1>e, <1>f DEF AskedStays, Asked
<1>2. TakenInv'
    BY <1>a, <1>e, <1>f, TakenKept
<1>3. server.new_nonce < client'.new_nonce /\ client.new_nonce <= client'.new_nonce
    BY <1>a, <1>e, <1>f DEF CoreInv, RequestsInv
<1> QED
    BY <1>c, <1>d, <1>e, <1>f, <1>1, <1>2, <1>3, ClientKeepsCore

(* The answer to an earlier req_pq is skipped.                             *)
LEMMA IgnoreCore ==
    ASSUME CoreInv, NEW acked \in BOOLEAN, Ignore(acked)
    PROVE  CoreInv'
<1>a. Adds([id |-> "msgs_ack"]) /\ Takes
    BY AckAdds, TailTakes DEF CoreInv, Ignore
<1>b. PICK msg \in ToServer : msg = [id |-> "msgs_ack"]
    BY DEF ToServer
<1>c. ~ IsRequest(msg)
    BY <1>b DEF IsRequest
<1>d. UNCHANGED <<server, client, made, taken>> /\ client \in Client /\ client.new_nonce \in Nat
    BY Numbers DEF Ignore, CoreInv, TypeOK
<1>1. AskedStays /\ TakenInv'
    BY <1>d, SameClientAsked, TakenKept
<1>2. client.pc = "resPQ" => server.new_nonce < client.new_nonce
    BY DEF CoreInv, RequestsInv
<1> QED
    BY <1>a, <1>b, <1>c, <1>d, <1>1, <1>2, ClientKeepsCore

(* The nonces of the answer the client reads.                              *)
LEMMA AnswerType ==
    ASSUME Answer \in ToClient
    PROVE  Answer.nonce \in Count /\ Answer.server_nonce \in ServerNonces
BY DEF ToClient, ResPqMessage, ServerDhParamsOk, DhGenOk

(* resPQ: the client names the key it wants under a new secret.            *)
LEMMA TakeResPqCore ==
    ASSUME CoreInv, NEW acked \in BOOLEAN, NEW request \in Requests, TakeResPq(acked, request)
    PROVE  CoreInv'
<1>a. client \in Client /\ client.new_nonce \in Nat /\ server.new_nonce \in Nat
    BY Numbers DEF CoreInv, TypeOK
<1>b. Takes /\ client.pc = "resPQ" /\ UNCHANGED <<server, made, taken>>
    BY TailTakes DEF CoreInv, TakeResPq
<1>c. server.new_nonce < client.new_nonce
    BY <1>b DEF CoreInv, RequestsInv
<1>d. PICK n \in 1 .. MaxExchanges : n = client.new_nonce
    BY <1>a, <1>c DEF Client
<1>e. request.temp \in BOOLEAN
    BY DEF Requests
<1> DEFINE inner == [new_nonce |-> n, request |-> request]
           msg == [id |-> "req_DH_params", inner |-> inner]
<1>f. inner \in Inner /\ inner.new_nonce = n /\ inner.request = request
    BY DEF Inner
<1>g. msg = [id |-> "req_DH_params", inner |-> [new_nonce |-> client.new_nonce, request |-> request]]
    BY <1>d
<1> HIDE DEF inner
<1>h. msg \in ToServer /\ msg.inner = inner
    BY <1>f DEF ToServer, ReqDhParamsMessage
<1>i. Send(Ack(acked) \o <<msg>>)
    BY <1>g DEF TakeResPq
<1> HIDE DEF msg
<1>j. Adds(msg)
    BY <1>h, <1>i, SendAdds DEF CoreInv
<1>k. Answer.server_nonce \in ServerNonces
    BY <1>b, AnswerType DEF Takes
<1>l. /\ client' \in Client /\ client'.pc = "server_DH_params" /\ client'.temp = request.temp
      /\ client'.new_nonce = client.new_nonce
    BY <1>a, <1>e, <1>k DEF TakeResPq, Client
<1>1. AskedStays
    BY <1>a, <1>b, <1>l DEF AskedStays, Asked
<1>2. TakenInv'
    BY <1>a, <1>b, <1>l, TakenKept
<1>3. /\ msg.inner.new_nonce = client.new_nonce
      /\ Asked(msg.inner.new_nonce, msg.inner.request.temp)'
  <2>1. Asked(n, request.temp)'
      BY <1>a, <1>d, <1>l DEF Asked
  <2> QED
      BY <1>d, <1>f, <1>h, <2>1 DEF Asked
<1> QED
    BY <1>a, <1>b, <1>h, <1>j, <1>l, <1>1, <1>2, <1>3, ClientKeepsCore

(* server_DH_params of this exchange: the client sends its half.           *)
LEMMA TakeServerDhParamsCore ==
    ASSUME CoreInv, NEW acked \in BOOLEAN, TakeServerDhParams(acked)
    PROVE  CoreInv'
<1>a. client \in Client /\ client.new_nonce \in Nat
    BY Numbers DEF CoreInv, TypeOK
<1>b. Takes /\ client.pc = "server_DH_params" /\ UNCHANGED <<server, made, taken>>
    BY TailTakes DEF CoreInv, TakeServerDhParams
<1>c. PICK msg : msg = [id |-> "set_client_DH_params",
                        sealed |-> <<client.server_nonce, client.new_nonce>>]
    OBVIOUS
<1>d. msg \in ToServer
  <2>1. <<client.server_nonce, client.new_nonce>> \in ServerNonces \X (0 .. MaxExchanges)
      BY <1>a DEF Client
  <2> QED
      BY <1>c, <2>1 DEF ToServer, SetClientDhMessage
<1>e. ~ IsRequest(msg)
    BY <1>c DEF IsRequest
<1>f. Adds(msg)
    BY <1>c, <1>d, SendAdds DEF TakeServerDhParams, CoreInv
<1>g. /\ client' \in Client /\ client'.pc = "dh_gen" /\ client'.temp = client.temp
      /\ client'.new_nonce = client.new_nonce
    BY <1>a DEF TakeServerDhParams, Client
<1>1. AskedStays /\ TakenInv'
    BY <1>a, <1>b, <1>g, TakenKept DEF AskedStays, Asked
<1> QED
    BY <1>a, <1>b, <1>d, <1>e, <1>f, <1>g, <1>1, ClientKeepsCore

(* The key that is taken is a new one of the client's, and made as what    *)
(* it asked for.                                                           *)
LEMMA TakeDhGenOkCore ==
    ASSUME CoreInv, NEW acked \in BOOLEAN, TakeDhGenOk(acked)
    PROVE  /\ CoreInv'
           /\ Answer.hash \in DOMAIN made \ DOMAIN taken
           /\ client.temp <=> made[Answer.hash] > 0
<1>a. client \in Client /\ client.new_nonce \in Nat /\ client.temp \in BOOLEAN
    BY Numbers DEF CoreInv, TypeOK
<1>b. Takes /\ client.pc = "dh_gen" /\ UNCHANGED <<server, made>>
    BY TailTakes DEF CoreInv, TakeDhGenOk
<1>c. PICK msg \in ToServer : msg = [id |-> "msgs_ack"]
    BY DEF ToServer
<1>d. ~ IsRequest(msg)
    BY <1>c DEF IsRequest
<1>e. Adds(msg)
    BY <1>c, AckAdds DEF TakeDhGenOk, CoreInv
<1>f. /\ client' \in Client /\ client'.pc = "idle" /\ client'.temp = client.temp
      /\ client'.new_nonce = client.new_nonce
    BY <1>a DEF TakeDhGenOk, Client
<1>g. PICK key : key = Answer.hash
    OBVIOUS
<1>h. key = <<client.server_nonce, client.new_nonce>> /\ taken' = With(taken, key, client.temp)
    BY <1>g DEF TakeDhGenOk
<1>i. key[2] = client.new_nonce
    BY <1>h
<1>1. key \in DOMAIN made
  <2>1. Answer = to_client[1] /\ 1 \in 1 .. Len(to_client) /\ Answer.id = "dh_gen_ok"
      BY <1>b DEF Takes, TakeDhGenOk
  <2> QED
      BY <1>g, <2>1 DEF CoreInv, KeysInv
<1>2. key \notin DOMAIN taken
    BY <1>b, <1>i DEF CoreInv, KeysInv
<1>3. client.temp <=> made[key] > 0
  <2>1. Asked(key[2], made[key] > 0)
      BY <1>1 DEF CoreInv, KeysInv
  <2> QED
      BY <1>i, <2>1 DEF Asked
<1>4. TakenInv'
  <2> SUFFICES ASSUME NEW k \in DOMAIN taken'
               PROVE  /\ k \in AuthKeys /\ taken'[k] \in BOOLEAN
                      /\ k[2] <= client'.new_nonce
                      /\ k[2] = client'.new_nonce => client'.pc = "idle"
      BY DEF TakenInv
  <2>1. k = key \/ k \in DOMAIN taken
      BY <1>h DEF With
  <2>2. taken'[k] = IF k = key THEN client.temp ELSE taken[k]
      BY <1>h DEF With
  <2>3. CASE k = key
      BY <1>a, <1>f, <1>i, <1>1, <2>2, <2>3 DEF CoreInv, TypeOK
  <2>4. CASE k # key /\ k \in DOMAIN taken
      BY <1>f, <2>2, <2>4 DEF CoreInv, TypeOK, KeysInv
  <2> QED
      BY <2>1, <2>3, <2>4
<1>5. AskedStays
    BY <1>a, <1>b, <1>f DEF AskedStays, Asked
<1>6. CoreInv'
    BY <1>a, <1>b, <1>d, <1>e, <1>f, <1>4, <1>5, ClientKeepsCore
<1> QED
    BY <1>g, <1>1, <1>2, <1>3, <1>6

(* A client may send an encrypted frame at any moment.                     *)
LEMMA SendEncryptedCore ==
    ASSUME CoreInv, SendEncrypted
    PROVE  CoreInv' /\ Adds([id |-> "encrypted"])
<1>a. PICK msg \in ToServer : msg = [id |-> "encrypted"]
    BY DEF ToServer
<1>b. ~ IsRequest(msg)
    BY <1>a DEF IsRequest
<1>c. Adds(msg)
    BY <1>a, SendAdds DEF SendEncrypted, CoreInv
<1>d. UNCHANGED <<server, client, to_client, made, taken>>
    BY DEF SendEncrypted
<1>e. client \in Client /\ client.new_nonce \in Nat
    BY Numbers DEF CoreInv, TypeOK
<1>1. AskedStays /\ TakenInv'
    BY <1>d, <1>e, SameClientAsked, TakenKept
<1>2. client.pc = "resPQ" => server.new_nonce < client.new_nonce
    BY DEF CoreInv, RequestsInv
<1> QED
    BY <1>a, <1>b, <1>c, <1>d, <1>e, <1>1, <1>2, ClientKeepsCore

(* A client that goes wrong says so in its record.                         *)
LEMMA StrayCore ==
    ASSUME CoreInv, Stray
    PROVE  CoreInv' /\ client'.strayed
<1>e. client \in Client /\ client.new_nonce \in Nat /\ client.nonce \in Count
    BY Numbers DEF CoreInv, TypeOK, Client
<1>a. PICK msg : /\ msg \in {[id |-> "other"],
                             [id |-> "req_pq", nonce |-> client.nonce],
                             [id |-> "req_DH_params", inner |-> Garbled],
                             [id |-> "set_client_DH_params", sealed |-> <<0, 0>>]}
                 /\ Send(<<msg>>)
    BY DEF Stray
<1>b. msg \in ToServer
  <2>1. [id |-> "other"] \in ToServer
      BY DEF ToServer
  <2>2. [id |-> "req_pq", nonce |-> client.nonce] \in ToServer
      BY <1>e DEF ToServer, ReqPqMessage
  <2>3. [id |-> "req_DH_params", inner |-> Garbled] \in ToServer
      BY DEF ToServer, ReqDhParamsMessage
  <2>4. [id |-> "set_client_DH_params", sealed |-> <<0, 0>>] \in ToServer
    <3>1. 0 \in ServerNonces /\ 0 \in 0 .. MaxExchanges
        BY ExchangeConstants DEF ServerNonces
    <3> QED
        BY <3>1 DEF ToServer, SetClientDhMessage
  <2> QED
      BY <1>a, <2>1, <2>2, <2>3, <2>4
<1>c. ~ IsRequest(msg)
    BY <1>a DEF IsRequest
<1>d. Adds(msg)
    BY <1>a, <1>b, SendAdds DEF CoreInv
<1>f. UNCHANGED <<server, to_client, made, taken>>
    BY DEF Stray
<1>g. /\ client' \in Client /\ client'.pc = client.pc /\ client'.temp = client.temp
      /\ client'.new_nonce = client.new_nonce /\ client'.strayed
    BY <1>e DEF Stray, Client
<1>1. AskedStays /\ TakenInv'
    BY <1>e, <1>f, <1>g, TakenKept DEF AskedStays, Asked
<1>2. client.pc = "resPQ" => server.new_nonce < client.new_nonce
    BY DEF CoreInv, RequestsInv
<1> QED
    BY <1>b, <1>c, <1>d, <1>e, <1>f, <1>g, <1>1, <1>2, ClientKeepsCore
-----------------------------------------------------------------------------
(* Every step preserves CoreInv.                                           *)

(* The steps of the server that close the connection.                      *)
RefuseRequest(now) ==
    /\ Reads({"req_DH_params"}, {"req_DH_params"})
    /\ Frame.inner # Garbled /\ ~ LifetimeFits(Frame.inner.request, now)
    /\ Refuse("lifetime", <<now, Frame.inner.request.expires_in>>)

RefuseGarbled ==
    \/ /\ Reads({"req_DH_params"}, {"req_DH_params"}) /\ Frame.inner = Garbled
       /\ Refuse("garbled", <<>>)
    \/ /\ Reads({"set_client_DH"}, {"set_client_DH_params"})
       /\ Frame.sealed # <<server.server_nonce, server.new_nonce>>
       /\ Refuse("garbled", <<>>)

(* Every step of the server reads one message.                             *)
LEMMA ServeCases ==
    ASSUME Serve
    PROVE  \/ SkipAck \/ LeaveExchange \/ Unexpected \/ ReqPq \/ RefuseGarbled \/ MakeKey
           \/ \E now \in Times : RefuseRequest(now) \/ AcceptRequest(now)
<1>1. CASE ReqDhParams
    BY <1>1 DEF ReqDhParams, RefuseRequest, AcceptRequest, RefuseGarbled
<1>2. CASE SetClientDhParams
    BY <1>2 DEF SetClientDhParams, MakeKey, RefuseGarbled
<1> QED
    BY <1>1, <1>2 DEF Serve

(* A refused message ends the connection and makes no key.                 *)
LEMMA RefuseCore ==
    ASSUME CoreInv, to_server # <<>>,
           NEW why \in {"unexpected", "garbled", "lifetime"},
           NEW refused \in {<<>>} \cup (Times \X Lifetimes), Refuse(why, refused)
    PROVE  CoreInv' /\ ~ Open' /\ server'.why = why /\ server'.refused = refused
<1>1. server \in Server /\ Consumes
    BY ConsumedConsumes DEF CoreInv, TypeOK, Refuse
<1>2. /\ server' \in Server /\ server'.pc = "closed"
      /\ server'.new_nonce = server.new_nonce /\ server'.server_nonce = server.server_nonce
      /\ server'.expires_at = server.expires_at /\ server'.why = why
      /\ server'.refused = refused
    BY <1>1 DEF Refuse, Server
<1> QED
    BY <1>1, <1>2, ReadKeepsCore DEF Refuse, Open

(* A lifetime is refused only if it is not positive or its end does not    *)
(* fit in an int32.                                                        *)
LEMMA RefuseRequestCore ==
    ASSUME CoreInv, NEW now \in Times, RefuseRequest(now)
    PROVE  /\ CoreInv' /\ ~ Open' /\ server'.why = "lifetime"
           /\ server'.refused[2] <= 0 \/ server'.refused[1] + server'.refused[2] > MaxInt
<1>a. Consumes /\ to_server # <<>> /\ Frame.id = "req_DH_params"
    BY ConsumedConsumes DEF CoreInv, RefuseRequest, Reads, Refuse
<1>b. IsRequest(Frame) /\ Frame \in ToServer
    BY <1>a DEF RefuseRequest, IsRequest, Consumes
<1>c. PICK request \in Requests : request = Frame.inner.request
    BY <1>b, RequestType
<1>d. request.temp /\ ~ LifetimeFits(request, now)
    BY <1>c DEF RefuseRequest, LifetimeFits
<1>e. request.expires_in \in Lifetimes
    BY <1>d DEF Requests
<1>f. PICK lifetime \in Lifetimes : lifetime = request.expires_in
    BY <1>e
<1>g. <<now, lifetime>> \in Times \X Lifetimes
    OBVIOUS
<1>h. Refuse("lifetime", <<now, lifetime>>)
    BY <1>c, <1>f DEF RefuseRequest
<1>1. CoreInv' /\ ~ Open' /\ server'.why = "lifetime" /\ server'.refused = <<now, lifetime>>
    BY <1>a, <1>g, <1>h, RefuseCore
<1>2. now \in Int /\ lifetime \in Int /\ MaxInt \in Int /\ now > 0
  <2>1. now \in 1 .. MaxInt /\ lifetime \in -(MaxInt + 1) .. MaxInt /\ MaxInt \in Nat
      BY ExchangeConstants
  <2> QED
      BY <2>1
<1>3. lifetime <= 0 \/ now + lifetime > MaxInt
    BY <1>d, <1>f, <1>2 DEF LifetimeFits
<1> QED
    BY <1>1, <1>3

(* A request that does not decrypt ends the connection.                    *)
LEMMA RefuseGarbledCore ==
    ASSUME CoreInv, RefuseGarbled
    PROVE  CoreInv' /\ ~ Open' /\ server'.why = "garbled"
BY RefuseCore DEF RefuseGarbled, Reads

(* A message out of order ends the connection.                             *)
LEMMA UnexpectedCore ==
    ASSUME CoreInv, Unexpected
    PROVE  CoreInv' /\ ~ Open' /\ server'.why = "unexpected"
BY RefuseCore DEF Unexpected

(* An acknowledgement is skipped wherever it comes.                        *)
LEMMA SkipAckCore ==
    ASSUME CoreInv, SkipAck
    PROVE  CoreInv'
<1>1. server' \in Server /\ Consumes
    BY ConsumedConsumes DEF CoreInv, TypeOK, SkipAck, Reads
<1> QED
    BY <1>1, ReadKeepsCore DEF SkipAck

(* An encrypted frame ends the exchange without a verdict on it.           *)
LEMMA LeaveExchangeCore ==
    ASSUME CoreInv, LeaveExchange
    PROVE  CoreInv' /\ ~ Open' /\ server'.why = server.why /\ server'.refused = server.refused
<1>1. server \in Server /\ Consumes
    BY ConsumedConsumes DEF CoreInv, TypeOK, LeaveExchange, Reads
<1>2. /\ server' \in Server /\ server'.pc = "session"
      /\ server'.new_nonce = server.new_nonce /\ server'.server_nonce = server.server_nonce
      /\ server'.expires_at = server.expires_at
      /\ server'.why = server.why /\ server'.refused = server.refused
    BY <1>1 DEF LeaveExchange, Server
<1> QED
    BY <1>1, <1>2, ReadKeepsCore DEF LeaveExchange, Open

(* The client closes the connection.                                       *)
LEMMA HangUpCore ==
    ASSUME CoreInv, HangUp
    PROVE  CoreInv' /\ ~ Open' /\ server'.why = "hangup"
<1>1. server \in Server
    BY DEF CoreInv, TypeOK
<1>2. /\ server' \in Server /\ server'.pc = "closed"
      /\ server'.new_nonce = server.new_nonce /\ server'.server_nonce = server.server_nonce
      /\ server'.expires_at = server.expires_at /\ server'.why = "hangup"
    BY <1>1 DEF HangUp, Server
<1> QED
    BY <1>2, ReadKeepsCore DEF HangUp, Open

(* A step that changes nothing.                                            *)
LEMMA UnchangedCore ==
    ASSUME CoreInv, UNCHANGED vars
    PROVE  CoreInv'
BY DEF CoreInv, TypeOK, RequestsInv, KeysInv, Asked, IsRequest, vars

(* Every step of the server keeps the core invariant.                      *)
LEMMA ServeCore ==
    ASSUME CoreInv, Serve
    PROVE  CoreInv'
BY ServeCases, SkipAckCore, LeaveExchangeCore, UnexpectedCore, ReqPqCore, RefuseGarbledCore,
   MakeKeyCore, RefuseRequestCore, AcceptRequestCore

(* Every step keeps the core invariant.                                    *)
LEMMA NextCore ==
    ASSUME CoreInv, [Next]_vars
    PROVE  CoreInv'
<1>1. CASE Serve
    BY <1>1, ServeCore
<1>2. CASE Receive
    BY <1>2, IgnoreCore, TakeResPqCore, TakeServerDhParamsCore, TakeDhGenOkCore DEF Receive
<1>3. CASE SendReqPq \/ SendEncrypted \/ Stray \/ HangUp
    BY <1>3, SendReqPqCore, SendEncryptedCore, StrayCore, HangUpCore
<1>4. CASE UNCHANGED vars
    BY <1>4, UnchangedCore
<1> QED
    BY <1>1, <1>2, <1>3, <1>4 DEF Next, Finished

(* A fresh connection satisfies the core invariant.                        *)
LEMMA InitCore == Init => CoreInv
<1> SUFFICES ASSUME Init PROVE CoreInv
    OBVIOUS
<1>1. server \in Server
  <2>1. 0 \in Count /\ 0 \in ServerNonces /\ 0 \in 0 .. MaxExchanges /\ 0 \in 0 .. MaxInt
      BY ExchangeConstants DEF Count, ServerNonces
  <2> QED
      BY <2>1 DEF Init, Server
<1>2. client \in Client
  <2>1. 0 \in Count /\ 0 \in ServerNonces /\ 0 \in 0 .. MaxExchanges
      BY ExchangeConstants DEF Count, ServerNonces
  <2> QED
      BY <2>1 DEF Init, Client
<1>3. /\ server.pc = "req_pq" /\ server.new_nonce = 0 /\ server.server_nonce = 0
      /\ client.pc = "idle" /\ client.new_nonce = 0
      /\ to_server = <<>> /\ to_client = <<>> /\ made = <<>> /\ taken = <<>>
    BY DEF Init
<1>4. DOMAIN made = {} /\ DOMAIN taken = {} /\ Len(to_server) = 0 /\ Len(to_client) = 0
    BY <1>3
<1>5. TypeOK
    BY <1>1, <1>2, <1>3, <1>4 DEF TypeOK
<1>6. RequestsInv /\ KeysInv
    BY <1>3, <1>4 DEF RequestsInv, KeysInv
<1> QED
    BY <1>5, <1>6 DEF CoreInv

(* The bounds of Exchange hold whatever the client does: an exchange of    *)
(* the server but the last has used up a new_nonce of the client's, and    *)
(* expires_at, added up and cast to int32, is neither negative nor wraps.  *)
THEOREM TypeCorrect == Spec => []TypeOK
<1>1. CoreInv => TypeOK
    BY DEF CoreInv
<1> QED
    BY <1>1, InitCore, NextCore, PTL DEF Spec

(* ServerExchange::Run, message by message, implements the agreement: the  *)
(* key that it makes is new on the connection, and the key that the client *)
(* takes is one that was made, once, as the kind it asked for.             *)
THEOREM ExchangeAgrees == Spec => ImplementsAgreement
<1>1. Init => Agreement!Init
    BY DEF Init, Agreement!Init
<1>2. ASSUME CoreInv, [Next]_vars
      PROVE  [Agreement!Make \/ Agreement!Take]_(Agreement!agreement)
  <2>1. CASE UNCHANGED <<made, taken>>
      BY <2>1 DEF Agreement!agreement
  <2>2. CASE MakeKey
    <3>1. PICK key : key = <<server.server_nonce, server.new_nonce>>
        OBVIOUS
    <3>2. /\ key \in AuthKeys \ DOMAIN made /\ server.expires_at \in 0 .. MaxInt
          /\ made' = With(made, key, server.expires_at) /\ taken' = taken
        BY <1>2, <2>2, <3>1, MakeKeyCore DEF MakeKey, CoreInv, TypeOK, Server
    <3> QED
        BY <3>2 DEF Agreement!Make, With
  <2>3. ASSUME NEW acked \in BOOLEAN, TakeDhGenOk(acked)
        PROVE  Agreement!Take
    <3>1. PICK key : key = Answer.hash
        OBVIOUS
    <3>2. /\ key \in DOMAIN made \ DOMAIN taken /\ (client.temp <=> made[key] > 0)
          /\ client.temp \in BOOLEAN
        BY <1>2, <2>3, <3>1, TakeDhGenOkCore, Numbers DEF CoreInv
    <3>3. taken' = With(taken, key, client.temp) /\ made' = made
        BY <2>3, <3>1 DEF TakeDhGenOk
    <3>4. client.temp = (made[key] > 0)
        BY <3>2
    <3>5. taken' = With(taken, key, made[key] > 0)
        BY <3>3, <3>4
    <3> QED
        BY <3>2, <3>3, <3>5 DEF Agreement!Take, With
  <2>4. ASSUME Serve, ~ MakeKey PROVE UNCHANGED <<made, taken>>
      BY <2>4, ServeCases DEF SkipAck, LeaveExchange, Unexpected, ReqPq, RefuseGarbled,
          RefuseRequest, AcceptRequest, Refuse
  <2>5. ASSUME Receive, \A acked \in BOOLEAN : ~ TakeDhGenOk(acked)
        PROVE  UNCHANGED <<made, taken>>
      BY <2>5 DEF Receive, Ignore, TakeResPq, TakeServerDhParams
  <2>6. ASSUME SendReqPq \/ SendEncrypted \/ Stray \/ HangUp \/ UNCHANGED vars
        PROVE  UNCHANGED <<made, taken>>
      BY <2>6 DEF SendReqPq, SendEncrypted, Stray, HangUp, vars
  <2> QED
      BY <1>2, <2>1, <2>2, <2>3, <2>4, <2>5, <2>6 DEF Next, Finished
<1> QED
    BY <1>1, <1>2, InitCore, NextCore, PTL DEF Spec, ImplementsAgreement, Agreement!Spec
-----------------------------------------------------------------------------
(* A client that does not stray: PhaseInv.                                 *)

LEMMA ReadKeepsOnlySends ==
    ASSUME NEW ids, OnlySends(ids), Consumes
    PROVE  OnlySends(ids)'
BY DEF OnlySends, Consumes

(* A message of an allowed kind, an acknowledgement or an encrypted frame  *)
(* may be added to a queue of allowed kinds.                               *)
LEMMA SendKeepsOnlySends ==
    ASSUME NEW ids, OnlySends(ids), NEW msg, Adds(msg),
           msg.id \in ids \cup {"msgs_ack", "encrypted"}
    PROVE  OnlySends(ids)'
<1> SUFFICES ASSUME NEW i \in 1 .. Len(to_server')
             PROVE  to_server'[i].id \in ids \cup {"msgs_ack", "encrypted"}
    BY DEF OnlySends
<1>1. i <= Len(to_server) => i \in 1 .. Len(to_server)
    BY DEF Adds
<1> QED
    BY <1>1 DEF Adds, OnlySends

(* Nonces on their way are numbers.                                        *)
LEMMA MessageNonces ==
    ASSUME TypeOK
    PROVE  /\ \A i \in 1 .. Len(to_server) : to_server[i].id = "req_pq" => to_server[i].nonce \in Nat
           /\ \A i \in 1 .. Len(to_client) : to_client[i].nonce \in Nat
<1>1. ASSUME NEW i \in 1 .. Len(to_server), to_server[i].id = "req_pq"
      PROVE  to_server[i].nonce \in Nat
  <2>1. to_server[i] \in ToServer
      BY <1>1, ElementOfSeq DEF TypeOK
  <2> QED
      BY <1>1, <2>1 DEF ToServer, ReqPqMessage, ReqDhParamsMessage, SetClientDhMessage, Count
<1>2. ASSUME NEW i \in 1 .. Len(to_client) PROVE to_client[i].nonce \in Nat
  <2>1. to_client[i] \in ToClient
      BY <1>2, ElementOfSeq DEF TypeOK
  <2> QED
      BY <2>1 DEF ToClient, ResPqMessage, ServerDhParamsOk, DhGenOk, Count
<1> QED
    BY <1>1, <1>2

(* Phases after a skipped acknowledgement.                                 *)
LEMMA SkipAckPhase ==
    ASSUME CoreInv, Phases, SkipAck
    PROVE  Phases'
<1>a. Consumes /\ UNCHANGED <<server, client, to_client>>
    BY ConsumedConsumes DEF SkipAck, Reads, CoreInv
<1>b. \A ids : OnlySends(ids) => OnlySends(ids)'
    BY <1>a, ReadKeepsOnlySends
<1>c. ASSUME NEW i \in 1 .. Len(to_server'), NEW j \in 1 .. Len(to_server'), i < j
      PROVE  i + 1 \in 1 .. Len(to_server) /\ j + 1 \in 1 .. Len(to_server) /\ i + 1 < j + 1
    BY <1>a, <1>c DEF Consumes
<1>1. PhaseIdle'
    BY <1>a, <1>b DEF Phases, PhaseIdle
<1>2. PhaseResPq'
    BY <1>a, <1>b, <1>c DEF Phases, PhaseResPq, Consumes
<1>3. \A id : Once(id) => Once(id)'
    BY <1>a, <1>c DEF Once, Consumes
<1>4. \A id : Answered(id) => Answered(id)'
    BY <1>a, <1>b DEF Answered
<1>5. PhaseDhParams'
    BY <1>a, <1>b, <1>3, <1>4 DEF Phases, PhaseDhParams, SameExchange, Consumes
<1>6. PhaseDhGen'
    BY <1>a, <1>b, <1>3, <1>4 DEF Phases, PhaseDhGen, SameExchange, Consumes
<1> QED
    BY <1>a, <1>1, <1>2, <1>5, <1>6 DEF Phases

(* The first frame says where the client stands.                           *)
LEMMA FramePhase ==
    ASSUME CoreInv, Phases, to_server # <<>>, Consumed
    PROVE  /\ Frame.id \in {"msgs_ack", "encrypted", "req_pq", "req_DH_params",
                            "set_client_DH_params"}
           /\ Frame.id = "req_pq" => client.pc = "resPQ"
           /\ Frame.id = "req_DH_params" =>
                client.pc = "server_DH_params" /\ server.pc = "req_DH_params"
           /\ Frame.id = "set_client_DH_params" =>
                client.pc = "dh_gen" /\ server.pc = "set_client_DH"
<1>1. Consumes
    BY ConsumedConsumes DEF CoreInv
<1>2. 1 \in 1 .. Len(to_server) /\ Frame = to_server[1]
    BY <1>1 DEF Consumes
<1>3. client.pc \in {"idle", "resPQ", "server_DH_params", "dh_gen"}
    BY DEF CoreInv, TypeOK, Client
<1> QED
    BY <1>2, <1>3 DEF Phases, PhaseIdle, PhaseResPq, PhaseDhParams, PhaseDhGen, OnlySends, Answered

(* Phases after a req_pq, the first one or a repetition.                   *)
LEMMA ReqPqPhase ==
    ASSUME CoreInv, Phases, ReqPq
    PROVE  Phases'
<1> DEFINE sn == IF server.pc = "req_pq" THEN server.server_nonce + 1 ELSE server.server_nonce
<1>a. /\ to_server # <<>> /\ server.pc \in {"req_pq", "req_DH_params"} /\ Frame.id = "req_pq"
      /\ server' = [server EXCEPT !.pc = "req_DH_params", !.nonce = Frame.nonce,
                                  !.server_nonce = sn]
      /\ to_client' = Append(to_client, [id |-> "resPQ", nonce |-> Frame.nonce, server_nonce |-> sn])
      /\ Consumed /\ client' = client
    BY DEF ReqPq, Reads, ReqPqNonce
<1>b. server \in Server /\ TypeOK
    BY DEF CoreInv, TypeOK
<1>c. PICK s : s = sn
    OBVIOUS
<1>d. s = server.server_nonce \/ to_client = <<>>
    BY <1>a, <1>c, FramePhase DEF Phases, PhaseResPq
<1> HIDE DEF sn
<1>e. /\ server'.pc = "req_DH_params" /\ server'.nonce = Frame.nonce /\ server'.server_nonce = s
    BY <1>a, <1>b, <1>c DEF Server
<1>f. client.pc = "resPQ"
    BY <1>a, FramePhase
<1>g. PhaseResPq /\ Consumes
    BY <1>a, <1>b, ConsumedConsumes DEF Phases
<1>h. 1 \in 1 .. Len(to_server) /\ Frame = to_server[1]
    BY <1>g DEF Consumes
<1>i. server.nonce < Frame.nonce /\ Frame.nonce <= client.nonce /\ Frame.nonce \in Nat
    BY <1>a, <1>b, <1>f, <1>g, <1>h, MessageNonces DEF PhaseResPq
<1>j. PICK msg : msg = [id |-> "resPQ", nonce |-> Frame.nonce, server_nonce |-> s]
    OBVIOUS
<1>k. msg.id = "resPQ" /\ msg.nonce = Frame.nonce /\ msg.server_nonce = s
    BY <1>j
<1>l. Replies(msg)
  <2>1. s \in ServerNonces /\ Frame.nonce \in Count
    <3>1. CoreInv'
        BY ReqPqCore
    <3> QED
        BY <1>e, <3>1 DEF CoreInv, TypeOK, Server
  <2>2. msg \in ToClient
      BY <1>j, <2>1 DEF ToClient, ResPqMessage
  <2> QED
      BY <1>a, <1>b, <1>c, <1>j, <2>2, AppendReplies
<1>1. OnlySends({"req_pq"})'
    BY <1>f, <1>g, ReadKeepsOnlySends DEF PhaseResPq
<1>2. ASSUME NEW i \in 1 .. Len(to_server'), to_server'[i].id = "req_pq"
      PROVE  Frame.nonce < to_server'[i].nonce /\ to_server'[i].nonce <= client.nonce
  <2>1. i + 1 \in 1 .. Len(to_server) /\ to_server'[i] = to_server[i + 1] /\ 1 < i + 1
      BY <1>g, <1>2 DEF Consumes
  <2> QED
      BY <1>a, <1>f, <1>g, <1>h, <1>2, <2>1 DEF PhaseResPq
<1>3. ASSUME NEW i \in 1 .. Len(to_server'), NEW j \in 1 .. Len(to_server'), i < j,
             to_server'[i].id = "req_pq", to_server'[j].id = "req_pq"
      PROVE  to_server'[i].nonce < to_server'[j].nonce
  <2>1. /\ i + 1 \in 1 .. Len(to_server) /\ j + 1 \in 1 .. Len(to_server) /\ i + 1 < j + 1
        /\ to_server'[i] = to_server[i + 1] /\ to_server'[j] = to_server[j + 1]
      BY <1>g, <1>3 DEF Consumes
  <2> QED
      BY <1>f, <1>g, <1>3, <2>1 DEF PhaseResPq
<1>4. \A i \in 1 .. Len(to_client) :
        to_client[i].id = "resPQ" /\ to_client[i].nonce <= server.nonce
          /\ to_client[i].server_nonce = server.server_nonce /\ to_client[i].nonce \in Nat
    BY <1>b, <1>f, <1>g, MessageNonces DEF PhaseResPq
<1>5. server.nonce \in Nat /\ Len(to_client) \in Nat
    BY <1>b, <1>l, Numbers DEF Replies
<1>6. ASSUME NEW i \in 1 .. Len(to_client')
      PROVE  /\ to_client'[i].id = "resPQ" /\ to_client'[i].nonce <= Frame.nonce
             /\ to_client'[i].server_nonce = s
  <2>1. CASE i = Len(to_client) + 1
      BY <1>i, <1>k, <1>l, <2>1 DEF Replies
  <2>2. CASE i \in 1 .. Len(to_client)
    <3>1. to_client # <<>>
        BY <2>2
    <3> QED
        BY <1>d, <1>i, <1>l, <1>4, <1>5, <2>2, <3>1 DEF Replies
  <2> QED
      BY <1>l, <1>5, <2>1, <2>2 DEF Replies
<1>7. ASSUME NEW i \in 1 .. Len(to_client'), NEW j \in 1 .. Len(to_client'), i < j
      PROVE  to_client'[i].nonce < to_client'[j].nonce
  <2>1. i \in 1 .. Len(to_client) /\ to_client'[i] = to_client[i]
      BY <1>l, <1>5, <1>7 DEF Replies
  <2>2. CASE j = Len(to_client) + 1
      BY <1>i, <1>k, <1>l, <1>4, <1>5, <2>1, <2>2 DEF Replies
  <2>3. CASE j \in 1 .. Len(to_client)
      BY <1>f, <1>g, <1>l, <1>7, <2>1, <2>3 DEF Replies, PhaseResPq
  <2> QED
      BY <1>l, <1>5, <2>2, <2>3 DEF Replies
<1>8. PhaseResPq'
    BY <1>a, <1>e, <1>1, <1>2, <1>3, <1>6, <1>7 DEF PhaseResPq
<1> QED
    BY <1>a, <1>e, <1>f, <1>i, <1>8 DEF Phases, PhaseIdle, PhaseDhParams, PhaseDhGen

(* Phases after an accepted req_DH_params.                                 *)
LEMMA AcceptRequestPhase ==
    ASSUME CoreInv, Phases, NEW now \in Times, AcceptRequest(now)
    PROVE  Phases'
<1>a. /\ to_server # <<>> /\ Consumed /\ client' = client /\ Frame.id = "req_DH_params"
      /\ Frame.inner # Garbled
    BY DEF AcceptRequest, Reads
<1>b. server \in Server /\ TypeOK
    BY DEF CoreInv, TypeOK
<1>c. client.pc = "server_DH_params" /\ server.pc = "req_DH_params" /\ Consumes
    BY <1>a, <1>b, FramePhase, ConsumedConsumes
<1>d. 1 \in 1 .. Len(to_server) /\ Frame = to_server[1]
    BY <1>c DEF Consumes
<1>e. /\ SameExchange /\ OnlySends({"req_DH_params"}) /\ Once("req_DH_params")
      /\ Frame.inner.new_nonce = client.new_nonce
    BY <1>a, <1>c, <1>d DEF Phases, PhaseDhParams
<1>f. /\ server'.pc = "set_client_DH" /\ server'.new_nonce = client.new_nonce
      /\ server'.nonce = server.nonce /\ server'.server_nonce = server.server_nonce
    BY <1>b, <1>e DEF AcceptRequest, Server
<1>g. PICK msg : msg = [id |-> "server_DH_params_ok", nonce |-> server.nonce,
                        server_nonce |-> server.server_nonce]
    OBVIOUS
<1>h. msg \in ToClient /\ msg.id = "server_DH_params_ok"
    BY <1>b, <1>g DEF Server, ToClient, ServerDhParamsOk
<1>i. Replies(msg)
    BY <1>b, <1>g, <1>h, AppendReplies DEF AcceptRequest
<1>1. OnlySends({})'
  <2> SUFFICES ASSUME NEW i \in 1 .. Len(to_server')
               PROVE  to_server'[i].id \in {"msgs_ack", "encrypted"}
      BY DEF OnlySends
  <2>1. i + 1 \in 1 .. Len(to_server) /\ to_server'[i] = to_server[i + 1] /\ 1 < i + 1
      BY <1>c DEF Consumes
  <2> QED
      BY <1>a, <1>d, <1>e, <2>1 DEF Once, OnlySends
<1>2. Len(to_client) = 0
    BY <1>e DEF Once
<1>3. Answered("server_DH_params_ok")'
    BY <1>h, <1>i, <1>1, <1>2 DEF Answered, Replies
<1>4. PhaseDhParams'
    BY <1>a, <1>e, <1>f, <1>3 DEF PhaseDhParams, SameExchange
<1> QED
    BY <1>a, <1>c, <1>f, <1>4 DEF Phases, PhaseIdle, PhaseResPq, PhaseDhGen

(* Phases after set_client_DH_params.                                      *)
LEMMA MakeKeyPhase ==
    ASSUME CoreInv, Phases, MakeKey
    PROVE  Phases'
<1>a. to_server # <<>> /\ Consumed /\ client' = client /\ Frame.id = "set_client_DH_params"
    BY DEF MakeKey, Reads
<1>b. server \in Server /\ TypeOK
    BY DEF CoreInv, TypeOK
<1>c. client.pc = "dh_gen" /\ server.pc = "set_client_DH" /\ Consumes
    BY <1>a, <1>b, FramePhase, ConsumedConsumes
<1>d. 1 \in 1 .. Len(to_server) /\ Frame = to_server[1]
    BY <1>c DEF Consumes
<1>e. OnlySends({"set_client_DH_params"}) /\ Once("set_client_DH_params")
    BY <1>c DEF Phases, PhaseDhGen
<1>f. server'.pc = "req_pq" /\ server'.nonce = server.nonce
    BY <1>b DEF MakeKey, Server
<1>g. PICK msg : msg = [id |-> "dh_gen_ok", nonce |-> server.nonce,
                        server_nonce |-> server.server_nonce,
                        hash |-> <<server.server_nonce, server.new_nonce>>]
    OBVIOUS
<1>h. msg \in ToClient /\ msg.id = "dh_gen_ok"
  <2>1. <<server.server_nonce, server.new_nonce>> \in AuthKeys
      BY MakeKeyCore
  <2> QED
      BY <1>b, <1>g, <2>1 DEF Server, ToClient, DhGenOk
<1>i. Replies(msg)
    BY <1>b, <1>g, <1>h, AppendReplies DEF MakeKey
<1>1. OnlySends({})'
  <2> SUFFICES ASSUME NEW i \in 1 .. Len(to_server')
               PROVE  to_server'[i].id \in {"msgs_ack", "encrypted"}
      BY DEF OnlySends
  <2>1. i + 1 \in 1 .. Len(to_server) /\ to_server'[i] = to_server[i + 1] /\ 1 < i + 1
      BY <1>c DEF Consumes
  <2> QED
      BY <1>a, <1>d, <1>e, <2>1 DEF Once, OnlySends
<1>2. Len(to_client) = 0
    BY <1>e DEF Once
<1>3. Answered("dh_gen_ok")'
    BY <1>h, <1>i, <1>1, <1>2 DEF Answered, Replies
<1>4. PhaseDhGen'
    BY <1>a, <1>f, <1>3 DEF PhaseDhGen
<1> QED
    BY <1>a, <1>c, <1>f, <1>4 DEF Phases, PhaseIdle, PhaseResPq, PhaseDhParams

(* Phases after the client's req_pq, the first one or a repetition.        *)
LEMMA SendReqPqPhase ==
    ASSUME CoreInv, Phases, SendReqPq
    PROVE  Phases'
<1>a. /\ client \in Client /\ TypeOK /\ client.nonce \in Nat /\ server.nonce \in Nat
      /\ UNCHANGED <<server, to_client>> /\ client.pc \in {"idle", "resPQ"}
    BY Numbers DEF CoreInv, TypeOK, SendReqPq
<1>b. client'.pc = "resPQ" /\ client'.nonce = client.nonce + 1
    BY <1>a DEF SendReqPq, Client
<1>c. PICK msg : msg = [id |-> "req_pq", nonce |-> client.nonce + 1]
    OBVIOUS
<1>d. msg.id = "req_pq" /\ msg.nonce = client.nonce + 1
    BY <1>c
<1>e. Adds(msg)
  <2>1. client'.nonce \in Count
      BY SendReqPqCore DEF CoreInv, TypeOK, Client
  <2>2. msg \in ToServer
      BY <1>b, <1>c, <2>1 DEF ToServer, ReqPqMessage
  <2> QED
      BY <1>a, <1>c, <2>2, SendAdds DEF SendReqPq
<1>1. /\ server.pc \in {"req_pq", "req_DH_params"} /\ OnlySends({"req_pq"})
      /\ to_client # <<>> => server.pc = "req_DH_params"
    BY <1>a DEF Phases, PhaseIdle, PhaseResPq, OnlySends
<1>2. \A i \in 1 .. Len(to_server) : to_server[i].id = "req_pq" =>
        /\ server.nonce < to_server[i].nonce /\ to_server[i].nonce <= client.nonce
        /\ to_server[i].nonce \in Nat
    BY <1>a, MessageNonces DEF Phases, PhaseIdle, PhaseResPq, OnlySends
<1>3. \A i, j \in 1 .. Len(to_server) :
        i < j /\ to_server[i].id = "req_pq" /\ to_server[j].id = "req_pq" =>
            to_server[i].nonce < to_server[j].nonce
    BY <1>a DEF Phases, PhaseIdle, PhaseResPq, OnlySends
<1>4. ASSUME NEW i \in 1 .. Len(to_server'), to_server'[i].id = "req_pq"
      PROVE  \/ i \in 1 .. Len(to_server) /\ to_server'[i] = to_server[i]
             \/ i = Len(to_server') /\ i > Len(to_server) /\ to_server'[i] = msg
    BY <1>e, <1>4 DEF Adds
<1>5. ASSUME NEW i \in 1 .. Len(to_server'), to_server'[i].id = "req_pq"
      PROVE  server.nonce < to_server'[i].nonce /\ to_server'[i].nonce <= client.nonce + 1
    BY <1>a, <1>d, <1>2, <1>4, <1>5 DEF Phases
<1>6. ASSUME NEW i \in 1 .. Len(to_server'), NEW j \in 1 .. Len(to_server'), i < j,
             to_server'[i].id = "req_pq", to_server'[j].id = "req_pq"
      PROVE  to_server'[i].nonce < to_server'[j].nonce
  <2>1. i \in 1 .. Len(to_server) /\ to_server'[i] = to_server[i]
      BY <1>4, <1>6, <1>e DEF Adds
  <2> QED
      BY <1>a, <1>d, <1>2, <1>3, <1>4, <1>6, <2>1
<1>7. OnlySends({"req_pq"})'
    BY <1>d, <1>e, <1>1, SendKeepsOnlySends
<1>8. /\ \A i \in 1 .. Len(to_client) :
            /\ to_client[i].id = "resPQ" /\ to_client[i].nonce <= server.nonce
            /\ to_client[i].server_nonce = server.server_nonce
      /\ \A i, j \in 1 .. Len(to_client) : i < j => to_client[i].nonce < to_client[j].nonce
    BY <1>a DEF Phases, PhaseIdle, PhaseResPq
<1>9. PhaseResPq'
    BY <1>a, <1>b, <1>1, <1>5, <1>6, <1>7, <1>8 DEF PhaseResPq
<1> QED
    BY <1>a, <1>b, <1>9 DEF Phases, PhaseIdle, PhaseDhParams, PhaseDhGen

(* Phases after the skipped answer to an earlier req_pq.                   *)
LEMMA IgnorePhase ==
    ASSUME CoreInv, Phases, NEW acked \in BOOLEAN, Ignore(acked)
    PROVE  Phases'
<1>a. /\ Adds([id |-> "msgs_ack"]) /\ Takes /\ UNCHANGED <<server, client>>
      /\ to_client # <<>> /\ Answer.id = "resPQ"
    BY AckAdds, TailTakes DEF CoreInv, Ignore
<1>b. PICK msg : msg = [id |-> "msgs_ack"]
    OBVIOUS
<1>c. Adds(msg) /\ msg.id = "msgs_ack"
    BY <1>a, <1>b
<1>d. 1 \in 1 .. Len(to_client) /\ Answer = to_client[1]
    BY <1>a DEF Takes
<1>e. client.pc \in {"idle", "resPQ", "server_DH_params", "dh_gen"}
    BY DEF CoreInv, TypeOK, Client
<1>f. client.pc = "resPQ" /\ PhaseResPq
    BY <1>a, <1>d, <1>e DEF Phases, PhaseIdle, PhaseDhParams, PhaseDhGen, Once, Answered
<1>1. ASSUME NEW i \in 1 .. Len(to_server'), to_server'[i].id = "req_pq"
      PROVE  i \in 1 .. Len(to_server) /\ to_server'[i] = to_server[i]
    BY <1>c, <1>1 DEF Adds
<1>2. OnlySends({"req_pq"})'
    BY <1>c, <1>f, SendKeepsOnlySends DEF PhaseResPq
<1>3. ASSUME NEW i \in 1 .. Len(to_client'), NEW j \in 1 .. Len(to_client'), i < j
      PROVE  to_client'[i].nonce < to_client'[j].nonce
  <2>1. /\ i + 1 \in 1 .. Len(to_client) /\ j + 1 \in 1 .. Len(to_client) /\ i + 1 < j + 1
        /\ to_client'[i] = to_client[i + 1] /\ to_client'[j] = to_client[j + 1]
      BY <1>a, <1>3 DEF Takes
  <2> QED
      BY <1>f, <2>1 DEF PhaseResPq
<1>4. ASSUME NEW i \in 1 .. Len(to_client')
      PROVE  /\ to_client'[i].id = "resPQ" /\ to_client'[i].nonce <= server.nonce
             /\ to_client'[i].server_nonce = server.server_nonce
    BY <1>a, <1>f DEF PhaseResPq, Takes
<1>5. server.pc = "req_DH_params"
    BY <1>a, <1>f DEF PhaseResPq
<1>6. PhaseResPq'
    BY <1>a, <1>f, <1>1, <1>2, <1>3, <1>4, <1>5 DEF PhaseResPq
<1> QED
    BY <1>a, <1>f, <1>6 DEF Phases, PhaseIdle, PhaseDhParams, PhaseDhGen

(* The answer that the client takes is the last one under way.             *)
LEMMA TakesLast ==
    ASSUME Takes, Len(to_client) <= 1
    PROVE  to_client' = <<>>
<1>1. to_client' \in Seq(ToClient) /\ Len(to_client') = 0
    BY DEF Takes
<1> QED
    BY <1>1, EmptySeq

(* The only message of its kind is sent when nothing else is awaited.      *)
LEMMA SendOnce ==
    ASSUME NEW id \in {"req_DH_params", "set_client_DH_params"}, OnlySends({}),
           NEW msg, msg.id = id, Adds(msg), to_client' = <<>>
    PROVE  /\ OnlySends({id})' /\ Once(id)'
           /\ \A i \in 1 .. Len(to_server') : to_server'[i].id = id => to_server'[i] = msg
<1>1. ASSUME NEW i \in 1 .. Len(to_server')
      PROVE  \/ to_server'[i].id \in {"msgs_ack", "encrypted"}
             \/ i = Len(to_server') /\ to_server'[i] = msg
    BY <1>1 DEF Adds, OnlySends
<1>2. OnlySends({id})'
    BY <1>1 DEF OnlySends
<1>3. ASSUME NEW i \in 1 .. Len(to_server'), NEW j \in 1 .. Len(to_server'), i < j
      PROVE  to_server'[i].id # id \/ to_server'[j].id # id
  <2>1. i # Len(to_server')
      BY <1>3 DEF Adds
  <2> QED
      BY <1>1, <2>1
<1> QED
    BY <1>1, <1>2, <1>3 DEF Once

(* Phases after resPQ.                                                     *)
LEMMA TakeResPqPhase ==
    ASSUME CoreInv, Phases, NEW acked \in BOOLEAN, NEW request \in Requests,
           TakeResPq(acked, request)
    PROVE  Phases'
<1>a. /\ TypeOK /\ client \in Client /\ Takes /\ client.pc = "resPQ" /\ UNCHANGED server
      /\ to_client # <<>> /\ Answer.nonce = client.nonce
    BY TailTakes DEF CoreInv, TypeOK, TakeResPq
<1>b. /\ client'.pc = "server_DH_params" /\ client'.server_nonce = Answer.server_nonce
      /\ client'.new_nonce = client.new_nonce /\ client'.nonce = client.nonce
    BY <1>a DEF TakeResPq, Client
<1>c. PhaseResPq /\ server.pc = "req_DH_params"
    BY <1>a DEF Phases, PhaseResPq
<1>d. 1 \in 1 .. Len(to_client) /\ Answer = to_client[1] /\ Len(to_client) \in Nat
    BY <1>a DEF Takes
<1>e. Answer.server_nonce = server.server_nonce /\ client.nonce <= server.nonce
    BY <1>a, <1>c, <1>d DEF PhaseResPq
<1>f. server.nonce \in Nat /\ client.nonce \in Nat /\ server.nonce = client.nonce
    BY <1>a, <1>e, Numbers DEF Phases
<1>1. OnlySends({})
  <2> SUFFICES ASSUME NEW i \in 1 .. Len(to_server), to_server[i].id = "req_pq"
               PROVE  FALSE
      BY <1>a, <1>c DEF PhaseResPq, OnlySends
  <2> QED
      BY <1>a, <1>c, <1>f, MessageNonces DEF PhaseResPq
<1>2. Len(to_client) <= 1
  <2> SUFFICES ASSUME Len(to_client) > 1 PROVE FALSE
      BY <1>d
  <2>1. 2 \in 1 .. Len(to_client)
      BY <1>d
  <2>2. /\ to_client[1].nonce < to_client[2].nonce /\ to_client[2].nonce <= server.nonce
        /\ to_client[2].nonce \in Nat
      BY <1>a, <1>c, <1>d, <2>1, MessageNonces DEF PhaseResPq
  <2> QED
      BY <1>a, <1>d, <1>f, <2>2
<1>3. to_client' = <<>>
    BY <1>a, <1>2, TakesLast
<1>4. PICK inner : inner = [new_nonce |-> client.new_nonce, request |-> request]
    OBVIOUS
<1>5. PICK msg : msg = [id |-> "req_DH_params", inner |-> inner]
    OBVIOUS
<1>6. msg.id = "req_DH_params" /\ msg.inner = inner /\ inner.new_nonce = client.new_nonce
    BY <1>4, <1>5
<1>7. client.new_nonce \in 1 .. MaxExchanges
  <2>1. server.new_nonce \in Nat /\ client.new_nonce \in 0 .. MaxExchanges
      BY <1>a, Numbers DEF Client
  <2>2. server.new_nonce < client.new_nonce
      BY <1>a DEF CoreInv, RequestsInv
  <2> QED
      BY <2>1, <2>2
<1>8. inner \in Inner /\ inner # Garbled
  <2>1. inner \in Inner
      BY <1>4, <1>7 DEF Inner
  <2>2. inner.new_nonce # 0 /\ Garbled.new_nonce = 0
      BY <1>6, <1>7 DEF Garbled
  <2> QED
      BY <2>1, <2>2
<1>9. msg \in ToServer
    BY <1>5, <1>8 DEF ToServer, ReqDhParamsMessage
<1>10. Adds(msg)
    BY <1>a, <1>4, <1>5, <1>9, SendAdds DEF TakeResPq
<1>11. /\ OnlySends({"req_DH_params"})' /\ Once("req_DH_params")'
       /\ \A i \in 1 .. Len(to_server') : to_server'[i].id = "req_DH_params" => to_server'[i] = msg
    BY <1>1, <1>3, <1>6, <1>10, SendOnce
<1>12. PhaseDhParams'
    BY <1>a, <1>b, <1>c, <1>e, <1>6, <1>8, <1>11 DEF PhaseDhParams, SameExchange
<1> QED
    BY <1>a, <1>b, <1>f, <1>12 DEF Phases, PhaseIdle, PhaseResPq, PhaseDhGen

(* Phases after server_DH_params.                                          *)
LEMMA TakeServerDhParamsPhase ==
    ASSUME CoreInv, Phases, NEW acked \in BOOLEAN, TakeServerDhParams(acked)
    PROVE  Phases'
<1>a. /\ TypeOK /\ client \in Client /\ Takes /\ client.pc = "server_DH_params"
      /\ UNCHANGED server /\ to_client # <<>>
    BY TailTakes DEF CoreInv, TypeOK, TakeServerDhParams
<1>b. /\ client'.pc = "dh_gen" /\ client'.server_nonce = client.server_nonce
      /\ client'.new_nonce = client.new_nonce /\ client'.nonce = client.nonce
    BY <1>a DEF TakeServerDhParams, Client
<1>c. /\ SameExchange /\ server.pc = "set_client_DH" /\ server.new_nonce = client.new_nonce
      /\ OnlySends({}) /\ Len(to_client) <= 1
    BY <1>a DEF Phases, PhaseDhParams, Once, Answered
<1>d. to_client' = <<>>
    BY <1>a, <1>c, TakesLast
<1>e. PICK sealed : sealed = <<client.server_nonce, client.new_nonce>>
    OBVIOUS
<1>f. PICK msg : msg = [id |-> "set_client_DH_params", sealed |-> sealed]
    OBVIOUS
<1>g. msg.id = "set_client_DH_params" /\ msg.sealed = sealed
    BY <1>f
<1>h. msg \in ToServer
  <2>1. sealed \in ServerNonces \X (0 .. MaxExchanges)
      BY <1>a, <1>e DEF Client
  <2> QED
      BY <1>f, <2>1 DEF ToServer, SetClientDhMessage
<1>i. Adds(msg)
    BY <1>a, <1>e, <1>f, <1>h, SendAdds DEF TakeServerDhParams
<1>1. /\ OnlySends({"set_client_DH_params"})' /\ Once("set_client_DH_params")'
      /\ \A i \in 1 .. Len(to_server') :
            to_server'[i].id = "set_client_DH_params" => to_server'[i] = msg
    BY <1>c, <1>d, <1>g, <1>i, SendOnce
<1>2. sealed = <<server.server_nonce, server.new_nonce>>
    BY <1>c, <1>e DEF SameExchange
<1>3. PhaseDhGen'
    BY <1>a, <1>b, <1>c, <1>g, <1>1, <1>2 DEF PhaseDhGen, SameExchange
<1> QED
    BY <1>a, <1>b, <1>3 DEF Phases, PhaseIdle, PhaseResPq, PhaseDhParams

(* Phases after dh_gen_ok.                                                 *)
LEMMA TakeDhGenOkPhase ==
    ASSUME CoreInv, Phases, NEW acked \in BOOLEAN, TakeDhGenOk(acked)
    PROVE  Phases'
<1>a. /\ TypeOK /\ client \in Client /\ Takes /\ client.pc = "dh_gen" /\ UNCHANGED server
      /\ to_client # <<>> /\ Adds([id |-> "msgs_ack"])
    BY TailTakes, AckAdds DEF CoreInv, TypeOK, TakeDhGenOk
<1>b. client'.pc = "idle" /\ client'.nonce = client.nonce
    BY <1>a DEF TakeDhGenOk, Client
<1>c. server.pc = "req_pq" /\ OnlySends({}) /\ Len(to_client) <= 1
    BY <1>a DEF Phases, PhaseDhGen, Once, Answered
<1>1. to_client' = <<>>
    BY <1>a, <1>c, TakesLast
<1>2. OnlySends({})'
    BY <1>a, <1>c, SendKeepsOnlySends
<1> QED
    BY <1>a, <1>b, <1>c, <1>1, <1>2 DEF Phases, PhaseIdle, PhaseResPq, PhaseDhParams, PhaseDhGen

(* Phases after an encrypted frame.                                        *)
LEMMA SendEncryptedPhase ==
    ASSUME CoreInv, Phases, SendEncrypted
    PROVE  Phases'
<1>a. /\ Adds([id |-> "encrypted"]) /\ client.pc = "idle" /\ UNCHANGED <<server, client, to_client>>
    BY SendEncryptedCore DEF SendEncrypted
<1>b. OnlySends({})'
    BY <1>a, SendKeepsOnlySends DEF Phases, PhaseIdle
<1> QED
    BY <1>a, <1>b DEF Phases, PhaseIdle, PhaseResPq, PhaseDhParams, PhaseDhGen
-----------------------------------------------------------------------------
(* Refusals.                                                               *)

LEMMA OrderlyNotUnexpected ==
    ASSUME CoreInv, Phases, Unexpected
    PROVE  FALSE
<1>1. /\ server.pc \in {"req_pq", "req_DH_params", "set_client_DH"}
      /\ to_server # <<>> /\ Consumed /\ Frame.id \notin Expected \cup {"msgs_ack", "encrypted"}
    BY DEF Unexpected, Open, CoreInv, TypeOK, Server, Refuse, Skipped
<1>2. Frame.id \in {"req_pq", "req_DH_params", "set_client_DH_params"} \ Expected
    BY <1>1, FramePhase
<1>3. CASE Frame.id = "req_pq"
  <2>1. server.pc \in {"req_pq", "req_DH_params"}
      BY <1>1, <1>3, FramePhase DEF Phases, PhaseResPq
  <2> QED
      BY <1>2, <1>3, <2>1 DEF Expected
<1>4. CASE Frame.id = "req_DH_params"
    BY <1>1, <1>2, <1>4, FramePhase DEF Expected
<1>5. CASE Frame.id = "set_client_DH_params"
    BY <1>1, <1>2, <1>5, FramePhase DEF Expected
<1> QED
    BY <1>2, <1>3, <1>4, <1>5

(* The request of an orderly client decrypts: the server has the nonces it *)
(* was made for.                                                           *)
LEMMA OrderlyNotGarbled ==
    ASSUME CoreInv, Phases, RefuseGarbled
    PROVE  FALSE
<1>1. to_server # <<>> /\ Consumed
    BY DEF RefuseGarbled, Reads, Refuse
<1>2. Consumes
    BY <1>1, ConsumedConsumes DEF CoreInv
<1>3. 1 \in 1 .. Len(to_server) /\ Frame = to_server[1]
    BY <1>2 DEF Consumes
<1>4. CASE Frame.id = "req_DH_params" /\ Frame.inner = Garbled
    BY <1>1, <1>3, <1>4, FramePhase DEF Phases, PhaseDhParams
<1>5. CASE /\ Frame.id = "set_client_DH_params"
           /\ Frame.sealed # <<server.server_nonce, server.new_nonce>>
    BY <1>1, <1>3, <1>5, FramePhase DEF Phases, PhaseDhGen
<1> QED
    BY <1>4, <1>5 DEF RefuseGarbled, Reads

(* Every step keeps the invariant.                                         *)
LEMMA NextInv ==
    ASSUME ExchangeInv, [Next]_vars
    PROVE  ExchangeInv'
<1>a. CoreInv /\ PhaseInv /\ OrderlyNotRefused
    BY DEF ExchangeInv
<1>b. CoreInv'
    BY <1>a, NextCore
<1>c. ASSUME UNCHANGED <<server, client>> PROVE OrderlyNotRefused'
    BY <1>a, <1>c DEF OrderlyNotRefused
<1>d. ASSUME client.strayed => client'.strayed, server'.why = server.why,
             server'.refused = server.refused
      PROVE  OrderlyNotRefused'
    BY <1>a, <1>d DEF OrderlyNotRefused
<1>e. server \in Server /\ client \in Client
    BY <1>a DEF CoreInv, TypeOK
<1>1. CASE SkipAck
  <2>1. Phases => Phases'
      BY <1>a, <1>1, SkipAckPhase
  <2> QED
      BY <1>a, <1>b, <1>c, <1>1, <2>1 DEF ExchangeInv, PhaseInv, Open, SkipAck
<1>2. CASE LeaveExchange
    BY <1>a, <1>b, <1>d, <1>2, LeaveExchangeCore DEF ExchangeInv, PhaseInv, LeaveExchange
<1>3. CASE Unexpected
  <2>1. client.strayed /\ client' = client
      BY <1>a, <1>3, OrderlyNotUnexpected DEF PhaseInv, Unexpected, Refuse
  <2> QED
      BY <1>a, <1>b, <1>3, <2>1, UnexpectedCore DEF ExchangeInv, PhaseInv, OrderlyNotRefused
<1>4. CASE RefuseGarbled
  <2>1. client.strayed /\ client' = client
      BY <1>a, <1>4, OrderlyNotGarbled DEF PhaseInv, RefuseGarbled, Refuse, Reads, Open
  <2> QED
      BY <1>a, <1>b, <1>4, <2>1, RefuseGarbledCore DEF ExchangeInv, PhaseInv, OrderlyNotRefused
<1>5. ASSUME NEW now \in Times, RefuseRequest(now) PROVE ExchangeInv'
    BY <1>a, <1>b, <1>5, RefuseRequestCore DEF ExchangeInv, PhaseInv, OrderlyNotRefused
<1>6. CASE ReqPq
  <2>1. /\ Open /\ client' = client
        /\ server'.why = server.why /\ server'.refused = server.refused
      BY <1>e, <1>6 DEF ReqPq, Reads, Open, Server
  <2> QED
      BY <1>a, <1>b, <1>d, <1>6, <2>1, ReqPqPhase DEF ExchangeInv, PhaseInv
<1>7. ASSUME NEW now \in Times, AcceptRequest(now) PROVE ExchangeInv'
  <2>1. /\ Open /\ client' = client
        /\ server'.why = server.why /\ server'.refused = server.refused
      BY <1>e, <1>7 DEF AcceptRequest, Reads, Open, Server
  <2> QED
      BY <1>a, <1>b, <1>d, <1>7, <2>1, AcceptRequestPhase DEF ExchangeInv, PhaseInv
<1>8. CASE MakeKey
  <2>1. /\ Open /\ client' = client
        /\ server'.why = server.why /\ server'.refused = server.refused
      BY <1>e, <1>8 DEF MakeKey, Reads, Open, Server
  <2> QED
      BY <1>a, <1>b, <1>d, <1>8, <2>1, MakeKeyPhase DEF ExchangeInv, PhaseInv
<1>9. CASE SendReqPq
  <2>1. Open /\ server' = server /\ client'.strayed = client.strayed
      BY <1>e, <1>9 DEF SendReqPq, Client
  <2> QED
      BY <1>a, <1>b, <1>d, <1>9, <2>1, SendReqPqPhase DEF ExchangeInv, PhaseInv
<1>10. CASE Receive
  <2>1. /\ server' = server /\ client'.strayed = client.strayed /\ (Open' => Open)
      BY <1>e, <1>10 DEF Receive, Ignore, TakeResPq, TakeServerDhParams, TakeDhGenOk, Client, Open
  <2>2. Phases => Phases'
      BY <1>a, <1>10, IgnorePhase, TakeResPqPhase, TakeServerDhParamsPhase, TakeDhGenOkPhase
          DEF Receive
  <2> QED
      BY <1>a, <1>b, <1>d, <2>1, <2>2 DEF ExchangeInv, PhaseInv
<1>11. CASE SendEncrypted
  <2>1. Open /\ UNCHANGED <<server, client>>
      BY <1>11 DEF SendEncrypted
  <2> QED
      BY <1>a, <1>b, <1>c, <1>11, <2>1, SendEncryptedPhase DEF ExchangeInv, PhaseInv
<1>12. CASE Stray
  <2>1. server' = server /\ client'.strayed
      BY <1>a, <1>12, StrayCore DEF Stray
  <2> QED
      BY <1>b, <1>d, <2>1 DEF ExchangeInv, PhaseInv
<1>13. CASE HangUp
    BY <1>a, <1>b, <1>13, HangUpCore DEF ExchangeInv, PhaseInv, OrderlyNotRefused
<1>14. CASE UNCHANGED vars
    BY <1>a, <1>b, <1>c, <1>14
       DEF ExchangeInv, PhaseInv, Open, Phases, PhaseIdle, PhaseResPq, PhaseDhParams, PhaseDhGen,
           OnlySends, Once, Answered, SameExchange, vars
<1> QED
    BY <1>1, <1>2, <1>3, <1>4, <1>5, <1>6, <1>7, <1>8, <1>9, <1>10, <1>11, <1>12, <1>13, <1>14,
       ServeCases DEF Next, Finished

(* A fresh connection satisfies the invariant.                             *)
LEMMA InitInv == Init => ExchangeInv
<1> SUFFICES ASSUME Init PROVE ExchangeInv
    OBVIOUS
<1>1. /\ server.pc = "req_pq" /\ client.pc = "idle" /\ server.nonce = 0 /\ client.nonce = 0
      /\ to_client = <<>> /\ Len(to_server) = 0
    BY DEF Init
<1>2. OnlySends({})
    BY <1>1 DEF OnlySends
<1>3. Phases
    BY <1>1, <1>2 DEF Phases, PhaseIdle, PhaseResPq, PhaseDhParams, PhaseDhGen
<1>4. OrderlyNotRefused
  <2>1. server.why = ""
      BY DEF Init
  <2> QED
      BY <2>1 DEF OrderlyNotRefused
<1> QED
    BY <1>3, <1>4, InitCore DEF ExchangeInv, PhaseInv

(* ExchangeInv is an invariant: until a client strays, every message under *)
(* way is the one that the other side waits for.                           *)
THEOREM Invariance == Spec => []ExchangeInv
BY InitInv, NextInv, PTL DEF Spec

(* The server never refuses a client that follows the protocol, wherever   *)
(* it repeats req_pq and whatever it acknowledges: ServerExchange::Run     *)
(* throws only at messages of a client that strayed, and at lifetimes that *)
(* are not positive or end outside int32.                                  *)
THEOREM OrderlyClientNotRefused == Spec => []OrderlyNotRefused
<1>1. ExchangeInv => OrderlyNotRefused
    BY DEF ExchangeInv
<1> QED
    BY <1>1, Invariance, PTL
=============================================================================
