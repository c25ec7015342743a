------------------------------ MODULE Session ------------------------------
(***************************************************************************)
(* MtprotoSession: what a connection does with the encrypted frames it      *)
(* reads once it has its auth key.  A frame is one message or a container  *)
(* of messages; each is dispatched in turn, the replies are collected, and *)
(* only when the whole frame was dispatched are they written.  Everything  *)
(* that throws on the way ends the connection.                             *)
(*                                                                         *)
(* The client may repeat a frame, put a message it already sent into a     *)
(* container, change its session_id, and go on over another connection,    *)
(* where a new MtprotoSession knows nothing of the first: connections       *)
(* share no state, so the module has one at a time.                        *)
(***************************************************************************)
EXTENDS Naturals, Sequences, SequencesExt

CONSTANTS
    MaxId,       \* message ids are 1 .. MaxId
    Body,        \* what the message with a given id is
    SessionIds,  \* session ids a client may use
    MaxParts,    \* bound on the messages in one container
    MaxDispatch, \* bound on the messages dispatched on one connection
    None         \* no frame

MsgIds == 1 .. MaxId

(* What DispatchOne tells apart, wrappers already read: a ping of either    *)
(* kind, an ack, a registered method, one that is not (a container inside  *)
(* a container is one), a body whose wrappers cannot be read, and a body   *)
(* whose fields cannot.                                                    *)
Kinds == {"ping", "ack", "rpc", "unknown", "badwrapper", "malformed", "container"}

ASSUME SessionConstants ==
    /\ MaxId \in Nat /\ MaxParts \in Nat /\ MaxDispatch \in Nat
    /\ Body \in [MsgIds -> Kinds]
    /\ 0 \notin SessionIds

(* EncryptedMessageData and the messages in it, by id.                     *)
Frame == [id : MsgIds, session : SessionIds, parts : Seq(MsgIds)]

(* A message of a frame.                                                   *)
Position == [frame : Frame, index : Nat]

Answers == {"pong", "result", "METHOD_NOT_FOUND", "INTERNAL"}

(* An rpc_result or a pong: the message it answers, how, and the session   *)
(* and seq_no it is sent with.                                             *)
Reply == [to : MsgIds, answer : Answers, session : SessionIds, seq_no : Nat]

VARIABLES
    pc,          \* "read", "dispatch", "write" or "closed"
    session_id,  \* session_id_, 0 at first
    last_seen,   \* last_seen_msg_id_
    content_seq, \* content_seq_counter_
    frame,       \* the frame being handled: HandleEncrypted's data and inner
    next,        \* index of its next message
    replies,     \* replies collected, not yet written
    written,     \* history: replies written to the socket
    dispatched,  \* history: the messages dispatched, by frame and index
    asked,       \* history: those of them that call for an answer
    sent,        \* history: ids of the frames read
    cause        \* history: why the connection was closed

vars == <<pc, session_id, last_seen, content_seq, frame, next, replies, written,
          dispatched, asked, sent, cause>>

state == <<session_id, last_seen, content_seq>>

history == <<written, dispatched, asked, sent>>

-----------------------------------------------------------------------------
TypeOK ==
    /\ pc \in {"read", "dispatch", "write", "closed"}
    /\ session_id \in SessionIds \cup {0}
    /\ last_seen \in MsgIds \cup {0}
    /\ content_seq \in Nat
    /\ frame \in Frame \cup {None}
    /\ next \in Nat
    /\ replies \in Seq(Reply)
    /\ written \in Seq(Reply)
    /\ dispatched \in Seq(Position)
    /\ asked \in Seq(Position)
    /\ sent \in Seq(MsgIds)
    /\ cause \in {"none", "replay", "malformed", "network"}

(* MtprotoSession's constructor                                            *)
Init ==
    /\ pc = "read"
    /\ session_id = 0 /\ last_seen = 0 /\ content_seq = 0
    /\ frame = None /\ next = 0 /\ replies = <<>>
    /\ written = <<>> /\ dispatched = <<>> /\ asked = <<>> /\ sent = <<>>
    /\ cause = "none"

-----------------------------------------------------------------------------
(* The exception ends the worker thread and closes the socket; what was     *)
(* collected is never written.                                             *)
Close(why) ==
    /\ pc' = "closed"
    /\ cause' = why
    /\ frame' = None /\ next' = 0 /\ replies' = <<>>

(* A message on its own, or the messages of a container.                   *)
Parts(id) ==
    IF Body[id] = "container"
    THEN BoundedSeq({m \in MsgIds : Body[m] # "container"}, MaxParts)
    ELSE {<<id>>}

(* A mutation: the session keeps the id of its first frame.                *)
Adopt_FirstOnly(f) == session_id' = IF session_id = 0 THEN f.session ELSE session_id

(* The session id is the client's to set, with every frame.                *)
Adopt(f) == session_id' = f.session

(* A mutation: the guard accepts the id it saw last once more.             *)
IsFresh_OrEqual(f) == f.id >= last_seen

(* A mutation: the messages of a container must be newer than the last     *)
(* frame too.                                                              *)
IsFresh_Inner(f) == f.id > last_seen /\ \A i \in 1 .. Len(f.parts) : f.parts[i] > last_seen

(* The guard looks at the id of the whole frame, not of its messages.      *)
IsFresh(f) == f.id > last_seen

(* HandleEncrypted up to its loop.                                         *)
Receive(f) ==
    /\ pc = "read"
    /\ Len(dispatched) + Len(f.parts) <= MaxDispatch
    /\ Adopt(f)
    /\ IsFresh(f)
    /\ last_seen' = f.id
    /\ pc' = "dispatch"
    /\ frame' = f /\ next' = 1
    /\ sent' = Append(sent, f.id)
    /\ UNCHANGED <<content_seq, replies, written, dispatched, asked, cause>>

(* "msg_id is not strictly increasing (possible replay)"                   *)
ReceiveStale(f) ==
    /\ pc = "read"
    /\ Adopt(f)
    /\ ~IsFresh(f)
    /\ sent' = Append(sent, f.id)
    /\ Close("replay")
    /\ UNCHANGED <<last_seen, content_seq, written, dispatched, asked>>

(* DecryptMessage throws: another key, or a msg_key, length or padding     *)
(* that is not right.                                                      *)
ReceiveUndecryptable ==
    /\ pc = "read"
    /\ Close("malformed")
    /\ UNCHANGED <<state, history>>

(* A container that cannot be read has passed the guard.                   *)
ReceiveBadContainer(f) ==
    /\ pc = "read"
    /\ Body[f.id] = "container"
    /\ Adopt(f)
    /\ IsFresh(f)
    /\ last_seen' = f.id
    /\ sent' = Append(sent, f.id)
    /\ Close("malformed")
    /\ UNCHANGED <<content_seq, written, dispatched, asked>>

-----------------------------------------------------------------------------
(* DispatchOne, for each message in turn.                                  *)

Dispatching(kinds) ==
    /\ pc = "dispatch"
    /\ next <= Len(frame.parts)
    /\ Body[frame.parts[next]] \in kinds

Answer(kind) ==
    CASE kind = "ping"       -> "pong"
      [] kind = "rpc"        -> "result"
      [] kind = "unknown"    -> "METHOD_NOT_FOUND"
      [] kind = "badwrapper" -> "INTERNAL"

(* With content_related = true, as every reply is sent.                    *)
NextSeqNo == 2 * content_seq + 1

(* A mutation: every reply names the frame, not the message in it.         *)
AnsweredId_Frame == frame.id

(* The id in rpc_result.req_msg_id and pong.msg_id.                        *)
AnsweredId == frame.parts[next]

(* EncryptOutgoing                                                         *)
Outgoing ==
    [to |-> AnsweredId, answer |-> Answer(Body[frame.parts[next]]),
     session |-> session_id, seq_no |-> NextSeqNo]

(* The loop goes on with the next message.  Only an ack calls for no       *)
(* answer.                                                                 *)
Advance ==
    /\ dispatched' = Append(dispatched, [frame |-> frame, index |-> next])
    /\ asked' = IF Body[frame.parts[next]] = "ack" THEN asked
                ELSE Append(asked, [frame |-> frame, index |-> next])
    /\ next' = next + 1
    /\ UNCHANGED <<pc, session_id, last_seen, frame, written, sent, cause>>

(* Everything but an ack is answered, an unreadable wrapper and an unknown *)
(* method with an error.                                                   *)
Dispatch ==
    /\ Dispatching({"ping", "rpc", "unknown", "badwrapper"})
    /\ replies' = Append(replies, Outgoing)
    /\ content_seq' = content_seq + 1
    /\ Advance


DispatchAck ==
    /\ Dispatching({"ack"})
    /\ Advance
    /\ UNCHANGED <<replies, content_seq>>

(* A ping or a handler cannot read its fields: it throws, and the replies   *)
(* to the messages before it are lost although those messages ran.         *)
DispatchMalformed ==
    /\ Dispatching({"malformed"})
    /\ Close("malformed")
    /\ UNCHANGED <<state, history>>

(* HandleEncrypted returns the replies.                                    *)
Dispatched ==
    /\ pc = "dispatch" /\ next > Len(frame.parts)
    /\ pc' = "write"
    /\ UNCHANGED <<state, frame, next, replies, history, cause>>

-----------------------------------------------------------------------------
(* handle_frame's loop over the replies, each one codec->Write.            *)
Write ==
    /\ pc = "write" /\ replies # <<>>
    /\ written' = Append(written, Head(replies))
    /\ replies' = Tail(replies)
    /\ UNCHANGED <<pc, state, frame, next, dispatched, asked, sent, cause>>

FrameDone ==
    /\ pc = "write" /\ replies = <<>>
    /\ pc' = "read"
    /\ frame' = None /\ next' = 0
    /\ UNCHANGED <<state, replies, history, cause>>

(* The peer is gone: the read, or the write that is under way, throws.     *)
Disconnect ==
    /\ pc \in {"read", "write"}
    /\ Close("network")
    /\ UNCHANGED <<state, history>>

(* The client's next connection: a new MtprotoSession.                     *)
Reconnect ==
    /\ pc = "closed"
    /\ pc' = "read"
    /\ session_id' = 0 /\ last_seen' = 0 /\ content_seq' = 0
    /\ written' = <<>> /\ dispatched' = <<>> /\ asked' = <<>> /\ sent' = <<>>
    /\ cause' = "none"
    /\ UNCHANGED <<frame, next, replies>>

-----------------------------------------------------------------------------
(* HandleEncrypted, which waits for no peer, and the writes after it,      *)
(* which do.                                                               *)
HandleEncrypted == Dispatch \/ DispatchAck \/ DispatchMalformed \/ Dispatched

WriteReplies == Write \/ FrameDone

Deliver ==
    \E id \in MsgIds, s \in SessionIds : \E parts \in Parts(id) :
        LET f == [id |-> id, session |-> s, parts |-> parts] IN
        Receive(f) \/ ReceiveStale(f) \/ ReceiveBadContainer(f)

Next == HandleEncrypted \/ WriteReplies \/ Deliver \/ ReceiveUndecryptable \/ Disconnect \/ Reconnect

(* A handler returns (of those with a webhook, Login's HandlersReturn says *)
(* so).  Nobody owes a frame, and no write need end: accepted sockets have *)
(* no send timeout, so a peer that stops reading keeps its worker in send. *)
Spec == Init /\ [][Next]_vars /\ WF_vars(HandleEncrypted)

-----------------------------------------------------------------------------
(* Properties.                                                             *)

(* Every message that calls for an answer gets one, in the order of        *)
(* dispatch and under its own id, whichever container it came in, and an   *)
(* unknown method too ("instead of silently dropping the request").  The    *)
(* answers of a connection that ends are cut off somewhere, never mixed up. *)
AnswersInOrder ==
    LET all == written \o replies IN
    /\ IF pc = "closed" THEN Len(all) <= Len(asked) ELSE Len(all) = Len(asked)
    /\ \A i \in 1 .. Len(all) : all[i].to = asked[i].frame.parts[asked[i].index]

(* "The server just mirrors whatever [session_id] it used": an answer goes *)
(* to the session its own frame named, when a connection serves several.   *)
AnswersMirrorSession ==
    \A i \in 1 .. Len(written) : written[i].session = asked[i].frame.session

(* "Basic monotonic replay guard": on one connection no position of a      *)
(* frame is dispatched twice, and frames are dispatched one after another  *)
(* in the order of their ids.                                              *)
NoFrameTwice ==
    \A i, j \in 1 .. Len(dispatched) :
        LET d == dispatched[i]
            e == dispatched[j]
        IN i < j => \/ d.frame.id < e.frame.id
                    \/ d.frame = e.frame /\ d.index < e.index

(* The guard rejects only what it should: a client whose frame ids increase *)
(* is never cut off as a replay, even if a newer frame carries messages    *)
(* again that are older than the last one.                                 *)
IncreasingNotRejected ==
    cause = "replay" => \E i, j \in 1 .. Len(sent) : i < j /\ sent[i] >= sent[j]

=============================================================================
