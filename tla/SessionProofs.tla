--------------------------- MODULE SessionProofs ---------------------------
(***************************************************************************)
(* Proofs about Session, for every number of message ids, whatever the     *)
(* messages are, and for containers and connections of any length.         *)
(***************************************************************************)
EXTENDS Session, SequenceTheorems, TLAPS

(* The loop of HandleEncrypted is inside its frame, and the members hold   *)
(* what that frame brought.  Nothing collected outlives its frame.         *)
LoopInv ==
    /\ pc \in {"dispatch", "write"} =>
        /\ frame \in Frame /\ next \in 1 .. Len(frame.parts) + 1
        /\ session_id = frame.session /\ last_seen = frame.id
    /\ pc \in {"read", "closed"} => replies = <<>>

(* Whatever was dispatched came in a frame no newer than the last, and     *)
(* before the position that comes next.                                    *)
OrderInv ==
    /\ pc # "closed" => \A i \in 1 .. Len(dispatched) : dispatched[i].frame.id <= last_seen
    /\ pc = "dispatch" => \A i \in 1 .. Len(dispatched) :
        \/ dispatched[i].frame.id < frame.id
        \/ dispatched[i].frame = frame /\ dispatched[i].index < next

(* A reply answers the position it was collected for.                      *)
Answering(reply, d) == reply.to = d.frame.parts[d.index] /\ reply.session = d.frame.session

AnswersInv ==
    /\ Len(written) + Len(replies) <= Len(asked)
    /\ pc # "closed" => Len(written) + Len(replies) = Len(asked)
    /\ \A i \in 1 .. Len(written) : Answering(written[i], asked[i])
    /\ \A i \in 1 .. Len(replies) : Answering(replies[i], asked[Len(written) + i])

(* last_seen_msg_id_ is the id of the frame read last.                     *)
GuardInv ==
    /\ pc # "closed" =>
        /\ cause = "none"
        /\ last_seen = IF sent = <<>> THEN 0 ELSE sent[Len(sent)]
    /\ IncreasingNotRejected

SessionInv == TypeOK /\ LoopInv /\ OrderInv /\ NoFrameTwice /\ AnswersInv /\ GuardInv
-----------------------------------------------------------------------------
(* A connection starts with nothing dispatched, asked, collected or sent.  *)
LEMMA FreshInv ==
    ASSUME pc = "read", session_id = 0, last_seen = 0, content_seq = 0,
           frame \in Frame \cup {None}, next \in Nat, replies = <<>>,
           written = <<>>, dispatched = <<>>, asked = <<>>, sent = <<>>, cause = "none"
    PROVE  SessionInv
<1>1. TypeOK
    BY EmptySeq DEF TypeOK
<1>2. LoopInv /\ OrderInv /\ NoFrameTwice /\ AnswersInv /\ GuardInv
    BY DEF LoopInv, OrderInv, NoFrameTwice, AnswersInv, GuardInv, IncreasingNotRejected
<1> QED
    BY <1>1, <1>2 DEF SessionInv

(* A new session has received nothing.                                     *)
LEMMA InitInv == Init => SessionInv
BY FreshInv DEF Init

(* The next connection starts over with a new session.                     *)
LEMMA ReconnectInv == SessionInv /\ Reconnect => SessionInv'
<1> SUFFICES ASSUME SessionInv, Reconnect PROVE SessionInv'
    OBVIOUS
<1>0. TypeOK /\ LoopInv
    BY DEF SessionInv
<1>1. /\ pc' = "read" /\ session_id' = 0 /\ last_seen' = 0 /\ content_seq' = 0
      /\ frame' \in Frame \cup {None} /\ next' \in Nat /\ replies' = <<>>
      /\ written' = <<>> /\ dispatched' = <<>> /\ asked' = <<>> /\ sent' = <<>> /\ cause' = "none"
    BY <1>0 DEF Reconnect, TypeOK, LoopInv
<1>2. TypeOK'
    BY <1>1, EmptySeq DEF TypeOK
<1>3. LoopInv' /\ OrderInv' /\ NoFrameTwice' /\ AnswersInv' /\ GuardInv'
    BY <1>1 DEF LoopInv, OrderInv, NoFrameTwice, AnswersInv, GuardInv, IncreasingNotRejected
<1> QED
    BY <1>2, <1>3 DEF SessionInv

(* A connection is closed with whatever was written so far.                *)
LEMMA CloseInv ==
    ASSUME SessionInv, NEW why \in {"replay", "malformed", "network"}, Close(why),
           session_id' \in SessionIds \cup {0}, last_seen' \in MsgIds \cup {0},
           sent' \in Seq(MsgIds), UNCHANGED <<content_seq, written, dispatched, asked>>,
           why = "replay" => \E i, j \in 1 .. Len(sent') : i < j /\ sent'[i] >= sent'[j]
    PROVE  SessionInv'
<1>a. TypeOK /\ LoopInv /\ NoFrameTwice /\ AnswersInv
    BY DEF SessionInv
<1>b. pc' = "closed" /\ cause' = why /\ frame' = None /\ next' = 0 /\ replies' = <<>>
    BY DEF Close
<1>1. TypeOK'
    BY <1>a, <1>b, EmptySeq DEF TypeOK
<1>2. LoopInv' /\ OrderInv' /\ NoFrameTwice'
    BY <1>a, <1>b DEF LoopInv, OrderInv, NoFrameTwice
<1>3. AnswersInv'
  <2>1. Len(replies) \in Nat /\ Len(written) \in Nat /\ Len(asked) \in Nat /\ Len(replies') = 0
      BY <1>a, <1>b, LenProperties, EmptySeq DEF TypeOK
  <2> QED
      BY <1>a, <1>b, <2>1 DEF AnswersInv, Answering
<1>4. GuardInv'
    BY <1>b DEF GuardInv, IncreasingNotRejected
<1> QED
    BY <1>1, <1>2, <1>3, <1>4 DEF SessionInv
-----------------------------------------------------------------------------
(* What Deliver hands over is a frame.                                     *)
LEMMA DeliveredFrame ==
    ASSUME NEW id \in MsgIds, NEW s \in SessionIds, NEW parts \in Parts(id)
    PROVE  [id |-> id, session |-> s, parts |-> parts] \in Frame
<1>1. parts \in Seq(MsgIds)
  <2>1. CASE Body[id] = "container"
    <3>1. PICK n \in 0 .. MaxParts : parts \in [1 .. n -> {m \in MsgIds : Body[m] # "container"}]
        BY <2>1 DEF Parts, BoundedSeq, SeqOf
    <3>2. n \in Nat /\ parts \in [1 .. n -> MsgIds]
        BY <3>1, SessionConstants
    <3> QED
        BY <3>2, SeqDef
  <2>2. CASE Body[id] # "container"
    <3>1. parts = <<id>>
        BY <2>2 DEF Parts
    <3> QED
        BY <3>1
  <2> QED
      BY <2>1, <2>2
<1> QED
    BY <1>1 DEF Frame

(* A frame beyond the last id is dispatched from its first message on.     *)
LEMMA ReceiveInv ==
    ASSUME SessionInv, NEW f \in Frame, Receive(f)
    PROVE  SessionInv'
<1>a. TypeOK /\ LoopInv /\ OrderInv /\ NoFrameTwice /\ AnswersInv /\ GuardInv
    BY DEF SessionInv
<1>b. /\ pc = "read" /\ pc' = "dispatch" /\ session_id' = f.session
      /\ f.id > last_seen /\ last_seen' = f.id /\ frame' = f /\ next' = 1
      /\ sent' = Append(sent, f.id)
      /\ UNCHANGED <<content_seq, replies, written, dispatched, asked, cause>>
    BY DEF Receive, Adopt, IsFresh
<1>c. /\ f.id \in MsgIds /\ f.session \in SessionIds /\ f.parts \in Seq(MsgIds)
      /\ f.id \in Int /\ last_seen \in Int
    BY <1>a DEF Frame, MsgIds, TypeOK
<1>1. TypeOK'
  <2>1. sent' \in Seq(MsgIds)
      BY <1>a, <1>b, <1>c, AppendProperties DEF TypeOK
  <2> QED
      BY <1>a, <1>b, <1>c, <2>1 DEF TypeOK
<1>2. LoopInv'
  <2>1. Len(f.parts) \in Nat
      BY <1>c, LenProperties
  <2> QED
      BY <1>b, <1>c, <2>1 DEF LoopInv
<1>3. OrderInv'
  <2>1. ASSUME NEW i \in 1 .. Len(dispatched)
        PROVE  dispatched[i].frame.id \in Int /\ dispatched[i].frame.id <= last_seen
    <3>1. dispatched[i] \in Position
        BY <1>a, <2>1, ElementOfSeq DEF TypeOK
    <3> QED
        BY <1>a, <1>b, <2>1, <3>1 DEF Position, Frame, MsgIds, OrderInv
  <2>2. ASSUME NEW i \in 1 .. Len(dispatched) PROVE dispatched[i].frame.id < f.id
      BY <1>b, <1>c, <2>1
  <2> QED
      BY <1>b, <1>c, <2>1, <2>2 DEF OrderInv
<1>4. NoFrameTwice' /\ AnswersInv'
    BY <1>a, <1>b DEF NoFrameTwice, AnswersInv, Answering
<1>5. GuardInv'
  <2>1. sent' # <<>> /\ sent'[Len(sent')] = f.id
      BY <1>a, <1>b, <1>c, AppendProperties DEF TypeOK
  <2>2. cause' = "none"
      BY <1>a, <1>b DEF GuardInv
  <2> QED
      BY <1>b, <2>1, <2>2 DEF GuardInv, IncreasingNotRejected
<1> QED
    BY <1>1, <1>2, <1>3, <1>4, <1>5 DEF SessionInv

(* The guard refuses only a frame that is no newer than the one before.    *)
LEMMA ReceiveStaleInv ==
    ASSUME SessionInv, NEW f \in Frame, ReceiveStale(f)
    PROVE  SessionInv'
<1>a. TypeOK /\ GuardInv
    BY DEF SessionInv
<1>b. /\ pc = "read" /\ session_id' = f.session /\ ~ (f.id > last_seen)
      /\ sent' = Append(sent, f.id) /\ Close("replay")
      /\ UNCHANGED <<last_seen, content_seq, written, dispatched, asked>>
    BY DEF ReceiveStale, Adopt, IsFresh
<1>c. f.id \in MsgIds /\ f.session \in SessionIds /\ f.id \in Nat \ {0} /\ last_seen \in Nat
    BY <1>a, SessionConstants DEF Frame, MsgIds, TypeOK
<1>1. sent # <<>> /\ last_seen = sent[Len(sent)]
    BY <1>a, <1>b, <1>c DEF GuardInv
<1>2. /\ Len(sent) \in Nat \ {0} /\ Len(sent') = Len(sent) + 1 /\ sent' \in Seq(MsgIds)
      /\ sent'[Len(sent)] = last_seen /\ sent'[Len(sent) + 1] = f.id
  <2>1. Len(sent) \in Nat \ {0}
      BY <1>a, <1>1, EmptySeq DEF TypeOK
  <2> QED
      BY <1>a, <1>b, <1>c, <1>1, <2>1, AppendProperties DEF TypeOK
<1>3. \E i, j \in 1 .. Len(sent') : i < j /\ sent'[i] >= sent'[j]
  <2>1. Len(sent) \in 1 .. Len(sent') /\ Len(sent) + 1 \in 1 .. Len(sent')
      BY <1>2
  <2>2. sent'[Len(sent)] >= sent'[Len(sent) + 1]
      BY <1>b, <1>c, <1>2
  <2> QED
      BY <1>2, <2>1, <2>2
<1> QED
    BY <1>a, <1>b, <1>c, <1>2, <1>3, CloseInv DEF TypeOK

(* The other ways to end a connection.                                     *)
LEMMA OtherCloseInv ==
    ASSUME SessionInv,
           \/ \E f \in Frame : ReceiveBadContainer(f)
           \/ ReceiveUndecryptable \/ DispatchMalformed \/ Disconnect
    PROVE  SessionInv'
<1>a. TypeOK
    BY DEF SessionInv
<1>1. ASSUME NEW f \in Frame, ReceiveBadContainer(f) PROVE SessionInv'
  <2>1. f.id \in MsgIds /\ f.session \in SessionIds
      BY DEF Frame
  <2>2. sent' \in Seq(MsgIds)
      BY <1>a, <1>1, <2>1, AppendProperties DEF ReceiveBadContainer, TypeOK
  <2> QED
      BY <1>1, <2>1, <2>2, CloseInv DEF ReceiveBadContainer, Adopt
<1>2. CASE ReceiveUndecryptable \/ DispatchMalformed \/ Disconnect
    BY <1>a, <1>2, CloseInv
    DEF ReceiveUndecryptable, DispatchMalformed, Disconnect, TypeOK, state, history
<1> QED
    BY <1>1, <1>2
-----------------------------------------------------------------------------
(* The position that is dispatched next.                                   *)
Current == [frame |-> frame, index |-> next]

(* Dispatching it is dispatching it after everything before.               *)
LEMMA AdvanceOrder ==
    ASSUME SessionInv, pc = "dispatch", next <= Len(frame.parts), Advance
    PROVE  /\ pc' = "dispatch" /\ LoopInv' /\ OrderInv' /\ NoFrameTwice' /\ GuardInv'
           /\ Current \in Position /\ frame \in Frame /\ next \in 1 .. Len(frame.parts)
           /\ dispatched' \in Seq(Position)
<1>a. TypeOK /\ LoopInv /\ OrderInv /\ NoFrameTwice /\ GuardInv
    BY DEF SessionInv
<1>b. /\ dispatched' = Append(dispatched, Current) /\ next' = next + 1
      /\ UNCHANGED <<pc, session_id, last_seen, frame, written, sent, cause>>
    BY DEF Advance, Current
<1>c. /\ frame \in Frame /\ next \in 1 .. Len(frame.parts) + 1 /\ Len(frame.parts) \in Nat
      /\ session_id = frame.session /\ last_seen = frame.id /\ frame.id \in Int
  <2>1. frame \in Frame
      BY <1>a DEF LoopInv
  <2>2. Len(frame.parts) \in Nat /\ frame.id \in Int
      BY <2>1, LenProperties DEF Frame, MsgIds
  <2> QED
      BY <1>a, <2>1, <2>2 DEF LoopInv
<1>1. Current \in Position /\ Current.frame = frame /\ Current.index = next /\ next \in Nat
    BY <1>c DEF Current, Position
<1>2. LoopInv'
    BY <1>a, <1>b, <1>c DEF LoopInv
<1>3. /\ dispatched' \in Seq(Position) /\ Len(dispatched) \in Nat
      /\ Len(dispatched') = Len(dispatched) + 1
      /\ dispatched'[Len(dispatched) + 1] = Current
      /\ \A i \in 1 .. Len(dispatched) : dispatched'[i] = dispatched[i]
    BY <1>a, <1>b, <1>1, AppendProperties, LenProperties DEF TypeOK
<1>4. ASSUME NEW i \in 1 .. Len(dispatched)
      PROVE  /\ dispatched[i].frame.id \in Int /\ dispatched[i].index \in Nat
             /\ dispatched[i].frame.id <= last_seen
             /\ \/ dispatched[i].frame.id < frame.id
                \/ dispatched[i].frame = frame /\ dispatched[i].index < next
  <2>1. dispatched[i] \in Position
      BY <1>a, <1>4, ElementOfSeq DEF TypeOK
  <2> QED
      BY <1>a, <1>4, <2>1 DEF Position, Frame, MsgIds, OrderInv
<1>5. OrderInv'
  <2>1. ASSUME NEW i \in 1 .. Len(dispatched')
        PROVE  /\ dispatched'[i].frame.id <= last_seen
               /\ \/ dispatched'[i].frame.id < frame.id
                  \/ dispatched'[i].frame = frame /\ dispatched'[i].index < next + 1
    <3>1. CASE i = Len(dispatched) + 1
        BY <1>c, <1>1, <1>3, <3>1
    <3>2. CASE i # Len(dispatched) + 1
      <4>1. i \in 1 .. Len(dispatched)
          BY <1>3, <2>1, <3>2
      <4> QED
          BY <1>1, <1>3, <1>4, <4>1
    <3> QED
        BY <3>1, <3>2
  <2> QED
      BY <1>b, <2>1 DEF OrderInv
<1>6. NoFrameTwice'
  <2> SUFFICES ASSUME NEW i \in 1 .. Len(dispatched'), NEW j \in 1 .. Len(dispatched'), i < j
               PROVE  \/ dispatched'[i].frame.id < dispatched'[j].frame.id
                      \/ /\ dispatched'[i].frame = dispatched'[j].frame
                         /\ dispatched'[i].index < dispatched'[j].index
      BY DEF NoFrameTwice
  <2>1. i \in 1 .. Len(dispatched)
      BY <1>3
  <2>2. CASE j = Len(dispatched) + 1
      BY <1>1, <1>3, <1>4, <2>1, <2>2
  <2>3. CASE j # Len(dispatched) + 1
    <3>1. j \in 1 .. Len(dispatched)
        BY <1>3, <2>3
    <3> QED
        BY <1>a, <1>3, <2>1, <3>1 DEF NoFrameTwice
  <2> QED
      BY <2>2, <2>3
<1>7. GuardInv'
    BY <1>a, <1>b DEF GuardInv, IncreasingNotRejected
<1> QED
    BY <1>b, <1>c, <1>1, <1>2, <1>3, <1>5, <1>6, <1>7

(* An acknowledgement is dispatched and not answered.                      *)
LEMMA DispatchAckInv == SessionInv /\ DispatchAck => SessionInv'
<1> SUFFICES ASSUME SessionInv, DispatchAck PROVE SessionInv'
    OBVIOUS
<1>a. TypeOK /\ AnswersInv
    BY DEF SessionInv
<1>b. /\ pc = "dispatch" /\ next <= Len(frame.parts) /\ Advance /\ next' = next + 1
      /\ UNCHANGED <<replies, content_seq, session_id, last_seen, frame, written, sent, cause, asked>>
    BY DEF DispatchAck, Dispatching, Advance
<1>1. /\ pc' = "dispatch" /\ LoopInv' /\ OrderInv' /\ NoFrameTwice' /\ GuardInv'
      /\ dispatched' \in Seq(Position)
    BY <1>b, AdvanceOrder
<1>2. TypeOK'
    BY <1>a, <1>b, <1>1 DEF TypeOK
<1>3. AnswersInv'
    BY <1>a, <1>b, <1>1 DEF AnswersInv, Answering
<1> QED
    BY <1>1, <1>2, <1>3 DEF SessionInv

(* A message is dispatched: its reply, if any, joins the collected ones.   *)
LEMMA DispatchInv == SessionInv /\ Dispatch => SessionInv'
<1> SUFFICES ASSUME SessionInv, Dispatch PROVE SessionInv'
    OBVIOUS
<1>a. TypeOK /\ LoopInv /\ AnswersInv
    BY DEF SessionInv
<1>b. /\ pc = "dispatch" /\ next <= Len(frame.parts) /\ Advance /\ next' = next + 1
      /\ Body[frame.parts[next]] \in {"ping", "rpc", "unknown", "badwrapper"}
      /\ replies' = Append(replies, Outgoing) /\ content_seq' = content_seq + 1
      /\ asked' = Append(asked, Current)
      /\ UNCHANGED <<session_id, last_seen, frame, written, sent, cause>>
    BY DEF Dispatch, Dispatching, Advance, Current
<1>1. /\ pc' = "dispatch" /\ LoopInv' /\ OrderInv' /\ NoFrameTwice' /\ GuardInv'
      /\ Current \in Position /\ frame \in Frame /\ next \in 1 .. Len(frame.parts)
      /\ dispatched' \in Seq(Position)
    BY <1>b, AdvanceOrder
<1>2. Outgoing \in Reply /\ Answering(Outgoing, Current)
  <2>1. /\ frame.parts[next] \in MsgIds /\ session_id \in SessionIds
        /\ session_id = frame.session
      BY <1>a, <1>b, <1>1, ElementOfSeq DEF LoopInv, Frame
  <2>2. Answer(Body[frame.parts[next]]) \in Answers
      BY <1>b DEF Answer, Answers
  <2>3. NextSeqNo \in Nat
      BY <1>a DEF TypeOK, NextSeqNo
  <2> QED
      BY <2>1, <2>2, <2>3 DEF Outgoing, Reply, Answering, Current, AnsweredId
<1>3. /\ replies' \in Seq(Reply) /\ asked' \in Seq(Position)
      /\ Len(replies) \in Nat /\ Len(asked) \in Nat /\ Len(written) \in Nat
      /\ Len(replies') = Len(replies) + 1 /\ Len(asked') = Len(asked) + 1
      /\ replies'[Len(replies) + 1] = Outgoing /\ asked'[Len(asked) + 1] = Current
      /\ \A i \in 1 .. Len(replies) : replies'[i] = replies[i]
      /\ \A i \in 1 .. Len(asked) : asked'[i] = asked[i]
    BY <1>a, <1>b, <1>1, <1>2, AppendProperties, LenProperties DEF TypeOK
<1>4. TypeOK'
    BY <1>a, <1>b, <1>1, <1>3 DEF TypeOK
<1>5. Len(written) + Len(replies) = Len(asked)
    BY <1>a, <1>b DEF AnswersInv
<1>6. ASSUME NEW i \in 1 .. Len(written) PROVE Answering(written[i], asked'[i])
  <2>1. asked'[i] = asked[i]
      BY <1>3, <1>5
  <2> QED
      BY <1>a, <2>1 DEF AnswersInv
<1>7. ASSUME NEW i \in 1 .. Len(replies')
      PROVE  Answering(replies'[i], asked'[Len(written) + i])
  <2>1. CASE i = Len(replies) + 1
    <3>1. Len(written) + i = Len(asked) + 1
        BY <1>3, <1>5, <2>1
    <3> QED
        BY <1>2, <1>3, <2>1, <3>1
  <2>2. CASE i # Len(replies) + 1
    <3>1. i \in 1 .. Len(replies) /\ Len(written) + i \in 1 .. Len(asked)
        BY <1>3, <1>5, <2>2
    <3> QED
        BY <1>a, <1>3, <3>1 DEF AnswersInv
  <2> QED
      BY <2>1, <2>2
<1>8. AnswersInv'
  <2>1. /\ Len(written) + Len(replies') = Len(asked')
        /\ Len(written) + Len(replies') <= Len(asked')
      BY <1>3, <1>5
  <2>2. written' = written
      BY <1>b
  <2> QED
      BY <1>6, <1>7, <2>1, <2>2 DEF AnswersInv, Answering
<1> QED
    BY <1>1, <1>4, <1>8 DEF SessionInv
-----------------------------------------------------------------------------

(* The collected replies are written in the order of their requests.       *)
LEMMA WriteInv == SessionInv /\ Write => SessionInv'
<1> SUFFICES ASSUME SessionInv, Write PROVE SessionInv'
    OBVIOUS
<1>a. TypeOK /\ LoopInv /\ OrderInv /\ NoFrameTwice /\ AnswersInv /\ GuardInv
    BY DEF SessionInv
<1>b. /\ pc = "write" /\ replies # <<>>
      /\ written' = Append(written, Head(replies)) /\ replies' = Tail(replies)
      /\ UNCHANGED <<pc, session_id, last_seen, content_seq, frame, next, dispatched, asked,
                     sent, cause>>
    BY DEF Write, state
<1>1. /\ Head(replies) \in Reply /\ Head(replies) = replies[1] /\ replies' \in Seq(Reply)
      /\ Len(replies) \in Nat \ {0} /\ Len(replies') = Len(replies) - 1
      /\ \A i \in 1 .. Len(replies') : replies'[i] = replies[i + 1]
    BY <1>a, <1>b, HeadTailProperties, EmptySeq DEF TypeOK
<1>2. /\ written' \in Seq(Reply) /\ Len(written) \in Nat /\ Len(written') = Len(written) + 1
      /\ written'[Len(written) + 1] = replies[1]
      /\ \A i \in 1 .. Len(written) : written'[i] = written[i]
    BY <1>a, <1>b, <1>1, AppendProperties, LenProperties DEF TypeOK
<1>3. TypeOK'
    BY <1>a, <1>b, <1>1, <1>2 DEF TypeOK
<1>4. LoopInv' /\ OrderInv' /\ NoFrameTwice' /\ GuardInv'
    BY <1>a, <1>b DEF LoopInv, OrderInv, NoFrameTwice, GuardInv, IncreasingNotRejected
<1>5. AnswersInv'
  <2>1. Len(written) + Len(replies) = Len(asked) /\ Len(written') + Len(replies') = Len(asked')
      BY <1>a, <1>b, <1>1, <1>2 DEF AnswersInv
  <2>2. ASSUME NEW i \in 1 .. Len(written') PROVE Answering(written'[i], asked[i])
    <3>1. CASE i = Len(written) + 1
      <4>1. Answering(replies[1], asked[Len(written) + 1])
          BY <1>a, <1>1 DEF AnswersInv
      <4> QED
          BY <1>2, <3>1, <4>1
    <3>2. CASE i # Len(written) + 1
      <4>1. i \in 1 .. Len(written)
          BY <1>2, <3>2
      <4> QED
          BY <1>a, <1>2, <4>1 DEF AnswersInv
    <3> QED
        BY <3>1, <3>2
  <2>3. ASSUME NEW i \in 1 .. Len(replies')
        PROVE  Answering(replies'[i], asked[Len(written') + i])
    <3>1. i + 1 \in 1 .. Len(replies) /\ Len(written') + i = Len(written) + (i + 1)
        BY <1>1, <1>2
    <3> QED
        BY <1>a, <1>1, <3>1 DEF AnswersInv
  <2>4. Len(asked) \in Nat /\ Len(written') \in Nat /\ Len(replies') \in Nat
      BY <1>a, <1>1, <1>2, LenProperties DEF TypeOK
  <2> QED
      BY <1>b, <2>1, <2>2, <2>3, <2>4 DEF AnswersInv, Answering
<1> QED
    BY <1>3, <1>4, <1>5 DEF SessionInv

(* The loop turns to the next message or frame.                            *)
LEMMA TurnInv == SessionInv /\ (Dispatched \/ FrameDone) => SessionInv'
<1> SUFFICES ASSUME SessionInv, Dispatched \/ FrameDone PROVE SessionInv'
    OBVIOUS
<1>a. TypeOK /\ LoopInv /\ OrderInv /\ NoFrameTwice /\ AnswersInv /\ GuardInv
    BY DEF SessionInv
<1>b. UNCHANGED <<session_id, last_seen, content_seq, replies, written, dispatched, asked,
                  sent, cause>>
    BY DEF Dispatched, FrameDone, state, history
<1>c. \/ pc = "dispatch" /\ pc' = "write" /\ UNCHANGED <<frame, next>>
      \/ pc = "write" /\ pc' = "read" /\ replies = <<>> /\ frame' = None /\ next' = 0
    BY DEF Dispatched, FrameDone
<1>1. TypeOK'
    BY <1>a, <1>b, <1>c DEF TypeOK
<1>2. LoopInv' /\ OrderInv' /\ NoFrameTwice' /\ GuardInv'
    BY <1>a, <1>b, <1>c DEF LoopInv, OrderInv, NoFrameTwice, GuardInv, IncreasingNotRejected
<1>3. AnswersInv'
    BY <1>a, <1>b, <1>c DEF AnswersInv, Answering
<1> QED
    BY <1>1, <1>2, <1>3 DEF SessionInv

(* Every step keeps the invariant.                                         *)
LEMMA NextInv == SessionInv /\ [Next]_vars => SessionInv'
<1> SUFFICES ASSUME SessionInv, [Next]_vars PROVE SessionInv'
    OBVIOUS
<1>1. CASE HandleEncrypted \/ WriteReplies
    BY <1>1, DispatchInv, DispatchAckInv, OtherCloseInv, TurnInv, WriteInv
       DEF HandleEncrypted, WriteReplies
<1>2. CASE Deliver
  <2>1. PICK f \in Frame : Receive(f) \/ ReceiveStale(f) \/ ReceiveBadContainer(f)
      BY <1>2, DeliveredFrame DEF Deliver
  <2> QED
      BY <2>1, ReceiveInv, ReceiveStaleInv, OtherCloseInv
<1>3. CASE ReceiveUndecryptable \/ Disconnect \/ Reconnect
    BY <1>3, OtherCloseInv, ReconnectInv
<1>4. CASE UNCHANGED vars
  <2>1. TypeOK' /\ LoopInv' /\ OrderInv'
      BY <1>4 DEF vars, SessionInv, TypeOK, LoopInv, OrderInv
  <2>2. NoFrameTwice' /\ AnswersInv' /\ GuardInv'
      BY <1>4 DEF vars, SessionInv, NoFrameTwice, AnswersInv, Answering, GuardInv,
         IncreasingNotRejected
  <2> QED
      BY <2>1, <2>2 DEF SessionInv
<1> QED
    BY <1>1, <1>2, <1>3, <1>4 DEF Next

(* The invariant holds in every reachable state of a connection.           *)
THEOREM Invariance == Spec => []SessionInv
BY InitInv, NextInv, PTL DEF Spec

(* On one connection no message of a frame is dispatched twice, and frames *)
(* are dispatched one after another in the order of their ids.             *)
THEOREM NoFrameDispatchedTwice == Spec => []NoFrameTwice
<1>1. SessionInv => NoFrameTwice
    BY DEF SessionInv
<1> QED
    BY <1>1, Invariance, PTL

(* A client whose frame ids increase is never cut off as a replay.         *)
THEOREM IncreasingFramesAccepted == Spec => []IncreasingNotRejected
<1>1. SessionInv => IncreasingNotRejected
    BY DEF SessionInv, GuardInv
<1> QED
    BY <1>1, Invariance, PTL

(* An answer goes to the session that its own frame named.                 *)
THEOREM AnswersGoToTheirSession == Spec => []AnswersMirrorSession
<1>1. SessionInv => AnswersMirrorSession
    BY DEF SessionInv, AnswersInv, Answering, AnswersMirrorSession
<1> QED
    BY <1>1, Invariance, PTL

(* Every message that calls for an answer gets one, in the order of        *)
(* dispatch and under its own id; a connection that ends cuts the answers  *)
(* off and never mixes them up.                                            *)
THEOREM AnsweredInOrder == Spec => []AnswersInOrder
<1>1. SessionInv => AnswersInOrder
  <2> SUFFICES ASSUME SessionInv PROVE AnswersInOrder
      OBVIOUS
  <2> DEFINE all == written \o replies
  <2>1. /\ Len(written) \in Nat /\ Len(replies) \in Nat /\ Len(asked) \in Nat
        /\ Len(all) = Len(written) + Len(replies)
        /\ \A i \in 1 .. Len(all) :
             all[i] = IF i <= Len(written) THEN written[i] ELSE replies[i - Len(written)]
      BY ConcatProperties, LenProperties DEF SessionInv, TypeOK
  <2>2. ASSUME NEW i \in 1 .. Len(all)
        PROVE  all[i].to = asked[i].frame.parts[asked[i].index]
    <3>1. CASE i <= Len(written)
      <4>1. i \in 1 .. Len(written) /\ all[i] = written[i]
          BY <2>1, <2>2, <3>1
      <4> QED
          BY <4>1 DEF SessionInv, AnswersInv, Answering
    <3>2. CASE ~ (i <= Len(written))
      <4>1. /\ i - Len(written) \in 1 .. Len(replies) /\ all[i] = replies[i - Len(written)]
            /\ Len(written) + (i - Len(written)) = i
          BY <2>1, <2>2, <3>2
      <4>2. Answering(replies[i - Len(written)], asked[Len(written) + (i - Len(written))])
          BY <4>1 DEF SessionInv, AnswersInv
      <4> QED
          BY <4>1, <4>2 DEF Answering
    <3> QED
        BY <3>1, <3>2
  <2>3. IF pc = "closed" THEN Len(all) <= Len(asked) ELSE Len(all) = Len(asked)
      BY <2>1 DEF SessionInv, AnswersInv
  <2> QED
      BY <2>2, <2>3 DEF AnswersInOrder
<1> QED
    BY <1>1, Invariance, PTL
=============================================================================
