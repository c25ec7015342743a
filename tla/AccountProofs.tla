--------------------------- MODULE AccountProofs ---------------------------
(***************************************************************************)
(* Proofs about Account, for any number of connection threads, users,      *)
(* usernames and field contents.                                           *)
(***************************************************************************)
EXTENDS Account, TLAPS

Running(w, op) == call[w] # None /\ call[w].op = op

(* The handlers of the session's user know that user, and only             *)
(* updateUsername has a name to look for.                                  *)
Caller(c) ==
    /\ c.pc \in {"authz", "self", "available", "write"} \cup InTransaction
       => c.op \in {"profile", "username"}
    /\ c.op \in {"profile", "username"} => c.user \in Users
    /\ c.pc \in {"available", "claim", "update"} => c.op = "username"
    /\ c.pc = "claim" => c.name # None

CallerInv == \A w \in Workers : call[w] # None => Caller(call[w])

(* A transaction is open only while a store call runs.  A store call that  *)
(* has not overlapped another is alone in its transaction; the user of one *)
(* that has is in `mixed`.                                                 *)
SessionInv ==
    /\ using = {} => tx = None
    /\ \A w \in using : call[w] # None /\ call[w].pc # "lock"
    /\ \A w \in using \ sharing : using = {w} /\ tx # None
    /\ \A w \in sharing : call[w].user \in Users => call[w].user \in mixed
    /\ \A w \in Workers : call[w] # None /\ call[w].pc \in InTransaction => w \in using

(* The tables agree on the user u.                                         *)
Agree(t, u) == \A n \in Usernames : t.username[u] = n <=> t.peer_usernames[n] = u

(* In t the user u has the name n in peer_usernames, and no other.         *)
Holds(t, u, n) == \A m \in Usernames : t.peer_usernames[m] = u <=> m = n

(* The tables s and t say the same of the user u.                          *)
SameFor(s, t, u) ==
    /\ t.profile[u] = s.profile[u] /\ t.username[u] = s.username[u]
    /\ \A n \in Usernames : t.peer_usernames[n] = u <=> s.peer_usernames[n] = u

(* How far the statements of the store call c have brought the             *)
(* transaction t, which began with the tables s.                           *)
Half(s, c, t) ==
    IF c.op = "profile"
    THEN t.profile[c.user] = Merged(c) /\ Agree(t, c.user)
    ELSE /\ t.profile[c.user] = s.profile[c.user]
         /\ c.pc = "claim" => Holds(t, c.user, None)
         /\ c.pc = "update" => Holds(t, c.user, c.name)
         /\ c.pc = "commit" => Agree(t, c.user)

(* The open transaction has changed only rows of users whose store call    *)
(* has executed a statement, and of those as far as the call has come.     *)
TxInv ==
    /\ tx # None => \A u \in Users \ mixed :
        \/ SameFor(db, tx, u)
        \/ \E w \in using : call[w].user = u /\ call[w].pc \in InTransaction
    /\ \A w \in using \ sharing :
        call[w].pc \in InTransaction /\ call[w].user \notin mixed => Half(db, call[w], tx)

(* What an updateProfile call has read is the row that it will overwrite.  *)
Fresh(c, row, but) ==
    c.op = "profile" /\ c.pc \in {"write", "commit"} =>
        c.self \in Profile /\ (c.user \notin but => c.self = row[c.user])

(* Unless two updateProfile calls of a user overlap, there is one, and it  *)
(* has read the row as it is.                                              *)
AloneInv ==
    /\ \A v, w \in Workers :
        /\ Running(v, "profile") /\ Running(w, "profile") /\ v # w
        /\ call[v].user = call[w].user
        => call[w].user \in clashed \cup mixed
    /\ \A w \in Workers : call[w] # None => Fresh(call[w], db.profile, clashed \cup mixed)

AccountInv ==
    /\ TypeOK /\ CallerInv /\ SessionInv /\ TxInv /\ AloneInv
    /\ UsernamesAgree /\ PartialUpdateAlone
-----------------------------------------------------------------------------
(* What a step does to the handler of w.                                   *)

(* The handler of w ends, or goes on as c, and no other one is touched.    *)
Ends(w) == call' \in [Workers -> Call \cup {None}] /\ call'[w] = None
              /\ \A v \in Workers \ {w} : call'[v] = call[v]

Becomes(w, c) == call' \in [Workers -> Call \cup {None}] /\ call'[w] = c
              /\ \A v \in Workers \ {w} : call'[v] = call[v]

(* The histories only grow.                                                *)
Grown == clashed \subseteq clashed' /\ clashed' \subseteq Users /\ mixed \subseteq mixed' /\ mixed' \subseteq Users

(* A step commits nothing of a user outside `mixed` that matters.          *)
Kept == \A u \in Users \ mixed : db'.profile[u] = db.profile[u] /\ Agree(db', u)

(* A handler that returns gives back db_mutex and leaves no call.          *)
LEMMA FinishEnds ==
    ASSUME TypeOK, NEW w \in Workers, Finish(w)
    PROVE  Ends(w) /\ db_mutex' \in Workers \cup {None}
BY DEF TypeOK, Finish, Ends

(* A handler that goes on is the only one whose call changes.              *)
LEMMA ContinueBecomes ==
    ASSUME TypeOK, NEW w \in Workers, NEW c \in Call, Continue(w, c)
    PROVE  Becomes(w, c) /\ db_mutex' \in Workers \cup {None}
BY DEF TypeOK, Continue, Becomes

(* A running handler is a call.                                            *)
LEMMA CallType ==
    ASSUME TypeOK, NEW w \in Workers, call[w] # None
    PROVE  call[w] \in Call
BY DEF TypeOK

(* The session sees tables.                                                *)
LEMMA SessionType ==
    ASSUME TypeOK
    PROVE  session \in Tables
BY DEF TypeOK, session

(* The same rows agree alike.                                              *)
LEMMA SameAgree ==
    ASSUME NEW s, NEW t, NEW u, SameFor(s, t, u), Agree(s, u)
    PROVE  Agree(t, u)
BY DEF SameFor, Agree

(* Sameness is transitive.                                                 *)
LEMMA SameTransitive ==
    ASSUME NEW s, NEW t, NEW r, NEW u, SameFor(s, t, u), SameFor(t, r, u)
    PROVE  SameFor(s, r, u)
BY DEF SameFor

(* UsernamesAgree says that the committed tables agree.                    *)
LEMMA AgreeDef == UsernamesAgree <=> \A u \in Users \ mixed : Agree(db, u)
BY DEF UsernamesAgree, Agree

(* A step that leaves the committed tables alone keeps them.               *)
LEMMA UnchangedKept ==
    ASSUME AccountInv, UNCHANGED db
    PROVE  Kept
BY AgreeDef DEF AccountInv, Kept, Agree

(* The same rows are kept rows.                                            *)
LEMMA SameKept ==
    ASSUME AccountInv, \A u \in Users \ mixed : SameFor(db, db', u)
    PROVE  Kept
<1> SUFFICES ASSUME NEW u \in Users \ mixed PROVE db'.profile[u] = db.profile[u] /\ Agree(db', u)
    BY DEF Kept
<1>1. SameFor(db, db', u) /\ Agree(db, u)
    BY AgreeDef DEF AccountInv
<1> QED
    BY <1>1 DEF SameFor, Agree

(* Kept rows keep the two properties.                                      *)
LEMMA KeptProperties ==
    ASSUME AccountInv, Kept, Grown, UNCHANGED wanted
    PROVE  UsernamesAgree' /\ PartialUpdateAlone'
<1>1. UsernamesAgree'
    BY DEF Kept, Grown, UsernamesAgree, Agree
<1>2. PartialUpdateAlone'
    BY DEF AccountInv, Kept, Grown, PartialUpdateAlone
<1> QED
    BY <1>1, <1>2

(* A handler ends while the rows are kept.                                 *)
LEMMA EndsHandlers ==
    ASSUME AccountInv, NEW w \in Workers, Ends(w), Kept, Grown
    PROVE  CallerInv' /\ AloneInv'
<1>1. CallerInv'
    BY DEF AccountInv, CallerInv, Ends
<1>2. ASSUME NEW u \in Workers, NEW v \in Workers, Running(u, "profile")',
             Running(v, "profile")', u # v, call'[u].user = call'[v].user
      PROVE  call'[v].user \in clashed' \cup mixed'
    BY <1>2 DEF AccountInv, AloneInv, Running, Ends, Grown
<1>3. ASSUME NEW v \in Workers, call'[v] # None
      PROVE  Fresh(call'[v], db'.profile, clashed' \cup mixed')
  <2>1. call'[v] = call[v] /\ call[v] # None
      BY <1>3 DEF Ends
  <2>2. Fresh(call[v], db.profile, clashed \cup mixed) /\ Caller(call[v])
      BY <2>1 DEF AccountInv, AloneInv, CallerInv
  <2> QED
      BY <2>1, <2>2 DEF Fresh, Caller, Kept, Grown
<1> QED
    BY <1>1, <1>2, <1>3 DEF AloneInv

(* A handler goes on, for the same user or for one that the shared         *)
(* connection made up, while the rows are kept.                            *)
LEMMA BecomesHandlers ==
    ASSUME AccountInv, NEW w \in Workers, NEW c \in Call, call[w] # None, Becomes(w, c), Caller(c),
           c.op = call[w].op, c.user = call[w].user \/ c.user \in mixed',
           Fresh(c, db'.profile, clashed' \cup mixed'), Kept, Grown
    PROVE  CallerInv' /\ AloneInv'
<1>0. c # None
    BY NoneIsNoCall
<1>1. CallerInv'
    BY DEF AccountInv, CallerInv, Becomes
<1>2. ASSUME NEW u \in Workers, NEW v \in Workers, Running(u, "profile")',
             Running(v, "profile")', u # v, call'[u].user = call'[v].user
      PROVE  call'[v].user \in clashed' \cup mixed'
    BY <1>2, <1>0 DEF AccountInv, AloneInv, Running, Becomes, Grown
<1>3. ASSUME NEW v \in Workers, call'[v] # None
      PROVE  Fresh(call'[v], db'.profile, clashed' \cup mixed')
  <2>1. CASE v = w
      BY <2>1 DEF Becomes
  <2>2. CASE v # w
    <3>1. call'[v] = call[v] /\ call[v] # None
        BY <1>3, <2>2 DEF Becomes
    <3>2. Fresh(call[v], db.profile, clashed \cup mixed) /\ Caller(call[v])
        BY <3>1 DEF AccountInv, AloneInv, CallerInv
    <3> QED
        BY <3>1, <3>2 DEF Fresh, Caller, Kept, Grown
  <2> QED
      BY <2>1, <2>2
<1> QED
    BY <1>1, <1>2, <1>3 DEF AloneInv
-----------------------------------------------------------------------------
(* What a step does to the session.                                        *)

(* A store call ends: whoever is left in the connection has shared it.     *)
LEMMA EndTransactionInv ==
    ASSUME AccountInv, NEW w \in Workers, EndTransaction(w), mixed \subseteq mixed',
           \A v \in Workers \ {w} : call'[v] = call[v],
           call'[w] # None => call'[w].pc \notin InTransaction
    PROVE  /\ SessionInv' /\ TxInv'
           /\ tx' = None /\ using' \subseteq Workers /\ sharing' \subseteq using'
<1>1. /\ w \in using /\ using' = using \ {w} /\ sharing' = sharing \ {w} /\ tx' = None
      /\ using \subseteq Workers /\ sharing \subseteq using
    BY DEF EndTransaction, AccountInv, TypeOK
<1>2. using' \subseteq sharing
    BY <1>1 DEF AccountInv, SessionInv
<1>3. SessionInv'
    BY <1>1, <1>2 DEF AccountInv, SessionInv
<1>4. TxInv'
    BY <1>1, <1>2 DEF TxInv
<1> QED
    BY <1>1, <1>3, <1>4

(* Unless w is alone and has executed a statement, the open transaction    *)
(* has the rows of users outside `mixed` as they are committed.            *)
LEMMA SessionSame ==
    ASSUME AccountInv, NEW w \in using, NEW u \in Users \ mixed,
           w \in sharing \/ call[w].user # u \/ call[w].pc \notin InTransaction
    PROVE  SameFor(db, session, u)
<1>1. CASE tx = None
    BY <1>1 DEF session, SameFor
<1>2. CASE tx # None
  <2>1. \A v \in using : v \notin sharing => v = w
      BY DEF AccountInv, SessionInv
  <2>2. \A v \in sharing : call[v].user # u
      BY DEF AccountInv, SessionInv
  <2> QED
      BY <1>2, <2>1, <2>2 DEF AccountInv, TxInv, session
<1> QED
    BY <1>1, <1>2

(* COMMIT of a store call that only reads keeps the rows of users outside  *)
(* `mixed`.                                                                *)
LEMMA ReadCommit ==
    ASSUME AccountInv, NEW w \in Workers, NEW pc, pc \notin InTransaction, Commit(w, pc)
    PROVE  /\ Kept /\ db' \in Tables /\ EndTransaction(w) /\ w \in using
           /\ call[w] # None /\ call[w].pc = pc
<1>1. /\ w \in using /\ EndTransaction(w) /\ call[w] # None /\ call[w].pc = pc
      /\ db' = session \/ db' = db
    BY DEF Commit, EndTransaction, At
<1>2. db' \in Tables
    BY <1>1, SessionType DEF AccountInv, TypeOK
<1>3. \A u \in Users \ mixed : SameFor(db, session, u)
    BY <1>1, SessionSame
<1>4. \A u \in Users \ mixed : SameFor(db, db', u)
    BY <1>1, <1>3 DEF SameFor
<1> QED
    BY <1>1, <1>2, <1>4, SameKept

(* A statement of w keeps what the tables say of other users; what it says *)
(* of its own is as far as the call has come.                              *)
LEMMA ExecuteInv ==
    ASSUME AccountInv, NEW w \in Workers, NEW c \in Call, NEW t \in Tables, NEW pc,
           Execute(w, pc, t), Becomes(w, c), c.user = call[w].user, c.op = call[w].op,
           c.user \in Users, c.pc \in InTransaction, UNCHANGED <<mixed, clashed, wanted, db_mutex>>,
           Caller(c), Fresh(c, db.profile, clashed \cup mixed),
           \A u \in Users \ {c.user} : SameFor(session, t, u),
           w \notin sharing /\ c.user \notin mixed => Half(db, c, t)
    PROVE  AccountInv'
<1>1. /\ w \in using /\ using' = using /\ sharing' = sharing /\ call[w] # None
      /\ (tx # None /\ tx' = t /\ db' = db) \/ (tx = None /\ db' = t /\ tx' = tx)
      /\ using \subseteq Workers /\ sharing \subseteq using
    BY DEF Execute, At, AccountInv, TypeOK
<1>2. c # None /\ t # None
    BY NoneIsNoCall
<1>3. TypeOK'
    BY <1>1 DEF AccountInv, TypeOK, Becomes
<1>4. tx = None => w \in sharing
    BY <1>1 DEF AccountInv, SessionInv
<1>5. SessionInv'
    BY <1>1, <1>2 DEF AccountInv, SessionInv, Becomes, InTransaction
<1>6. ASSUME NEW u \in Users \ mixed, u # c.user
      PROVE  SameFor(db, t, u)
  <2>1. SameFor(db, session, u)
      BY <1>1, <1>6, SessionSame
  <2> QED
      BY <1>6, <2>1, SameTransitive
<1>7. w \in sharing => c.user \in mixed
    BY DEF AccountInv, SessionInv
<1>8. ASSUME tx' # None, NEW u \in Users \ mixed
      PROVE  SameFor(db', tx', u) \/ \E v \in using : call'[v].user = u /\ call'[v].pc \in InTransaction
  <2>1. tx' = t /\ db' = db
      BY <1>1, <1>8
  <2>2. CASE u = c.user
      BY <1>1, <2>2 DEF Becomes
  <2>3. CASE u # c.user
      BY <1>6, <2>1, <2>3
  <2> QED
      BY <2>2, <2>3
<1>9. ASSUME NEW v \in using \ sharing, call'[v].pc \in InTransaction, call'[v].user \notin mixed
      PROVE  Half(db', call'[v], tx')
  <2>1. v = w /\ tx # None
      BY <1>1, <1>9 DEF AccountInv, SessionInv
  <2>2. call'[v] = c /\ tx' = t /\ db' = db
      BY <1>1, <2>1 DEF Becomes
  <2> QED
      BY <1>9, <2>1, <2>2
<1>10. TxInv'
    BY <1>1, <1>8, <1>9 DEF TxInv
<1>11. Kept
  <2>1. CASE tx # None
      BY <1>1, <2>1, UnchangedKept
  <2>2. CASE tx = None
    <3>1. \A u \in Users \ mixed : SameFor(db, db', u)
        BY <1>1, <1>4, <1>6, <1>7, <2>2
    <3> QED
        BY <3>1, SameKept
  <2> QED
      BY <2>1, <2>2
<1>12. Grown
    BY DEF Grown, AccountInv, TypeOK
<1>13. Fresh(c, db'.profile, clashed' \cup mixed')
    BY <1>11 DEF Fresh, Kept
<1>14. CallerInv' /\ AloneInv'
    BY <1>1, <1>11, <1>12, <1>13, BecomesHandlers
<1>15. UsernamesAgree' /\ PartialUpdateAlone'
    BY <1>11, <1>12, KeptProperties
<1> QED
    BY <1>3, <1>5, <1>10, <1>14, <1>15 DEF AccountInv

(* A store call ends and its handler with it.                              *)
LEMMA EndHandler ==
    ASSUME AccountInv, NEW w \in Workers, EndTransaction(w), Finish(w), db' \in Tables, Kept,
           UNCHANGED wanted, Grown
    PROVE  AccountInv'
<1>1. Ends(w) /\ db_mutex' \in Workers \cup {None}
    BY FinishEnds DEF AccountInv
<1>2. SessionInv' /\ TxInv' /\ tx' = None /\ using' \subseteq Workers /\ sharing' \subseteq using'
    BY <1>1, EndTransactionInv DEF Ends, Grown
<1>3. CallerInv' /\ AloneInv'
    BY <1>1, EndsHandlers
<1>4. UsernamesAgree' /\ PartialUpdateAlone'
    BY KeptProperties
<1>5. TypeOK'
    BY <1>1, <1>2 DEF AccountInv, TypeOK, Ends, Grown
<1> QED
    BY <1>2, <1>3, <1>4, <1>5 DEF AccountInv

(* A store call ends and its handler goes on to the next.                  *)
LEMMA EndStoreCall ==
    ASSUME AccountInv, NEW w \in Workers, NEW c \in Call, EndTransaction(w), Becomes(w, c),
           call[w] # None, db_mutex' \in Workers \cup {None}, db' \in Tables, Kept, Caller(c),
           c.op = call[w].op, c.user = call[w].user \/ c.user \in mixed',
           c.pc \notin InTransaction, Fresh(c, db'.profile, clashed' \cup mixed'),
           UNCHANGED wanted, Grown
    PROVE  AccountInv'
<1>1. SessionInv' /\ TxInv' /\ tx' = None /\ using' \subseteq Workers /\ sharing' \subseteq using'
    BY EndTransactionInv DEF Becomes, Grown
<1>2. CallerInv' /\ AloneInv'
    BY BecomesHandlers
<1>3. UsernamesAgree' /\ PartialUpdateAlone'
    BY KeptProperties
<1>4. TypeOK'
    BY <1>1 DEF AccountInv, TypeOK, Becomes, Grown
<1> QED
    BY <1>1, <1>2, <1>3, <1>4 DEF AccountInv
-----------------------------------------------------------------------------
(* The requests.                                                           *)

(* A handler begins.                                                       *)
LEMMA NewCallType ==
    ASSUME NEW op \in {"profile", "username", "reads", "locked"}, NEW pc \in Pcs,
           NEW u \in Users \cup {None}, NEW update \in [Fields -> Values \cup {None}],
           NEW n \in Usernames \cup {None}
    PROVE  /\ NewCall(op, pc, u, update, n) \in Call /\ NewCall(op, pc, u, update, n).op = op
           /\ NewCall(op, pc, u, update, n).pc = pc /\ NewCall(op, pc, u, update, n).user = u
BY DEF NewCall, Call

(* A request that sets nothing is a request.                               *)
LEMMA NoUpdateType == NoUpdate \in [Fields -> Values \cup {None}]
BY DEF NoUpdate

(* A request enters with nothing read yet; an updateProfile that overlaps  *)
(* another of the same user marks that user as clashed.                    *)
LEMMA RequestKeepsInv ==
    ASSUME AccountInv, NEW w \in Workers, NEW c \in Call, Request(w, c),
           c.pc \in {"lock", "read", "authz"}, Caller(c),
           clashed' = IF c.op = "profile" /\ \E v \in Workers : Running(v, "profile") /\ call[v].user = c.user
                      THEN clashed \cup {c.user} ELSE clashed
    PROVE  AccountInv'
<1>0. /\ c # None /\ call[w] = None /\ Becomes(w, c)
      /\ UNCHANGED <<db, tx, db_mutex, using, sharing, wanted, mixed>>
    BY NoneIsNoCall DEF Request, Becomes, AccountInv, TypeOK
<1>1. Grown
    BY <1>0 DEF AccountInv, TypeOK, Caller, Grown
<1>2. TypeOK'
    BY <1>0, <1>1 DEF AccountInv, TypeOK, Becomes, Grown
<1>3. CallerInv'
    BY <1>0 DEF AccountInv, CallerInv, Becomes
<1>4. w \notin using /\ using \subseteq Workers /\ sharing \subseteq using
    BY <1>0 DEF AccountInv, SessionInv, TypeOK
<1>5. SessionInv'
    BY <1>0, <1>4 DEF AccountInv, SessionInv, Becomes, InTransaction
<1>6. \A v \in using : call'[v] = call[v]
    BY <1>0, <1>4 DEF Becomes
<1>7. TxInv'
  <2>1. ASSUME tx # None, NEW u \in Users \ mixed
        PROVE  SameFor(db, tx, u) \/ \E v \in using : call'[v].user = u /\ call'[v].pc \in InTransaction
      BY <1>6, <2>1 DEF AccountInv, TxInv
  <2>2. ASSUME NEW v \in using \ sharing, call'[v].pc \in InTransaction, call'[v].user \notin mixed
        PROVE  Half(db, call'[v], tx)
      BY <1>6, <2>2 DEF AccountInv, TxInv
  <2> QED
      BY <1>0, <2>1, <2>2 DEF TxInv
<1>8. AloneInv'
  <2>1. ASSUME NEW u \in Workers, NEW v \in Workers, Running(u, "profile")',
               Running(v, "profile")', u # v, call'[u].user = call'[v].user
        PROVE  call'[v].user \in clashed' \cup mixed'
    <3>1. CASE u # w /\ v # w
        BY <1>0, <1>1, <2>1, <3>1 DEF AccountInv, AloneInv, Running, Becomes, Grown
    <3>2. CASE u = w
        BY <1>0, <2>1, <3>2 DEF Running, Becomes
    <3>3. CASE v = w
        BY <1>0, <2>1, <3>3 DEF Running, Becomes
    <3> QED
        BY <3>1, <3>2, <3>3
  <2>2. ASSUME NEW v \in Workers, call'[v] # None
        PROVE  Fresh(call'[v], db'.profile, clashed' \cup mixed')
    <3>1. CASE v = w
        BY <1>0, <3>1 DEF Fresh, Becomes
    <3>2. CASE v # w
        BY <1>0, <1>1, <2>2, <3>2 DEF AccountInv, AloneInv, Fresh, Becomes, Grown
    <3> QED
        BY <3>1, <3>2
  <2> QED
      BY <2>1, <2>2 DEF AloneInv
<1>9. UsernamesAgree' /\ PartialUpdateAlone'
    BY <1>0, <1>1, UnchangedKept, KeptProperties
<1> QED
    BY <1>2, <1>3, <1>5, <1>7, <1>8, <1>9 DEF AccountInv

(* A request of any of the handlers arrives.                               *)
LEMMA ArriveInv ==
    ASSUME AccountInv, NEW w \in Workers, Arrive(w)
    PROVE  AccountInv'
<1>a. "lock" \in Pcs /\ "read" \in Pcs /\ "authz" \in Pcs
    BY DEF Pcs
<1>1. CASE LockedRequest(w)
  <2>1. PICK c : c = NewCall("locked", "lock", None, NoUpdate, None)
      OBVIOUS
  <2>2. c \in Call /\ c.op = "locked" /\ c.pc = "lock"
      BY <1>a, <2>1, NewCallType, NoUpdateType
  <2>3. Caller(c)
      BY <2>2 DEF Caller, InTransaction
  <2> QED
      BY <1>1, <2>1, <2>2, <2>3, RequestKeepsInv DEF LockedRequest
<1>2. CASE ReadsRequest(w)
  <2>1. PICK c : c = NewCall("reads", "read", None, NoUpdate, None)
      OBVIOUS
  <2>2. c \in Call /\ c.op = "reads" /\ c.pc = "read"
      BY <1>a, <2>1, NewCallType, NoUpdateType
  <2>3. Caller(c)
      BY <2>2 DEF Caller, InTransaction
  <2> QED
      BY <1>2, <2>1, <2>2, <2>3, RequestKeepsInv DEF ReadsRequest
<1>3. ASSUME NEW u \in Users, NEW update \in [Fields -> Values \cup {None}],
             UpdateProfileRequest(w, u, update)
      PROVE  AccountInv'
  <2>1. PICK c : c = NewCall("profile", "authz", u, update, None)
      OBVIOUS
  <2>2. c \in Call /\ c.op = "profile" /\ c.pc = "authz" /\ c.user = u
      BY <1>a, <2>1, NewCallType
  <2>3. /\ Request(w, c)
        /\ clashed' = IF \E v \in Workers : Running(v, "profile") /\ call[v].user = c.user
                      THEN clashed \cup {c.user} ELSE clashed
      BY <1>3, <2>1, <2>2 DEF UpdateProfileRequest, Running
  <2>4. Caller(c)
      BY <2>2 DEF Caller
  <2> QED
      BY <2>2, <2>3, <2>4, RequestKeepsInv
<1>4. ASSUME NEW u \in Users, NEW n \in Usernames \cup {None}, UpdateUsernameRequest(w, u, n)
      PROVE  AccountInv'
  <2>1. PICK c : c = NewCall("username", "authz", u, NoUpdate, n)
      OBVIOUS
  <2>2. c \in Call /\ c.op = "username" /\ c.pc = "authz" /\ c.user = u
      BY <1>a, <2>1, NewCallType, NoUpdateType
  <2>3. Caller(c)
      BY <2>2 DEF Caller
  <2> QED
      BY <1>4, <2>1, <2>2, <2>3, RequestKeepsInv DEF UpdateUsernameRequest
<1> QED
    BY UpdatesAssumption, <1>1, <1>2, <1>3, <1>4 DEF Arrive
-----------------------------------------------------------------------------
(* The steps of a handler.                                                 *)

(* A store call takes the connection: alone, with a transaction of its     *)
(* own, or together with others, whose users are from then on in `mixed`.  *)
LEMMA BeginInv ==
    ASSUME AccountInv, NEW w \in Workers, Begin(w)
    PROVE  AccountInv'
<1>1. /\ UNCHANGED <<db, db_mutex, call, wanted, clashed>>
      /\ using' = using \cup {w} /\ tx' = session
      /\ sharing' = IF using = {} THEN {} ELSE using'
      /\ mixed' = mixed \cup {u \in Users : \E v \in sharing' : call[v].user = u}
      /\ w \notin using /\ call[w] # None
    BY DEF Begin
<1>2. session \in Tables /\ session # None
    BY SessionType, NoneIsNoCall DEF AccountInv
<1>3. Grown
    BY <1>1 DEF Grown, AccountInv, TypeOK
<1>4. TypeOK'
    BY <1>1, <1>2, <1>3 DEF AccountInv, TypeOK, Grown
<1>5. CallerInv'
    BY <1>1 DEF AccountInv, CallerInv
<1>6. SessionInv'
  <2>1. \A v \in using' : call'[v] # None /\ call'[v].pc # "lock"
      BY <1>1 DEF Begin, AccountInv, SessionInv
  <2>2. \A v \in using' \ sharing' : using' = {v} /\ tx' # None
      BY <1>1, <1>2
  <2>3. \A v \in sharing' : call'[v].user \in Users => call'[v].user \in mixed'
      BY <1>1
  <2>4. \A v \in Workers : call'[v] # None /\ call'[v].pc \in InTransaction => v \in using'
      BY <1>1 DEF AccountInv, SessionInv
  <2> QED
      BY <1>1, <2>1, <2>2, <2>3, <2>4 DEF SessionInv
<1>7. TxInv'
  <2>1. call[w].pc \notin InTransaction
      BY <1>1 DEF AccountInv, SessionInv
  <2>2. ASSUME NEW v \in using' \ sharing' PROVE call'[v].pc \notin InTransaction
      BY <1>1, <2>1, <2>2
  <2>3. ASSUME NEW u \in Users \ mixed' PROVE SameFor(db, session, u)
    <3>1. CASE tx = None
        BY <3>1 DEF session, SameFor
    <3>2. CASE tx # None
      <4>1. using # {} /\ sharing' = using'
          BY <1>1, <3>2 DEF AccountInv, SessionInv
      <4>2. \A v \in using : call[v].user # u
          BY <1>1, <2>3, <4>1
      <4> QED
          BY <1>1, <2>3, <3>2, <4>2 DEF AccountInv, TxInv, session
    <3> QED
        BY <3>1, <3>2
  <2> QED
      BY <1>1, <2>2, <2>3 DEF TxInv
<1>8. AloneInv'
    BY <1>1, <1>3 DEF AccountInv, AloneInv, Running, Fresh, Grown
<1>9. UsernamesAgree' /\ PartialUpdateAlone'
    BY <1>1, <1>3, UnchangedKept, KeptProperties
<1> QED
    BY <1>4, <1>5, <1>6, <1>7, <1>8, <1>9 DEF AccountInv

(* A handler outside the connection changes: the session does not notice.  *)
LEMMA OutsideInv ==
    ASSUME AccountInv, NEW w \in Workers, w \notin using,
           \A v \in Workers \ {w} : call'[v] = call[v],
           call'[w] # None => call'[w].pc \notin InTransaction,
           UNCHANGED <<db, tx, using, sharing, mixed>>
    PROVE  SessionInv' /\ TxInv'
<1>1. using \subseteq Workers /\ sharing \subseteq using
    BY DEF AccountInv, TypeOK
<1>2. \A v \in using : call'[v] = call[v]
    BY <1>1
<1>3. SessionInv'
    BY <1>1, <1>2 DEF AccountInv, SessionInv
<1>4. TxInv'
  <2>1. ASSUME tx # None, NEW u \in Users \ mixed
        PROVE  SameFor(db, tx, u) \/ \E v \in using : call'[v].user = u /\ call'[v].pc \in InTransaction
      BY <1>2, <2>1 DEF AccountInv, TxInv
  <2>2. ASSUME NEW v \in using \ sharing, call'[v].pc \in InTransaction, call'[v].user \notin mixed
        PROVE  Half(db, call'[v], tx)
      BY <1>2, <2>2 DEF AccountInv, TxInv
  <2> QED
      BY <2>1, <2>2 DEF TxInv
<1> QED
    BY <1>3, <1>4

(* The histories of a step that leaves them alone.                         *)
LEMMA HistoryGrown ==
    ASSUME TypeOK, UNCHANGED <<clashed, mixed>>
    PROVE  Grown
BY DEF Grown, TypeOK

(* pqxx refuses a second transaction: the handler ends.                    *)
LEMMA InterferedInv ==
    ASSUME AccountInv, NEW w \in Workers, Interfered(w)
    PROVE  AccountInv'
<1>1. /\ UNCHANGED <<db, tx, using, sharing, wanted, clashed, mixed>> /\ w \notin using
      /\ Ends(w) /\ db_mutex' \in Workers \cup {None}
    BY FinishEnds DEF Interfered, history, AccountInv
<1>2. Grown /\ Kept
    BY <1>1, HistoryGrown, UnchangedKept DEF AccountInv
<1>3. SessionInv' /\ TxInv'
    BY <1>1, OutsideInv DEF Ends
<1>4. CallerInv' /\ AloneInv' /\ UsernamesAgree' /\ PartialUpdateAlone'
    BY <1>1, <1>2, EndsHandlers, KeptProperties
<1>5. TypeOK'
    BY <1>1 DEF AccountInv, TypeOK, Ends
<1> QED
    BY <1>3, <1>4, <1>5 DEF AccountInv

(* A store call that fails rolls back: nothing is committed.               *)
LEMMA RollbackInv ==
    ASSUME AccountInv, NEW w \in Workers, Rollback(w)
    PROVE  AccountInv'
<1>1. EndTransaction(w) /\ Finish(w) /\ UNCHANGED <<db, wanted, clashed, mixed>>
    BY DEF Rollback, history
<1>2. Grown /\ Kept /\ db' \in Tables
    BY <1>1, HistoryGrown, UnchangedKept DEF AccountInv, TypeOK
<1> QED
    BY <1>1, <1>2, EndHandler

(* Taking db_mutex touches no row.                                         *)
LEMMA LockInv ==
    ASSUME AccountInv, NEW w \in Workers, Lock(w)
    PROVE  AccountInv'
<1>a. TypeOK /\ call[w] # None /\ call[w] \in Call /\ call[w].pc = "lock" /\ Caller(call[w])
    BY CallType DEF AccountInv, Lock, At, CallerInv
<1>b. PICK old \in Call : old = call[w]
    BY <1>a
<1>c. PICK c : c = [old EXCEPT !.pc = "locked"]
    OBVIOUS
<1>d. c \in Call /\ c.op = old.op /\ c.user = old.user /\ c.pc = "locked"
    BY <1>c DEF Call, Pcs
<1>e. call' = [call EXCEPT ![w] = c]
    BY <1>b, <1>c DEF Lock
<1>f. Becomes(w, c)
    BY <1>a, <1>d, <1>e DEF Becomes, TypeOK
<1>1. UNCHANGED <<db, tx, using, sharing, wanted, clashed, mixed>> /\ db_mutex' = w
      /\ w \notin using
    BY <1>a DEF Lock, history, AccountInv, SessionInv
<1>2. Grown /\ Kept
    BY <1>a, <1>1, HistoryGrown, UnchangedKept
<1>3. SessionInv' /\ TxInv'
    BY <1>1, <1>d, <1>f, OutsideInv DEF Becomes, InTransaction
<1>4. Caller(c) /\ Fresh(c, db'.profile, clashed' \cup mixed')
    BY <1>a, <1>b, <1>d DEF Caller, Fresh, InTransaction
<1>5. CallerInv' /\ AloneInv' /\ UsernamesAgree' /\ PartialUpdateAlone'
    BY <1>1, <1>2, <1>4, <1>a, <1>b, <1>d, <1>f, BecomesHandlers, KeptProperties
<1>6. TypeOK'
    BY <1>a, <1>1, <1>f DEF TypeOK, Becomes
<1> QED
    BY <1>3, <1>5, <1>6 DEF AccountInv

(* The handlers that are modelled only as users of the connection write no *)
(* row.                                                                    *)
LEMMA ReadsInv ==
    ASSUME AccountInv, NEW w \in Workers, LockedCall(w) \/ ReadCall(w)
    PROVE  AccountInv'
<1>a. TypeOK
    BY DEF AccountInv
<1>b. PICK pc \in {"locked", "read"} : Commit(w, pc)
    BY DEF LockedCall, ReadCall
<1>c. /\ Kept /\ db' \in Tables /\ EndTransaction(w) /\ call[w] # None /\ call[w].pc = pc
      /\ call[w] \in Call
    BY <1>a, <1>b, ReadCommit, CallType DEF InTransaction
<1>d. UNCHANGED <<wanted, clashed, mixed>> /\ (Finish(w) \/ UNCHANGED <<call, db_mutex>>)
    BY DEF LockedCall, ReadCall, history
<1>e. Grown
    BY <1>a, <1>d, HistoryGrown
<1>1. CASE Finish(w)
    BY <1>c, <1>d, <1>e, <1>1, EndHandler
<1>2. CASE UNCHANGED <<call, db_mutex>>
  <2>1. PICK c \in Call : c = call[w]
      BY <1>c
  <2>2. Becomes(w, c) /\ db_mutex' \in Workers \cup {None}
      BY <1>a, <1>2, <2>1 DEF Becomes, TypeOK
  <2>3. Caller(c) /\ c.pc \notin InTransaction /\ Fresh(c, db'.profile, clashed' \cup mixed')
      BY <1>c, <2>1 DEF AccountInv, CallerInv, Fresh, InTransaction
  <2> QED
      BY <1>c, <1>d, <1>e, <2>1, <2>2, <2>3, EndStoreCall
<1> QED
    BY <1>d, <1>1, <1>2

(* The caller is resolved, or the request is refused.  On a shared         *)
(* connection the caller may be taken for another user, who is from then   *)
(* on in `mixed`.                                                          *)
LEMMA ResolveCurrentUserInv ==
    ASSUME AccountInv, NEW w \in Workers, ResolveCurrentUser(w)
    PROVE  AccountInv'
<1>a. TypeOK
    BY DEF AccountInv
<1>b. /\ Kept /\ db' \in Tables /\ EndTransaction(w) /\ call[w] # None /\ call[w].pc = "authz"
      /\ UNCHANGED <<wanted, clashed>>
    BY ReadCommit DEF InTransaction, ResolveCurrentUser
<1>c. PICK old \in Call : old = call[w]
    BY <1>a, <1>b, CallType
<1>d. old.op \in {"profile", "username"} /\ old.user \in Users
    BY <1>b, <1>c DEF AccountInv, CallerInv, Caller
<1>1. CASE Finish(w) /\ UNCHANGED mixed
    BY <1>a, <1>b, <1>1, HistoryGrown, EndHandler
<1>2. ASSUME NEW u \in Returned(w, [v \in Users |-> v], call[w].user),
             Continue(w, [call[w] EXCEPT !.pc = "self", !.user = u]),
             mixed' = IF w \in sharing THEN mixed \cup {u} ELSE mixed
      PROVE  AccountInv'
  <2>1. u \in Users /\ (u = old.user \/ u \in mixed')
      BY <1>2, <1>c, <1>d DEF Returned
  <2>2. PICK c : c = [old EXCEPT !.pc = "self", !.user = u]
      OBVIOUS
  <2>3. c \in Call /\ c.op = old.op /\ c.user = u /\ c.pc = "self"
      BY <2>1, <2>2 DEF Call, Pcs
  <2>4. Continue(w, c)
      BY <1>2, <1>c, <2>2
  <2>5. Grown
      BY <1>a, <1>b, <1>2, <2>1 DEF Grown, TypeOK
  <2>6. Caller(c) /\ c.pc \notin InTransaction /\ Fresh(c, db'.profile, clashed' \cup mixed')
      BY <1>d, <2>1, <2>3 DEF Caller, Fresh, InTransaction
  <2> QED
      BY <1>a, <1>b, <1>c, <2>1, <2>3, <2>4, <2>5, <2>6, ContinueBecomes, EndStoreCall
<1> QED
    BY <1>1, <1>2 DEF ResolveCurrentUser

(* updateProfile reads the row it will merge into: while its user has not  *)
(* clashed, the row keeps what it read.                                    *)
LEMMA ProfileSelfInv ==
    ASSUME AccountInv, NEW w \in Workers, ProfileSelf(w)
    PROVE  AccountInv'
<1>a. TypeOK
    BY DEF AccountInv
<1>b. /\ Kept /\ db' \in Tables /\ EndTransaction(w) /\ call[w] # None /\ call[w].pc = "self"
      /\ UNCHANGED <<wanted, clashed, mixed>> /\ w \in using
    BY ReadCommit DEF InTransaction, ProfileSelf, history
<1>c. PICK old \in Call : old = call[w]
    BY <1>a, <1>b, CallType
<1>d. old.op = "profile" /\ old.user \in Users
    BY <1>b, <1>c DEF ProfileSelf, AccountInv, CallerInv, Caller
<1>e. Grown
    BY <1>a, <1>b, HistoryGrown
<1>f. session.profile \in [Users -> Profile]
    BY <1>a, SessionType DEF Tables
<1>g. PICK self \in Returned(w, session.profile, old.user) :
        Continue(w, [old EXCEPT !.pc = "write", !.self = self]) \/ Finish(w)
    BY <1>c DEF ProfileSelf
<1>h. self \in Profile
    BY <1>d, <1>f DEF Returned
<1>i. old.user \notin mixed => self = db'.profile[old.user]
  <2>1. old.user \notin mixed => w \notin sharing
      BY <1>c, <1>d DEF AccountInv, SessionInv
  <2>2. w \notin sharing => self = session.profile[old.user]
      BY <1>g DEF Returned
  <2>3. old.user \notin mixed => SameFor(db, session, old.user)
      BY <1>b, <1>c, <1>d, SessionSame DEF InTransaction
  <2> QED
      BY <1>b, <1>d, <2>1, <2>2, <2>3 DEF SameFor, Kept
<1>1. CASE Finish(w)
    BY <1>b, <1>e, <1>1, EndHandler
<1>2. CASE Continue(w, [old EXCEPT !.pc = "write", !.self = self])
  <2>1. PICK c : c = [old EXCEPT !.pc = "write", !.self = self]
      OBVIOUS
  <2>2. c \in Call /\ c.op = old.op /\ c.user = old.user /\ c.self = self /\ c.pc = "write"
      BY <1>h, <2>1 DEF Call, Pcs
  <2>3. Continue(w, c)
      BY <1>2, <2>1
  <2>4. Fresh(c, db'.profile, clashed' \cup mixed')
      BY <1>b, <1>h, <1>i, <2>2 DEF Fresh
  <2>5. Caller(c) /\ c.pc \notin InTransaction
      BY <1>d, <2>2 DEF Caller, InTransaction
  <2> QED
      BY <1>a, <1>b, <1>c, <1>e, <2>2, <2>3, <2>4, <2>5, ContinueBecomes, EndStoreCall
<1> QED
    BY <1>g, <1>1, <1>2

(* updateUsername reads its own row and then looks for the name's owner;   *)
(* the invariant claims nothing of either, since the write checks again.   *)
LEMMA UsernameReadsInv ==
    ASSUME AccountInv, NEW w \in Workers, UsernameSelf(w) \/ UsernameAvailable(w)
    PROVE  AccountInv'
<1>a. TypeOK
    BY DEF AccountInv
<1>b. /\ Kept /\ db' \in Tables /\ EndTransaction(w) /\ call[w] # None
      /\ call[w].pc \in {"self", "available"}
      /\ UNCHANGED <<wanted, clashed, mixed>>
    BY ReadCommit DEF InTransaction, UsernameSelf, UsernameAvailable, history
<1>c. PICK old \in Call : old = call[w]
    BY <1>a, <1>b, CallType
<1>d. old.op = "username" /\ old.user \in Users
  <2>1. Caller(old)
      BY <1>b, <1>c DEF AccountInv, CallerInv
  <2>2. old.op = "username"
      BY <1>c, <2>1 DEF UsernameSelf, UsernameAvailable, Commit, At, Caller
  <2> QED
      BY <2>1, <2>2 DEF Caller
<1>e. Grown
    BY <1>a, <1>b, HistoryGrown
<1>1. CASE Finish(w)
    BY <1>b, <1>e, <1>1, EndHandler
<1>2. ASSUME NEW held \in Usernames \cup {None}, NEW pc \in {"available", "write"},
             Continue(w, [old EXCEPT !.held = held, !.pc = pc])
      PROVE  AccountInv'
  <2>1. PICK c : c = [old EXCEPT !.held = held, !.pc = pc]
      OBVIOUS
  <2>2. c \in Call /\ c.op = old.op /\ c.user = old.user /\ c.pc = pc
      BY <2>1 DEF Call, Pcs
  <2>3. Continue(w, c)
      BY <1>2, <2>1
  <2>4. Caller(c) /\ c.pc \notin InTransaction /\ Fresh(c, db'.profile, clashed' \cup mixed')
      BY <1>d, <2>2 DEF Caller, Fresh, InTransaction
  <2> QED
      BY <1>a, <1>b, <1>c, <1>e, <2>2, <2>3, <2>4, ContinueBecomes, EndStoreCall
<1>3. CASE UsernameSelf(w)
  <2>1. session.username \in [Users -> Usernames \cup {None}]
      BY <1>a, SessionType DEF Tables
  <2>2. PICK held \in Returned(w, session.username, old.user) :
          \/ Finish(w)
          \/ Continue(w, [[old EXCEPT !.held = held] EXCEPT !.pc = "available"])
          \/ Continue(w, [[old EXCEPT !.held = held] EXCEPT !.pc = "write"])
      BY <1>3, <1>c DEF UsernameSelf
  <2>3. held \in Usernames \cup {None}
      BY <1>d, <2>1 DEF Returned
  <2>4. \A pc : [[old EXCEPT !.held = held] EXCEPT !.pc = pc] = [old EXCEPT !.held = held, !.pc = pc]
      OBVIOUS
  <2> QED
      BY <1>1, <1>2, <2>2, <2>3, <2>4
<1>4. CASE UsernameAvailable(w)
  <2>1. PICK held \in Usernames \cup {None} : held = old.held
      BY DEF Call
  <2>2. Finish(w) \/ Continue(w, [old EXCEPT !.pc = "write"])
      BY <1>4, <1>c DEF UsernameAvailable
  <2>3. [old EXCEPT !.pc = "write"] = [old EXCEPT !.held = held, !.pc = "write"]
      BY <2>1 DEF Call
  <2> QED
      BY <1>1, <1>2, <2>2, <2>3
<1> QED
    BY <1>3, <1>4
-----------------------------------------------------------------------------
(* The statements that write.                                              *)

(* What a store call that has not executed a statement finds: the          *)
(* committed rows of its user, which agree.                                *)
LEMMA FirstStatement ==
    ASSUME AccountInv, NEW w \in using, NEW u \in Users, call[w].user = u, u \notin mixed,
           call[w].pc \notin InTransaction
    PROVE  SameFor(db, session, u) /\ Agree(session, u)
<1>1. SameFor(db, session, u)
    BY SessionSame
<1>2. Agree(db, u)
    BY AgreeDef DEF AccountInv
<1> QED
    BY <1>1, <1>2, SameAgree

(* UserStore::UpdateProfile, the statement: the row in the transaction     *)
(* becomes the merged one.                                                 *)
LEMMA ProfileWriteInv ==
    ASSUME AccountInv, NEW w \in Workers, ProfileWrite(w)
    PROVE  AccountInv'
<1>a. TypeOK
    BY DEF AccountInv
<1>b. /\ w \in using /\ call[w] # None /\ call[w].op = "profile" /\ call[w].pc = "write"
      /\ UNCHANGED <<wanted, clashed, mixed>>
    BY DEF ProfileWrite, Execute, At, history
<1>c. PICK old \in Call : old = call[w]
    BY <1>a, <1>b, CallType
<1>d. old.user \in Users /\ Caller(old) /\ Fresh(old, db.profile, clashed \cup mixed)
    BY <1>b, <1>c DEF AccountInv, CallerInv, Caller, AloneInv
<1>e. PICK u \in Users : u = old.user
    BY <1>d
<1>f. PICK row \in Profile : row = Merged(old)
  <2>1. old.self \in [Fields -> Values] /\ old.update \in [Fields -> Values \cup {None}]
      BY <1>b, <1>c, <1>d DEF Fresh, Profile, Call
  <2> QED
      BY <2>1 DEF Merged, Profile
<1>g. PICK s \in Tables : s = session
    BY <1>a, SessionType
<1>h. PICK t : t = [s EXCEPT !.profile[u] = row]
    OBVIOUS
<1>i. /\ t \in Tables /\ t.profile = [s.profile EXCEPT ![u] = row] /\ t.username = s.username
      /\ t.peer_usernames = s.peer_usernames
    BY <1>h DEF Tables
<1>j. Execute(w, "write", t)
    BY <1>c, <1>e, <1>f, <1>g, <1>h DEF ProfileWrite
<1>k. PICK c : c = [old EXCEPT !.pc = "commit"]
    OBVIOUS
<1>l. /\ c \in Call /\ c.op = old.op /\ c.user = u /\ c.pc = "commit"
      /\ c.self = old.self /\ c.update = old.update
    BY <1>e, <1>k DEF Call, Pcs, InTransaction
<1>m. Becomes(w, c) /\ UNCHANGED db_mutex
    BY <1>a, <1>c, <1>k, <1>l, ContinueBecomes DEF ProfileWrite, Continue
<1>1. \A x \in Users \ {u} : SameFor(session, t, x)
    BY <1>g, <1>i DEF SameFor, Tables
<1>2. u \notin mixed => Half(db, c, t)
  <2> SUFFICES ASSUME u \notin mixed PROVE Half(db, c, t)
      OBVIOUS
  <2>1. Agree(s, u)
      BY <1>b, <1>c, <1>e, <1>g, FirstStatement DEF InTransaction
  <2>2. Agree(t, u)
      BY <1>i, <2>1 DEF Agree
  <2>3. t.profile[u] = row /\ Merged(c) = row
      BY <1>f, <1>i, <1>l DEF Tables, Merged
  <2> QED
      BY <1>b, <1>c, <1>l, <2>2, <2>3 DEF Half
<1>3. Caller(c) /\ c.pc \in InTransaction /\ Fresh(c, db.profile, clashed \cup mixed)
    BY <1>b, <1>c, <1>d, <1>e, <1>l DEF Caller, Fresh, InTransaction
<1> QED
    BY <1>b, <1>c, <1>e, <1>i, <1>j, <1>l, <1>m, <1>1, <1>2, <1>3, ExecuteInv

(* Its COMMIT: what is committed is what was wanted.                       *)
LEMMA ProfileCommitInv ==
    ASSUME AccountInv, NEW w \in Workers, ProfileCommit(w)
    PROVE  AccountInv'
<1>a. TypeOK
    BY DEF AccountInv
<1>b. /\ w \in using /\ EndTransaction(w) /\ Finish(w) /\ UNCHANGED <<clashed, mixed>>
      /\ call[w] # None /\ call[w].op = "profile" /\ call[w].pc = "commit"
      /\ db' = session \/ (w \in sharing /\ db' = db)
    BY DEF ProfileCommit, Commit, EndTransaction, At
<1>c. PICK c \in Call : c = call[w]
    BY <1>a, <1>b, CallType
<1>d. PICK u \in Users : u = c.user
    BY <1>b, <1>c DEF AccountInv, CallerInv, Caller
<1>e. c.self \in Profile /\ (u \notin clashed \cup mixed => c.self = db.profile[u])
    BY <1>b, <1>c, <1>d DEF AccountInv, AloneInv, Fresh
<1>f. PICK update \in [Fields -> Values \cup {None}] : update = c.update
    BY DEF Call
<1>g. PICK self \in [Fields -> Values] : self = c.self
    BY <1>e DEF Profile
<1>h. PICK want \in [Fields -> Values] : want = wanted[u]
    BY <1>a DEF TypeOK, Profile
<1> DEFINE row == [f \in Fields |-> IF update[f] = None THEN self[f] ELSE update[f]]
           goal == [f \in Fields |-> IF update[f] = None THEN want[f] ELSE update[f]]
<1>i. row \in Profile /\ goal \in Profile /\ row = Merged(c)
    BY <1>f, <1>g DEF Profile, Merged
<1>j. wanted' = [wanted EXCEPT ![u] = goal]
    BY <1>c, <1>d, <1>f, <1>h DEF ProfileCommit
<1>k. u \notin clashed \cup mixed => row = goal
  <2>1. u \notin clashed \cup mixed => self = want
      BY <1>e, <1>g, <1>h DEF AccountInv, PartialUpdateAlone
  <2> QED
      BY <2>1
<1> HIDE DEF row, goal
<1>l. Ends(w) /\ db_mutex' \in Workers \cup {None}
    BY <1>a, <1>b, FinishEnds
<1>m. SessionInv' /\ TxInv' /\ tx' = None /\ using' \subseteq Workers /\ sharing' \subseteq using'
    BY <1>b, <1>l, EndTransactionInv DEF Ends
<1>n. db' \in Tables
    BY <1>a, <1>b, SessionType DEF TypeOK
<1>o. ASSUME NEW x \in Users \ mixed, x # u
      PROVE  db'.profile[x] = db.profile[x] /\ Agree(db', x)
  <2>1. SameFor(db, session, x)
      BY <1>b, <1>c, <1>d, <1>o, SessionSame
  <2>2. SameFor(db, db', x) /\ Agree(db, x)
      BY <1>b, <2>1, AgreeDef DEF SameFor, AccountInv
  <2> QED
      BY <2>2, SameAgree DEF SameFor
<1>p. u \notin mixed => db'.profile[u] = row /\ Agree(db', u)
  <2> SUFFICES ASSUME u \notin mixed PROVE db'.profile[u] = row /\ Agree(db', u)
      OBVIOUS
  <2>1. w \notin sharing
      BY <1>c, <1>d DEF AccountInv, SessionInv
  <2>2. tx # None /\ Half(db, c, tx)
      BY <1>b, <1>c, <1>d, <2>1 DEF AccountInv, SessionInv, TxInv, InTransaction
  <2>3. db' = tx
      BY <1>b, <2>1, <2>2 DEF session
  <2>4. tx.profile[u] = row /\ Agree(tx, u)
      BY <1>b, <1>c, <1>d, <1>i, <2>2 DEF Half
  <2> QED
      BY <2>3, <2>4
<1>1. TypeOK'
    BY <1>a, <1>b, <1>i, <1>j, <1>l, <1>m, <1>n DEF TypeOK, Ends
<1>2. CallerInv'
    BY <1>l DEF AccountInv, CallerInv, Ends
<1>3. AloneInv'
  <2>1. ASSUME NEW x \in Workers, NEW v \in Workers, Running(x, "profile")',
               Running(v, "profile")', x # v, call'[x].user = call'[v].user
        PROVE  call'[v].user \in clashed' \cup mixed'
      BY <1>b, <1>l, <2>1 DEF AccountInv, AloneInv, Running, Ends
  <2>2. ASSUME NEW v \in Workers, call'[v] # None
        PROVE  Fresh(call'[v], db'.profile, clashed' \cup mixed')
    <3>1. v # w /\ call'[v] = call[v] /\ call[v] # None
        BY <1>l, <2>2 DEF Ends
    <3>2. call[v].op = "profile" /\ call[v].user = u => u \in clashed \cup mixed
        BY <1>b, <1>c, <1>d, <3>1 DEF AccountInv, AloneInv, Running
    <3>3. Fresh(call[v], db.profile, clashed \cup mixed) /\ Caller(call[v])
        BY <3>1 DEF AccountInv, AloneInv, CallerInv
    <3>4. call[v].op = "profile" => call[v].user \in Users
        BY <3>3 DEF Caller
    <3> QED
        BY <1>b, <1>o, <3>1, <3>2, <3>3, <3>4 DEF Fresh
  <2> QED
      BY <2>1, <2>2 DEF AloneInv
<1>4. UsernamesAgree'
    BY <1>b, <1>o, <1>p DEF UsernamesAgree, Agree
<1>5. PartialUpdateAlone'
  <2> SUFFICES ASSUME NEW x \in Users \ (clashed \cup mixed) PROVE db'.profile[x] = wanted'[x]
      BY <1>b DEF PartialUpdateAlone
  <2>1. CASE x = u
      BY <1>a, <1>j, <1>k, <1>p, <2>1 DEF TypeOK
  <2>2. CASE x # u
      BY <1>a, <1>j, <1>o, <2>2 DEF TypeOK, AccountInv, PartialUpdateAlone
  <2> QED
      BY <2>1, <2>2
<1> QED
    BY <1>m, <1>1, <1>2, <1>3, <1>4, <1>5 DEF AccountInv

(* What the statements of UserStore::UpdateUsername have in common: the     *)
(* call goes on to pc, for the same user and name.                         *)
LEMMA UsernameStatement ==
    ASSUME AccountInv, NEW w \in Workers, call[w] # None, call[w].op = "username", w \in using,
           NEW pc \in InTransaction, pc = "claim" => call[w].name # None
    PROVE  \E c \in Call, u \in Users :
             /\ c = [call[w] EXCEPT !.pc = pc] /\ c.pc = pc /\ c.op = "username"
             /\ c.user = u /\ call[w].user = u /\ c.name = call[w].name
             /\ Caller(c) /\ Fresh(c, db.profile, clashed \cup mixed)
<1>1. PICK old \in Call : old = call[w]
    BY CallType DEF AccountInv
<1>2. PICK u \in Users : u = old.user
    BY <1>1 DEF AccountInv, CallerInv, Caller
<1>3. PICK c : c = [old EXCEPT !.pc = pc]
    OBVIOUS
<1>4. c \in Call /\ c.op = "username" /\ c.user = u /\ c.pc = pc /\ c.name = old.name
    BY <1>1, <1>2, <1>3 DEF Call, Pcs
<1>5. Caller(c) /\ Fresh(c, db.profile, clashed \cup mixed)
    BY <1>1, <1>4 DEF Caller, Fresh
<1> QED
    BY <1>1, <1>2, <1>3, <1>4, <1>5

(* How far the call of a user outside `mixed` has come.                    *)
LEMMA LaterStatement ==
    ASSUME AccountInv, NEW w \in using, call[w].op = "username", call[w].user \notin mixed,
           call[w].user \in Users, call[w].pc \in InTransaction
    PROVE  tx # None /\ session = tx /\ Half(db, call[w], tx) /\ w \notin sharing
<1>1. w \notin sharing
    BY DEF AccountInv, SessionInv
<1>2. tx # None
    BY <1>1 DEF AccountInv, SessionInv
<1> QED
    BY <1>1, <1>2 DEF AccountInv, TxInv, session

(* ReplacePeerUsernameTx, the rows of the caller: it holds no name.        *)
LEMMA UsernameReleaseInv ==
    ASSUME AccountInv, NEW w \in Workers, UsernameRelease(w)
    PROVE  AccountInv'
<1>a. TypeOK /\ None \notin Users
    BY AccountConstants DEF AccountInv
<1>b. /\ w \in using /\ call[w] # None /\ call[w].op = "username" /\ call[w].pc = "write"
      /\ UNCHANGED <<wanted, clashed, mixed>>
    BY DEF UsernameRelease, Execute, At, history
<1>c. PICK pc \in {"claim", "update"} : pc = IF call[w].name = None THEN "update" ELSE "claim"
    OBVIOUS
<1>d. PICK c \in Call, u \in Users :
             /\ c = [call[w] EXCEPT !.pc = pc] /\ c.pc = pc /\ c.op = "username"
             /\ c.user = u /\ call[w].user = u /\ c.name = call[w].name
             /\ Caller(c) /\ Fresh(c, db.profile, clashed \cup mixed)
    BY <1>b, <1>c, UsernameStatement DEF InTransaction
<1>e. PICK s \in Tables : s = session
    BY <1>a, SessionType
<1>f. PICK t : t = Released(s, u)
    OBVIOUS
<1>g. /\ t \in Tables /\ t.profile = s.profile /\ t.username = s.username
      /\ \A n \in Usernames : t.peer_usernames[n] = IF s.peer_usernames[n] = u THEN None ELSE s.peer_usernames[n]
    BY <1>f DEF Released, Tables
<1>h. Execute(w, "write", t)
    BY <1>d, <1>e, <1>f DEF UsernameRelease
<1>i. Becomes(w, c) /\ UNCHANGED db_mutex
    BY <1>a, <1>c, <1>d, ContinueBecomes DEF UsernameRelease, Continue
<1>1. \A x \in Users \ {u} : SameFor(session, t, x)
    BY <1>a, <1>e, <1>g DEF SameFor
<1>2. u \notin mixed => Half(db, c, t)
  <2> SUFFICES ASSUME u \notin mixed PROVE Half(db, c, t)
      OBVIOUS
  <2>1. SameFor(db, s, u)
      BY <1>b, <1>d, <1>e, FirstStatement DEF InTransaction
  <2>2. t.profile[u] = db.profile[u]
      BY <1>g, <2>1 DEF SameFor
  <2>3. Holds(t, u, None)
      BY <1>a, <1>g, AccountConstants DEF Holds
  <2>4. pc = "update" => c.name = None
      BY <1>c, <1>d
  <2> QED
      BY <1>c, <1>d, <2>2, <2>3, <2>4 DEF Half
<1>3. c.pc \in InTransaction
    BY <1>c, <1>d DEF InTransaction
<1> QED
    BY <1>b, <1>d, <1>g, <1>h, <1>i, <1>1, <1>2, <1>3, ExecuteInv

(* ReplacePeerUsernameTx, the row of the new name.                         *)
LEMMA UsernameClaimInv ==
    ASSUME AccountInv, NEW w \in Workers, UsernameClaim(w)
    PROVE  AccountInv'
<1>a. TypeOK /\ None \notin Users
    BY AccountConstants DEF AccountInv
<1>b. /\ w \in using /\ call[w] # None /\ call[w].op = "username" /\ call[w].pc = "claim"
      /\ UNCHANGED <<wanted, clashed, mixed>> /\ call[w].name # None
    BY DEF UsernameClaim, Execute, At, history, AccountInv, CallerInv, Caller
<1>d. PICK c \in Call, u \in Users :
             /\ c = [call[w] EXCEPT !.pc = "update"] /\ c.pc = "update" /\ c.op = "username"
             /\ c.user = u /\ call[w].user = u /\ c.name = call[w].name
             /\ Caller(c) /\ Fresh(c, db.profile, clashed \cup mixed)
    BY <1>b, UsernameStatement DEF InTransaction
<1>e. PICK name \in Usernames : name = c.name
    BY <1>b, <1>d DEF Call
<1>f. PICK s \in Tables : s = session
    BY <1>a, SessionType
<1>g. PICK t : t = [s EXCEPT !.peer_usernames[name] = u]
    OBVIOUS
<1>h. /\ t \in Tables /\ t.profile = s.profile /\ t.username = s.username
      /\ \A n \in Usernames : t.peer_usernames[n] = IF n = name THEN u ELSE s.peer_usernames[n]
    BY <1>g DEF Tables
<1>i. Execute(w, "claim", t) /\ s.peer_usernames[name] = None
    BY <1>d, <1>e, <1>f, <1>g DEF UsernameClaim
<1>j. Becomes(w, c) /\ UNCHANGED db_mutex
    BY <1>a, <1>d, ContinueBecomes DEF UsernameClaim, Continue
<1>1. \A x \in Users \ {u} : SameFor(session, t, x)
    BY <1>a, <1>f, <1>h, <1>i DEF SameFor
<1>2. u \notin mixed => Half(db, c, t)
  <2> SUFFICES ASSUME u \notin mixed PROVE Half(db, c, t)
      OBVIOUS
  <2>1. s = tx /\ Half(db, call[w], tx)
      BY <1>b, <1>d, <1>f, LaterStatement DEF InTransaction
  <2>2. s.profile[u] = db.profile[u] /\ Holds(s, u, None)
      BY <1>b, <1>d, <2>1 DEF Half
  <2>3. Holds(t, u, name)
      BY <1>h, <2>2, AccountConstants DEF Holds
  <2> QED
      BY <1>d, <1>e, <1>h, <2>2, <2>3 DEF Half
<1>3. c.pc \in InTransaction
    BY <1>d DEF InTransaction
<1> QED
    BY <1>b, <1>d, <1>h, <1>i, <1>j, <1>1, <1>2, <1>3, ExecuteInv

(* UPDATE users: in the transaction both tables name the new owner.        *)
LEMMA UsernameUpdateInv ==
    ASSUME AccountInv, NEW w \in Workers, UsernameUpdate(w)
    PROVE  AccountInv'
<1>a. TypeOK
    BY DEF AccountInv
<1>b. /\ w \in using /\ call[w] # None /\ call[w].op = "username" /\ call[w].pc = "update"
      /\ UNCHANGED <<wanted, clashed, mixed>>
    BY DEF UsernameUpdate, Execute, At, history, AccountInv, CallerInv, Caller
<1>d. PICK c \in Call, u \in Users :
             /\ c = [call[w] EXCEPT !.pc = "commit"] /\ c.pc = "commit" /\ c.op = "username"
             /\ c.user = u /\ call[w].user = u /\ c.name = call[w].name
             /\ Caller(c) /\ Fresh(c, db.profile, clashed \cup mixed)
    BY <1>b, UsernameStatement DEF InTransaction
<1>e. PICK name \in Usernames \cup {None} : name = c.name
    BY <1>d DEF Call
<1>f. PICK s \in Tables : s = session
    BY <1>a, SessionType
<1>g. PICK t : t = [s EXCEPT !.username[u] = name]
    OBVIOUS
<1>h. /\ t \in Tables /\ t.profile = s.profile /\ t.peer_usernames = s.peer_usernames
      /\ \A x \in Users : t.username[x] = IF x = u THEN name ELSE s.username[x]
    BY <1>g DEF Tables
<1>i. Execute(w, "update", t)
    BY <1>d, <1>e, <1>f, <1>g DEF UsernameUpdate
<1>j. Becomes(w, c) /\ UNCHANGED db_mutex
    BY <1>a, <1>d, ContinueBecomes DEF UsernameUpdate, Continue
<1>1. \A x \in Users \ {u} : SameFor(session, t, x)
    BY <1>f, <1>h DEF SameFor
<1>2. u \notin mixed => Half(db, c, t)
  <2> SUFFICES ASSUME u \notin mixed PROVE Half(db, c, t)
      OBVIOUS
  <2>1. s = tx /\ Half(db, call[w], tx)
      BY <1>b, <1>d, <1>f, LaterStatement DEF InTransaction
  <2>2. s.profile[u] = db.profile[u] /\ Holds(s, u, name)
      BY <1>b, <1>d, <1>e, <2>1 DEF Half
  <2>3. Agree(t, u)
      BY <1>h, <2>2 DEF Holds, Agree
  <2> QED
      BY <1>d, <1>h, <2>2, <2>3 DEF Half
<1>3. c.pc \in InTransaction
    BY <1>d DEF InTransaction
<1> QED
    BY <1>b, <1>d, <1>h, <1>i, <1>j, <1>1, <1>2, <1>3, ExecuteInv

(* COMMIT of UpdateUsername: the committed tables agree again.             *)
LEMMA UsernameCommitInv ==
    ASSUME AccountInv, NEW w \in Workers, UsernameCommit(w)
    PROVE  AccountInv'
<1>a. TypeOK
    BY DEF AccountInv
<1>b. /\ w \in using /\ EndTransaction(w) /\ Finish(w) /\ UNCHANGED <<wanted, clashed, mixed>>
      /\ call[w] # None /\ call[w].op = "username" /\ call[w].pc = "commit"
      /\ db' = session \/ (w \in sharing /\ db' = db)
    BY DEF UsernameCommit, Commit, EndTransaction, At, history
<1>c. call[w].user \in Users
    BY <1>b DEF AccountInv, CallerInv, Caller
<1>d. db' \in Tables
    BY <1>a, <1>b, SessionType DEF TypeOK
<1>1. ASSUME NEW x \in Users \ mixed
      PROVE  db'.profile[x] = db.profile[x] /\ Agree(db', x)
  <2>1. CASE w \in sharing \/ call[w].user # x
    <3>1. SameFor(db, session, x)
        BY <1>b, <2>1, SessionSame
    <3>2. SameFor(db, db', x) /\ Agree(db, x)
        BY <1>b, <3>1, AgreeDef DEF SameFor, AccountInv
    <3> QED
        BY <3>2, SameAgree DEF SameFor
  <2>2. CASE w \notin sharing /\ call[w].user = x
    <3>1. session = tx /\ Half(db, call[w], tx)
        BY <1>b, <2>2, LaterStatement DEF InTransaction
    <3>2. tx.profile[x] = db.profile[x] /\ Agree(tx, x)
        BY <1>b, <2>2, <3>1 DEF Half
    <3> QED
        BY <1>b, <2>2, <3>1, <3>2
  <2> QED
      BY <2>1, <2>2
<1>2. Kept /\ Grown
    BY <1>a, <1>b, <1>1, HistoryGrown DEF Kept
<1> QED
    BY <1>b, <1>d, <1>2, EndHandler
-----------------------------------------------------------------------------

(* No request runs and every username row agrees with its user at start-   *)
(* up.                                                                     *)
LEMMA InitInv == Init => AccountInv
<1> SUFFICES ASSUME Init PROVE AccountInv
    OBVIOUS
<1>0. PICK profile \in [Users -> Profile] :
        db = [profile |-> profile, username |-> [u \in Users |-> None],
              peer_usernames |-> [n \in Usernames |-> None]]
    BY DEF Init
<1>1. TypeOK
  <2>1. db \in Tables
      BY <1>0 DEF Tables
  <2>2. wanted \in [Users -> Profile]
      BY <1>0 DEF Init
  <2> QED
      BY <2>1, <2>2 DEF Init, TypeOK
<1>2. CallerInv /\ AloneInv
    BY DEF Init, CallerInv, AloneInv, Running
<1>3. SessionInv /\ TxInv
    BY DEF Init, SessionInv, TxInv
<1>4. UsernamesAgree
  <2>1. None \notin Users /\ None \notin Usernames
      BY AccountConstants
  <2> QED
      BY <1>0, <2>1 DEF UsernamesAgree
<1>5. PartialUpdateAlone
    BY DEF Init, PartialUpdateAlone
<1> QED
    BY <1>1, <1>2, <1>3, <1>4, <1>5 DEF AccountInv

(* Every step keeps the invariant.                                         *)
LEMMA NextInv ==
    ASSUME AccountInv, [Next]_vars
    PROVE  AccountInv'
<1>1. CASE UNCHANGED vars
    BY <1>1 DEF vars, AccountInv, TypeOK, CallerInv, SessionInv, TxInv, AloneInv, Running, At,
        UsernamesAgree, PartialUpdateAlone
<1>2. ASSUME NEW w \in Workers, Arrive(w) \/ Lock(w) \/ Work(w)
      PROVE  AccountInv'
    BY <1>2, ArriveInv, LockInv, BeginInv, InterferedInv, RollbackInv, ReadsInv,
       ResolveCurrentUserInv, ProfileSelfInv, ProfileWriteInv, ProfileCommitInv, UsernameReadsInv,
       UsernameReleaseInv, UsernameClaimInv, UsernameUpdateInv, UsernameCommitInv
       DEF Work, DbError, UsernameOccupied
<1> QED
    BY <1>1, <1>2 DEF Next

(* AccountInv is an invariant of handlers that share one Postgres session: *)
(* whatever the threads that overlap in it do to each other's              *)
(* transactions, no row of a user outside `mixed` is touched by it.        *)
THEOREM Invariance == Spec => []AccountInv
BY InitInv, NextInv, PTL DEF Spec

(* The rows and the handlers keep their types, however handlers and errors *)
(* of the shared connection interleave.                                    *)
THEOREM TypeCorrect == Spec => []TypeOK
<1>1. AccountInv => TypeOK
    BY DEF AccountInv
<1> QED
    BY <1>1, Invariance, PTL

(* users and peer_usernames agree on every user for whom no handler has    *)
(* shared the connection: the transaction of UserStore::UpdateUsername     *)
(* needs no availability check before it for that, and nothing that        *)
(* overlapping handlers of other users do can take part of it away.        *)
THEOREM OneOwnerPerUsername == Spec => []UsernamesAgree
<1>1. AccountInv => UsernamesAgree
    BY DEF AccountInv
<1> QED
    BY <1>1, Invariance, PTL

(* account.updateProfile sets the fields that its request names and no     *)
(* other, for a user whose updateProfile calls do not overlap and none of  *)
(* whose handlers has shared the connection.                               *)
THEOREM ProfileAsWanted == Spec => []PartialUpdateAlone
<1>1. AccountInv => PartialUpdateAlone
    BY DEF AccountInv
<1> QED
    BY <1>1, Invariance, PTL
=============================================================================
