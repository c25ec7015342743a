------------------------------ MODULE Account ------------------------------
(***************************************************************************)
(* The account handlers of cmd/shuzagram_server/main.cpp and the single    *)
(* pqxx::connection that all handlers share.  The login handlers, the      *)
(* key resolver and the save of a new key use it under db_mutex; the seven *)
(* account.* and users.* handlers use it without.                          *)
(*                                                                         *)
(* A store call takes the connection (Begin), executes its statements and  *)
(* commits; between two statements every other handler may run.  One       *)
(* connection is one Postgres session with at most one open transaction:   *)
(* of two store calls that overlap, either one's COMMIT or ROLLBACK ends   *)
(* the transaction of both, and the other goes on without one.  And libpq  *)
(* may hand a thread the result of the other's query.                      *)
(***************************************************************************)
CONSTANTS
    Workers,     \* connection threads
    Users,       \* user ids, all live
    Usernames,   \* valid usernames, in lower case
    Values,      \* contents of a profile field
    Updates,     \* the profile updates that clients ask for
    None         \* no user, no username, field not set, no running handler

ASSUME AccountConstants ==
    None \notin Users \cup Usernames \cup Values \cup Workers

(* first_name and last_name behave alike; one of them stands for both.     *)
Fields == {"name", "about"}

Profile == [Fields -> Values]

(* A UserProfileUpdate: what each field is to be, or None.                 *)
ASSUME UpdatesAssumption == Updates \subseteq [Fields -> Values \cup {None}]

(* The statement that a store call executes after its first.               *)
InTransaction == {"claim", "update", "commit"}

(* The store call a handler makes next, or where in it the handler is.     *)
Pcs == {"lock", "locked", "read", "authz", "self", "available", "write"} \cup InTransaction

Call == [op     : {"profile", "username", "reads", "locked"},
         pc     : Pcs,
         user   : Users \cup {None},              \* the session's user
         update : [Fields -> Values \cup {None}], \* UserProfileUpdate
         name   : Usernames \cup {None},          \* requested username; None clears
         self   : Profile \cup {None},            \* the row that ByID returned:
         held   : Usernames \cup {None}]          \* its profile and its username

(* users.first_name, last_name and about; users.username; and the peer of   *)
(* each username in peer_usernames.                                        *)
Tables == [profile        : [Users -> Profile],
           username       : [Users -> Usernames \cup {None}],
           peer_usernames : [Usernames -> Users \cup {None}]]

ASSUME NoneIsNoCall == None \notin Call /\ None \notin Profile /\ None \notin Tables

VARIABLES
    db,        \* the tables as committed
    tx,        \* the tables as the session's open transaction has them, or None
    db_mutex,  \* its holder, or None
    using,     \* workers inside a store call
    sharing,   \* those of them whose store call has overlapped another
    call,      \* the handler of each worker
    wanted,    \* history: what each field was last explicitly set to
    clashed,   \* history: users with two updateProfile calls at once
    mixed      \* history: users for whom a handler has shared the connection

vars == <<db, tx, db_mutex, using, sharing, call, wanted, clashed, mixed>>

-----------------------------------------------------------------------------
TypeOK ==
    /\ db \in Tables
    /\ tx \in Tables \cup {None}
    /\ db_mutex \in Workers \cup {None}
    /\ using \subseteq Workers
    /\ sharing \subseteq using
    /\ call \in [Workers -> Call \cup {None}]
    /\ wanted \in [Users -> Profile]
    /\ clashed \subseteq Users
    /\ mixed \subseteq Users

Init ==
    /\ \E profile \in [Users -> Profile] :
        db = [profile |-> profile,
              username |-> [u \in Users |-> None],
              peer_usernames |-> [n \in Usernames |-> None]]
    /\ tx = None
    /\ db_mutex = None
    /\ using = {}
    /\ sharing = {}
    /\ call = [w \in Workers |-> None]
    /\ wanted = db.profile
    /\ clashed = {}
    /\ mixed = {}

-----------------------------------------------------------------------------
(* The shared connection.                                                  *)

history == <<wanted, clashed, mixed>>

At(w, pc) == call[w] # None /\ call[w].pc = pc

(* The tables as the session sees them.                                    *)
session == IF tx = None THEN db ELSE tx

(* pqxx::work tx(db_.conn()).  If another transaction is open the           *)
(* constructor throws, unless it runs into the other thread's change of    *)
(* the same connection object: then both go on, and the second BEGIN is    *)
(* only a warning.                                                         *)
Begin(w) ==
    /\ call[w] # None /\ call[w].pc # "lock"
    /\ w \notin using
    /\ using' = using \cup {w}
    /\ tx' = session
    /\ sharing' = IF using = {} THEN {} ELSE using'
    /\ mixed' = mixed \cup {u \in Users : \E v \in sharing' : call[v].user = u}
    /\ UNCHANGED <<db, db_mutex, call, wanted, clashed>>

(* The handler returns and its lock_guard, if any, is destroyed.           *)
Finish(w) ==
    /\ call' = [call EXCEPT ![w] = None]
    /\ db_mutex' = IF db_mutex = w THEN None ELSE db_mutex

Interfered(w) ==
    /\ call[w] # None /\ call[w].pc # "lock"
    /\ w \notin using
    /\ using # {}
    /\ Finish(w)
    /\ UNCHANGED <<db, tx, using, sharing, history>>

(* A store call of w ends, and with it the session's transaction.          *)
EndTransaction(w) ==
    /\ w \in using
    /\ using' = using \ {w}
    /\ sharing' = sharing \ {w}
    /\ tx' = None

(* tx.commit() of w, which was at pc.  If a statement of another thread     *)
(* has failed in the same transaction, COMMIT rolls it back.               *)
Commit(w, pc) ==
    /\ At(w, pc)
    /\ EndTransaction(w)
    /\ \/ db' = session
       \/ w \in sharing /\ UNCHANGED db

(* A statement of w, at pc, turns the session's tables into t: in the open *)
(* transaction or, if another thread has ended it, at once.                *)
Execute(w, pc, t) ==
    /\ At(w, pc)
    /\ w \in using
    /\ \/ tx # None /\ tx' = t /\ UNCHANGED db
       \/ tx = None /\ db' = t /\ UNCHANGED tx
    /\ UNCHANGED <<using, sharing>>

Continue(w, c) ==
    /\ call' = [call EXCEPT ![w] = c]
    /\ UNCHANGED db_mutex

(* What a query of w for the row of user u returns, and what one that asks *)
(* if p holds: the answer or, on a shared connection, another one.         *)
Returned(w, row, u) == {row[v] : v \in IF w \in sharing THEN Users ELSE {u}}

Answered(w, p) == IF w \in sharing THEN BOOLEAN ELSE {p}

(* ~work(): a store call that leaves by an exception rolls back.  The       *)
(* handler answers with an error.                                          *)
Rollback(w) ==
    /\ EndTransaction(w)
    /\ Finish(w)
    /\ UNCHANGED <<db, history>>

(* The database refuses the call or is gone: INTERNAL.                     *)
DbError(w) == Rollback(w)

-----------------------------------------------------------------------------
NewCall(op, pc, u, update, n) ==
    [op |-> op, pc |-> pc, user |-> u, update |-> update, name |-> n,
     self |-> None, held |-> None]

NoUpdate == [f \in Fields |-> None]

Request(w, c) ==
    /\ call[w] = None
    /\ call' = [call EXCEPT ![w] = c]
    /\ UNCHANGED <<db, tx, db_mutex, using, sharing, wanted, mixed>>

(* The handlers that hold db_mutex over all their store calls, as many as  *)
(* they make.                                                              *)
LockedRequest(w) ==
    /\ Request(w, NewCall("locked", "lock", None, NoUpdate, None))
    /\ UNCHANGED clashed

Lock(w) ==
    /\ At(w, "lock")
    /\ db_mutex = None
    /\ db_mutex' = w
    /\ call' = [call EXCEPT ![w].pc = "locked"]
    /\ UNCHANGED <<db, tx, using, sharing, history>>

LockedCall(w) ==
    /\ Commit(w, "locked")
    /\ Finish(w) \/ UNCHANGED <<call, db_mutex>>
    /\ UNCHANGED history

(* users.getUsers, account.getAuthorizations, account.checkUsername, and    *)
(* account.updateStatus and updateBirthday, whose columns no other handler *)
(* reads: only their use of the connection matters.                        *)
ReadsRequest(w) ==
    /\ Request(w, NewCall("reads", "read", None, NoUpdate, None))
    /\ UNCHANGED clashed

ReadCall(w) ==
    /\ Commit(w, "read")
    /\ Finish(w) \/ UNCHANGED <<call, db_mutex>>
    /\ UNCHANGED history

-----------------------------------------------------------------------------
(* account.updateProfile                                                   *)

UpdateProfileRequest(w, u, update) ==
    /\ update # NoUpdate
    /\ Request(w, NewCall("profile", "authz", u, update, None))
    /\ clashed' = IF \E v \in Workers : /\ call[v] # None
                                       /\ call[v].op = "profile"
                                       /\ call[v].user = u
                  THEN clashed \cup {u} ELSE clashed

(* ResolveCurrentUser; users without an authorization get an error.        *)
ResolveCurrentUser(w) ==
    /\ Commit(w, "authz")
    /\ \/ \E u \in Returned(w, [v \in Users |-> v], call[w].user) :
            /\ Continue(w, [call[w] EXCEPT !.pc = "self", !.user = u])
            /\ mixed' = IF w \in sharing THEN mixed \cup {u} ELSE mixed
       \/ Finish(w) /\ UNCHANGED mixed
    /\ UNCHANGED <<wanted, clashed>>

(* A mutation: a field that the request leaves out is overwritten too.     *)
Merged_Unset(c) == c.update

(* The row to write: the fields of the request, the rest as ByID saw it.   *)
Merged(c) == [f \in Fields |-> IF c.update[f] = None THEN c.self[f] ELSE c.update[f]]

(* users.ByID.  An update that changes nothing, or that is refused, ends   *)
(* here.                                                                   *)
ProfileSelf(w) ==
    /\ Commit(w, "self")
    /\ call[w].op = "profile"
    /\ \E self \in Returned(w, session.profile, call[w].user) :
        LET c == [call[w] EXCEPT !.pc = "write", !.self = self] IN
        \/ Merged(c) # c.self /\ Continue(w, c)
        \/ Finish(w)
    /\ UNCHANGED history

(* UserStore::UpdateProfile "always overwrites all three fields".          *)
ProfileWrite(w) ==
    LET c == call[w] IN
    /\ c # None /\ c.op = "profile"
    /\ Execute(w, "write", [session EXCEPT !.profile[c.user] = Merged(c)])
    /\ Continue(w, [c EXCEPT !.pc = "commit"])
    /\ UNCHANGED history

(* Its tx.commit().  The commit may be in doubt, that is, reported as an    *)
(* error although it took effect; either way the handler returns.          *)
ProfileCommit(w) ==
    LET c == call[w] IN
    /\ Commit(w, "commit")
    /\ c.op = "profile"
    /\ wanted' = [wanted EXCEPT ![c.user] =
                    [f \in Fields |-> IF c.update[f] = None THEN @[f] ELSE c.update[f]]]
    /\ Finish(w)
    /\ UNCHANGED <<clashed, mixed>>

-----------------------------------------------------------------------------
(* account.updateUsername                                                  *)

UpdateUsernameRequest(w, u, n) ==
    /\ Request(w, NewCall("username", "authz", u, NoUpdate, n))
    /\ UNCHANGED clashed

(* users.ByID.  Clearing a name that is already clear ends here.           *)
UsernameSelf(w) ==
    /\ Commit(w, "self")
    /\ call[w].op = "username"
    /\ \E held \in Returned(w, session.username, call[w].user) :
        LET c == [call[w] EXCEPT !.held = held] IN
        \/ c.name # None /\ Continue(w, [c EXCEPT !.pc = "available"])
        \/ c.name = None /\ held # None /\ Continue(w, [c EXCEPT !.pc = "write"])
        \/ c.name = None /\ held = None /\ Finish(w)
    /\ UNCHANGED history

(* No user but u has the name n.                                           *)
FreeFor(n, u) == \A v \in Users : session.username[v] = n => v = u

(* users.ByUsername.  The name is someone else's, or the one that ByID      *)
(* returned, or it is to be written.                                       *)
UsernameAvailable(w) ==
    LET c == call[w] IN
    /\ Commit(w, "available")
    /\ \E free \in Answered(w, FreeFor(c.name, c.user)) :
        \/ free /\ c.held # c.name /\ Continue(w, [c EXCEPT !.pc = "write"])
        \/ (~free \/ c.held = c.name) /\ Finish(w)
    /\ UNCHANGED history

(* GetPeerUsernameOwner found nobody but the caller.                       *)
Unowned(c) == c.name # None => session.peer_usernames[c.name] \in {c.user, None}

(* UserStore::UpdateUsername, whose transaction has several statements.    *)
(* The first ones are ReplacePeerUsernameTx: look for the owner and delete *)
(* the caller's rows ...                                                   *)
Released(t, u) ==
    [t EXCEPT !.peer_usernames = [n \in Usernames |-> IF @[n] = u THEN None ELSE @[n]]]

(* A mutation: the caller's previous row is deleted only if another name   *)
(* takes its place.                                                        *)
UsernameRelease_KeepsOld(w) ==
    LET c == call[w] IN
    /\ c # None /\ c.op = "username"
    /\ TRUE \in Answered(w, Unowned(c))
    /\ Execute(w, "write", IF c.name = None THEN session ELSE Released(session, c.user))
    /\ Continue(w, [c EXCEPT !.pc = IF c.name = None THEN "update" ELSE "claim"])
    /\ UNCHANGED history

UsernameRelease(w) ==
    LET c == call[w] IN
    /\ c # None /\ c.op = "username"
    /\ TRUE \in Answered(w, Unowned(c))
    /\ Execute(w, "write", Released(session, c.user))
    /\ Continue(w, [c EXCEPT !.pc = IF c.name = None THEN "update" ELSE "claim"])
    /\ UNCHANGED history

(* ... and insert the new one.  username_lower is unique.                  *)
UsernameClaim(w) ==
    LET c == call[w] IN
    /\ At(w, "claim")
    /\ session.peer_usernames[c.name] = None
    /\ Execute(w, "claim", [session EXCEPT !.peer_usernames[c.name] = c.user])
    /\ Continue(w, [c EXCEPT !.pc = "update"])
    /\ UNCHANGED history

(* UPDATE users SET username, under users_username_lower_unique_idx.       *)
UsernameUpdate(w) ==
    LET c == call[w] IN
    /\ At(w, "update")
    /\ c.name # None => FreeFor(c.name, c.user)
    /\ Execute(w, "update", [session EXCEPT !.username[c.user] = c.name])
    /\ Continue(w, [c EXCEPT !.pc = "commit"])
    /\ UNCHANGED history

UsernameCommit(w) ==
    /\ Commit(w, "commit")
    /\ call[w].op = "username"
    /\ Finish(w)
    /\ UNCHANGED history

(* UsernameOccupiedError: claimed after it was found available.            *)
UsernameOccupied(w) ==
    LET c == call[w] IN
    /\ c # None /\ c.op = "username"
    /\ \/ c.pc = "write" /\ FALSE \in Answered(w, Unowned(c))
       \/ c.pc = "claim" /\ session.peer_usernames[c.name] # None
       \/ c.pc = "update" /\ c.name # None /\ ~FreeFor(c.name, c.user)
    /\ Rollback(w)

-----------------------------------------------------------------------------
Arrive(w) ==
    \/ LockedRequest(w)
    \/ ReadsRequest(w)
    \/ \E u \in Users :
        \/ \E update \in Updates : UpdateProfileRequest(w, u, update)
        \/ \E n \in Usernames \cup {None} : UpdateUsernameRequest(w, u, n)

(* What a worker does inside a handler, once it need not wait for db_mutex. *)
Work(w) ==
    \/ Begin(w)
    \/ Interfered(w)
    \/ DbError(w)
    \/ LockedCall(w) \/ ReadCall(w)
    \/ ResolveCurrentUser(w)
    \/ ProfileSelf(w) \/ ProfileWrite(w) \/ ProfileCommit(w)
    \/ UsernameSelf(w) \/ UsernameAvailable(w)
    \/ UsernameRelease(w) \/ UsernameClaim(w) \/ UsernameUpdate(w)
    \/ UsernameCommit(w) \/ UsernameOccupied(w)

Next == \E w \in Workers : Arrive(w) \/ Lock(w) \/ Work(w)

Spec == Init /\ [][Next]_vars

-----------------------------------------------------------------------------
(* Properties.                                                             *)

(* users.username and peer_usernames agree on every user for whom no      *)
(* handler has shared the connection: the transaction of UpdateUsername    *)
(* keeps them together although the availability check and the write are   *)
(* two store calls, it may fail after any statement, and the handlers of   *)
(* other users may break each other's transactions over the same names.    *)
(* (For a user in `mixed` they need not agree: COMMIT of another thread    *)
(* can come between the two tables' statements.)                           *)
UsernamesAgree ==
    \A u \in Users \ mixed, n \in Usernames :
        db.username[u] = n <=> db.peer_usernames[n] = u

(* "db_mutex serializes every Postgres-touching operation this process     *)
(* performs": no two threads are ever inside the connection.               *)
ConnectionExclusive == \A v, w \in using : v = w

(* "Independently optional" fields with "partial-update meaning": a field  *)
(* holds what the last request that named it set it to, as long as one     *)
(* device at a time updates a profile and no handler for it has shared the *)
(* connection, although the merge reads the row in one store call and      *)
(* writes it in another, and other handlers' transactions come and go      *)
(* between the two.                                                        *)
PartialUpdateAlone ==
    \A u \in Users \ (clashed \cup mixed) : db.profile[u] = wanted[u]
=============================================================================
