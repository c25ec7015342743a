---------------------------- MODULE AuthIdentity ----------------------------
(***************************************************************************)
(* The transactions on auth keys, their bindings and their authorizations  *)
(* that several processes run against one database: AuthorizationStore's   *)
(* Bind, RevokeByHash, RevokeByUserExcept and Delete, AuthKeyStore's       *)
(* LoadBindingKeys and Delete, and SaveWithState, with the advisory and    *)
(* row locks they take one by one, and the retries of WithAuthIdentityTx.  *)
(*                                                                         *)
(* Transactions are READ COMMITTED: a statement sees what was committed    *)
(* when it started, a lock is held until its transaction ends, and what a  *)
(* transaction writes appears when it commits.  A transaction that waits   *)
(* for none of the locks modelled here is one step, its commit.            *)
(***************************************************************************)
EXTENDS Naturals, FiniteSets, Sequences

CONSTANTS
    Txs,         \* database connections, one transaction at a time each
    PermKeys,    \* permanent auth keys: numbers, in the order of auth_key_id
    TempKeys,    \* temporary auth keys: numbers
    Users,
    Hash,        \* hashint8 of a permanent key
    MaxAttempts, \* kAuthIdentityTxMaxAttempts
    MaxPts,      \* bound on the updates that are published
    MaxTxs,      \* bound on the transactions of a behaviour
    None

Keys == PermKeys \cup TempKeys

ASSUME AuthIdentityConstants ==
    /\ PermKeys \subseteq Nat /\ TempKeys \subseteq Nat
    /\ IsFiniteSet(PermKeys) /\ IsFiniteSet(TempKeys)
    /\ PermKeys \cap TempKeys = {}
    /\ Hash \in [PermKeys -> Nat]
    /\ MaxAttempts \in Nat \ {0, 1} /\ MaxPts \in Nat /\ MaxTxs \in Nat
    /\ None \notin Keys \cup Users \cup Txs

(* Advisory locks on a user and on a permanent identity; row locks on a     *)
(* key and on the two rows of a user's update baseline.                    *)
Locks == ({"user", "watermark", "retention"} \X Users)
            \cup ({"identity"} \X {Hash[k] : k \in PermKeys})
            \cup ({"key"} \X Keys)

IdentityOps == {"bind", "revoke", "delete", "save"}  \* run by WithAuthIdentityTx

VARIABLES
    auth_keys,       \* the keys that have a row
    bindings,        \* temp_auth_key_bindings: permanent key of a temporary one
    authorizations,  \* user of a permanent key, or None
    update_states,   \* cursor of a permanent key: user and observed_pts, or None
    contiguous_pts,  \* user_update_watermarks
    retained,        \* user_update_retention: retained_through_pts
    holder,          \* transaction that holds a lock, or None
    tx,              \* the open transactions, or None
    opened,          \* number of transactions so far
    failed,          \* history: what a transaction was refused with
    confirmed        \* history: temporary and permanent key of each bind answered ok

vars == <<auth_keys, bindings, authorizations, update_states, contiguous_pts, retained,
          holder, tx, opened, failed, confirmed>>

history == <<failed, confirmed>>

rows == <<auth_keys, bindings, authorizations, update_states, contiguous_pts, retained>>

Tx == [op      : IdentityOps \cup {"load", "prune"},
       pc      : {"start", "read", "recheck", "doom", "commit"},
       todo    : Seq(Locks),         \* locks still to take before pc
       key     : Keys \cup {None},   \* raw_id, key_id or keep_id
       perm    : PermKeys \cup {None},
       user    : Users \cup {None},
       targets : SUBSET Keys,        \* candidates, or doomed temporary keys
       bound   : BOOLEAN,            \* the hint: whether key was bound
       floor   : 0 .. MaxPts,        \* retained_floor
       attempt : 1 .. MaxAttempts]

Cursor == [user : Users, observed : 0 .. MaxPts]

ASSUME NoneIsNoRecord == None \notin Cursor /\ None \notin Tx

TypeOK ==
    /\ auth_keys \subseteq Keys
    /\ bindings \in [TempKeys -> PermKeys \cup {None}]
    /\ authorizations \in [PermKeys -> Users \cup {None}]
    /\ update_states \in [PermKeys -> Cursor \cup {None}]
    /\ contiguous_pts \in [Users -> 0 .. MaxPts]
    /\ retained \in [Users -> 0 .. MaxPts]
    /\ holder \in [Locks -> Txs \cup {None}]
    /\ tx \in [Txs -> Tx \cup {None}]
    /\ opened \in 0 .. MaxTxs
    /\ failed \subseteq {"unstable", "deadlock", "restricted"}
    /\ confirmed \subseteq TempKeys \X PermKeys

(* The keys were saved; any of their devices have logged in, and have bound *)
(* temporary keys.                                                         *)
Init ==
    /\ auth_keys = Keys
    /\ bindings \in [TempKeys -> PermKeys \cup {None}]
    /\ authorizations \in [PermKeys -> Users \cup {None}]
    /\ update_states = [k \in PermKeys |-> IF authorizations[k] = None THEN None
                                           ELSE [user |-> authorizations[k], observed |-> 0]]
    /\ contiguous_pts = [u \in Users |-> 0]
    /\ retained = [u \in Users |-> 0]
    /\ holder = [l \in Locks |-> None]
    /\ tx = [t \in Txs |-> None]
    /\ opened = 0
    /\ failed = {}
    /\ confirmed = {b \in TempKeys \X PermKeys : bindings[b[1]] = b[2]}

-----------------------------------------------------------------------------
(* The locks that a transaction asks for, in its order.                    *)

IdentityLock(k) == <<"identity", Hash[k]>>

KeyLock(k) == <<"key", k>>

Ascending(S) ==
    CHOOSE s \in [1 .. Cardinality(S) -> S] :
        /\ \A x \in S : \E i \in 1 .. Cardinality(S) : s[i] = x
        /\ \A i, j \in 1 .. Cardinality(S) : i < j => s[i] < s[j]

(* A mutation: the locks are taken in the order of the identities.         *)
LockPermanentAuthIdentities_ById(ks) ==
    LET s == Ascending(ks) IN [i \in 1 .. Len(s) |-> IdentityLock(s[i])]

(* In the order of the hashes, one lock for identities that collide.       *)
LockPermanentAuthIdentities(ks) ==
    LET s == Ascending({Hash[k] : k \in ks}) IN [i \in 1 .. Len(s) |-> <<"identity", s[i]>>]

LockKeys(ks) == LET s == Ascending(ks) IN [i \in 1 .. Len(s) |-> KeyLock(s[i])]

(* A mutation: the rows of the baseline are read without being locked.     *)
BindLocks_NoBaseline(x) ==
    <<<<"user", x.user>>>> \o LockPermanentAuthIdentities({x.key}) \o <<KeyLock(x.key)>>

BindLocks(x) ==
    <<<<"user", x.user>>>> \o LockPermanentAuthIdentities({x.key})
        \o <<KeyLock(x.key), <<"watermark", x.user>>, <<"retention", x.user>>>>

(* telesrv_bind_temp_auth_key: identity, raw row, permanent row.           *)
SaveLocks(x) == <<IdentityLock(x.perm), KeyLock(x.key), KeyLock(x.perm)>>

IsBound(k) == k \in TempKeys /\ bindings[k] # None

(* LookupAuthKeyIdentityHint, lock-free: a permanent key is its own         *)
(* identity, a temporary one has that of its permanent key once bound.     *)
HintLocks(k) ==
    (IF k \in PermKeys THEN <<IdentityLock(k)>>
     ELSE IF IsBound(k) THEN <<IdentityLock(bindings[k])>> ELSE <<>>)
        \o <<KeyLock(k)>>

(* The selector of a revocation: what its WHERE clause finds now.          *)
Selected(x) ==
    {k \in PermKeys : /\ authorizations[k] = x.user
                      /\ x.perm # None => k = x.perm
                      /\ k # x.key}

-----------------------------------------------------------------------------
(* Transactions.                                                           *)

NewTx(op, pc, todo, key, perm, user) ==
    [op |-> op, pc |-> pc, todo |-> todo, key |-> key, perm |-> perm, user |-> user,
     targets |-> {}, bound |-> FALSE, floor |-> 0, attempt |-> 1]

(* x once it has run the statements that come before its first lock; None   *)
(* if it ends there, having found no candidate or no key.                  *)
Started(x) ==
    CASE x.op = "bind" -> [x EXCEPT !.pc = "read", !.todo = BindLocks(x)]
      [] x.op = "save" -> [x EXCEPT !.pc = "commit", !.todo = SaveLocks(x)]
      [] x.op = "revoke" ->
            IF Selected(x) = {} THEN None
            ELSE [x EXCEPT !.pc = "commit", !.targets = Selected(x),
                    !.todo = LockPermanentAuthIdentities(Selected(x)) \o LockKeys(Selected(x))]
      [] x.op = "delete" ->
            IF x.key \notin auth_keys THEN None
            ELSE [x EXCEPT !.pc = "recheck", !.todo = HintLocks(x.key), !.bound = IsBound(x.key),
                    !.perm = IF IsBound(x.key) THEN bindings[x.key] ELSE None]

(* One that ends with its first statement changes nothing: no step.        *)
Open(t, new) ==
    /\ opened < MaxTxs
    /\ tx[t] = None /\ new # None
    /\ opened' = opened + 1
    /\ tx' = [tx EXCEPT ![t] = new]
    /\ UNCHANGED <<rows, holder, history>>

(* t has every lock it asked for and runs its next statement.              *)
At(t, ops, pc) ==
    /\ tx[t] # None
    /\ tx[t].op \in ops
    /\ tx[t].pc = pc
    /\ tx[t].todo = <<>>

Waiting(t) == tx[t] # None /\ tx[t].todo # <<>>

Acquire(t) ==
    /\ Waiting(t)
    /\ holder[Head(tx[t].todo)] \in {None, t}
    /\ holder' = [holder EXCEPT ![Head(tx[t].todo)] = t]
    /\ tx' = [tx EXCEPT ![t].todo = Tail(@)]
    /\ UNCHANGED <<rows, opened, history>>

Release(t) == holder' = [l \in Locks |-> IF holder[l] = t THEN None ELSE holder[l]]

(* Commit, or rollback: the transaction ends and its locks go.             *)
End(t) ==
    /\ Release(t)
    /\ tx' = [tx EXCEPT ![t] = None]
    /\ UNCHANGED opened

Fail(t, why) ==
    /\ End(t)
    /\ failed' = failed \cup {why}
    /\ UNCHANGED <<rows, confirmed>>

Goto(t, next) ==
    /\ tx' = [tx EXCEPT ![t] = next]
    /\ UNCHANGED <<rows, holder, opened, history>>

(* WithAuthIdentityTx tries again from the start, in a new transaction.    *)
Retry(t, why) ==
    IF tx[t].attempt < MaxAttempts
    THEN /\ tx' = [tx EXCEPT ![t] =
                    Started([tx[t] EXCEPT !.attempt = @ + 1, !.targets = {}])]
         /\ Release(t)
         /\ UNCHANGED <<rows, opened, history>>
    ELSE Fail(t, why)

-----------------------------------------------------------------------------
(* AuthorizationStore::Bind                                                *)

Bind(t, k, u) == Open(t, Started(NewTx("bind", "start", <<>>, k, None, u)))

(* A key that is gone is refused; keys here are permanent, users are not    *)
(* deleted.                                                                *)
BindRead(t) ==
    /\ At(t, {"bind"}, "read")
    /\ IF tx[t].key \in auth_keys
       THEN Goto(t, [tx[t] EXCEPT !.pc = "commit", !.floor = retained[tx[t].user]])
       ELSE End(t) /\ UNCHANGED <<rows, history>>

(* The cursor starts at the retained floor, or stays where it was beyond   *)
(* it; a cursor of another user is deleted.                                *)
BindCommit(t) ==
    LET k == tx[t].key
        u == tx[t].user
        old == update_states[k]
        observed == IF old # None /\ old.user = u /\ old.observed > tx[t].floor
                    THEN old.observed ELSE tx[t].floor
    IN
    /\ At(t, {"bind"}, "commit")
    /\ update_states' = [update_states EXCEPT ![k] = [user |-> u, observed |-> observed]]
    /\ authorizations' = [authorizations EXCEPT ![k] = u]
    /\ End(t)
    /\ UNCHANGED <<auth_keys, bindings, contiguous_pts, retained, history>>

-----------------------------------------------------------------------------
(* RevokeByHash (key is the one the hash names) and RevokeByUserExcept      *)
(* (keep is kept).                                                         *)

RevokeByHash(t, k, u) ==
    Open(t, Started(NewTx("revoke", "start", <<>>, None, k, u)))

RevokeByUserExcept(t, keep, u) ==
    Open(t, Started(NewTx("revoke", "start", <<>>, keep, None, u)))

(* A mutation: the candidates are deleted as they were first read.         *)
Revalidated_Stale(x) == x.targets

(* Read again under the locks: keys that changed owner are omitted.        *)
Revalidated(x) == x.targets \cap Selected(x) \cap auth_keys

RevokeCommit(t) ==
    LET ks == Revalidated(tx[t]) IN
    /\ At(t, {"revoke"}, "commit")
    /\ update_states' = [k \in PermKeys |-> IF k \in ks THEN None ELSE update_states[k]]
    /\ authorizations' = [k \in PermKeys |-> IF k \in ks THEN None ELSE authorizations[k]]
    /\ End(t)
    /\ UNCHANGED <<auth_keys, bindings, contiguous_pts, retained, history>>

(* Transactions of one statement, which take no lock but those of the      *)
(* authorizations they delete: the cursors of the keys stay.               *)
DeleteAuthorizations(ks) ==
    /\ opened < MaxTxs
    /\ opened' = opened + 1
    /\ \E k \in ks : authorizations[k] # None
    /\ authorizations' = [k \in PermKeys |-> IF k \in ks THEN None ELSE authorizations[k]]
    /\ UNCHANGED <<auth_keys, bindings, update_states, contiguous_pts, retained,
                   holder, tx, history>>

(* AuthorizationStore::Delete                                              *)
Logout(k) == DeleteAuthorizations({k})

DeleteByHash(k, u) == authorizations[k] = u /\ DeleteAuthorizations({k})

(* The rows that match when it commits; those among them that did not when *)
(* the statement started, and read the table, stay.                        *)
DeleteByUserExcept(keep, u) ==
    \E ks \in SUBSET {k \in PermKeys \ {keep} : authorizations[k] = u} :
        DeleteAuthorizations(ks)

-----------------------------------------------------------------------------
(* AuthKeyStore::Delete with LockRawAuthKeyInIdentityOrder.                *)

Delete(t, k) == Open(t, Started(NewTx("delete", "start", <<>>, k, None, None)))

(* Under the row lock: gone, no longer what the hint said, or, if bound,    *)
(* the permanent row is locked too.                                        *)
DeleteRecheck(t) ==
    LET k == tx[t].key IN
    /\ At(t, {"delete"}, "recheck")
    /\ \/ /\ k \notin auth_keys
          /\ End(t) /\ UNCHANGED <<rows, history>>
       \/ /\ k \in auth_keys /\ IsBound(k) # tx[t].bound
          /\ Retry(t, "unstable")
       \/ /\ k \in auth_keys /\ IsBound(k) = tx[t].bound
          /\ Goto(t, [tx[t] EXCEPT !.pc = "doom",
                        !.todo = IF tx[t].bound THEN <<KeyLock(tx[t].perm)>> ELSE <<>>])

(* A mutation: the temporary keys of a permanent one are forgotten.        *)
BoundTo_None(k) == {}

BoundTo(k) == {temp \in TempKeys : bindings[temp] = k}

(* The DELETE takes its snapshot of the temporary keys and locks them.     *)
DeleteDoom(t) ==
    /\ At(t, {"delete"}, "doom")
    /\ Goto(t, [tx[t] EXCEPT !.pc = "commit", !.targets = BoundTo(tx[t].key),
                    !.todo = LockKeys(BoundTo(tx[t].key))])

(* The cursors, the temporary keys, the key; bindings and authorizations    *)
(* cascade.  A binding the snapshot did not see makes the foreign key      *)
(* refuse it.                                                              *)
DeleteCommit(t) ==
    LET k == tx[t].key
        doomed == {k} \cup tx[t].targets
    IN
    /\ At(t, {"delete"}, "commit")
    /\ IF \A temp \in TempKeys : bindings[temp] = k => temp \in tx[t].targets
       THEN /\ auth_keys' = auth_keys \ doomed
            /\ bindings' = [x \in TempKeys |-> IF x \in doomed THEN None ELSE bindings[x]]
            /\ authorizations' = [x \in PermKeys |-> IF x \in doomed THEN None
                                                     ELSE authorizations[x]]
            /\ update_states' = [x \in PermKeys |-> IF x \in doomed THEN None
                                                    ELSE update_states[x]]
            /\ End(t)
            /\ UNCHANGED <<contiguous_pts, retained, history>>
       ELSE Fail(t, "restricted")

-----------------------------------------------------------------------------
(* auth.bindTempAuthKey: LoadBindingKeys, then SaveWithState.              *)

(* One UPDATE of both rows, which locks them in the order it meets them,   *)
(* and takes no identity lock.                                             *)
LoadBindingKeys(t, temp, perm) ==
    \E todo \in {<<KeyLock(temp), KeyLock(perm)>>, <<KeyLock(perm), KeyLock(temp)>>} :
        Open(t, NewTx("load", "commit", todo, temp, perm, None))

(* Both keys are there and the proof is right: a second transaction.       *)
LoadCommit(t) ==
    LET x == tx[t] IN
    /\ At(t, {"load"}, "commit")
    /\ Release(t)
    /\ tx' = [tx EXCEPT ![t] =
                IF {x.key, x.perm} \subseteq auth_keys
                THEN Started(NewTx("save", "start", <<>>, x.key, x.perm, None)) ELSE None]
    /\ UNCHANGED <<rows, opened, history>>

(* The bind_status of telesrv_bind_temp_auth_key.  A key that is bound is   *)
(* refused to a different permanent key only.                              *)
BindStatus(temp, perm) ==
    IF {temp, perm} \subseteq auth_keys
    THEN IF bindings[temp] \in {None, perm} THEN "ok" ELSE "already_bound"
    ELSE "binding_invalid"

(* A mutation: a key that is already bound counts as a success.            *)
Succeeds_AlreadyBound(status) == status \in {"ok", "already_bound"}

(* Every other status is thrown as an error of its own.                    *)
Succeeds(status) == status = "ok"

SaveCommit(t) ==
    LET x == tx[t]
        status == BindStatus(x.key, x.perm)
    IN
    /\ At(t, {"save"}, "commit")
    /\ bindings' = IF status = "ok" THEN [bindings EXCEPT ![x.key] = x.perm] ELSE bindings
    /\ confirmed' = IF Succeeds(status) THEN confirmed \cup {<<x.key, x.perm>>} ELSE confirmed
    /\ End(t)
    /\ UNCHANGED <<auth_keys, authorizations, update_states, contiguous_pts, retained, failed>>

(* layer_invalid or layer_conflict, which depend on layers that are not     *)
(* modelled, or an invalid result: thrown, and rolled back.                *)
SaveRefused(t) ==
    /\ At(t, {"save"}, "commit")
    /\ End(t)
    /\ UNCHANGED <<rows, history>>

-----------------------------------------------------------------------------
(* The update log of other processes: an update is published, a device      *)
(* confirms one, and the pruner deletes what every device has confirmed.   *)

Publish(u) ==
    /\ \A v \in Users : contiguous_pts[v] < MaxPts
    /\ holder[<<"watermark", u>>] = None
    /\ contiguous_pts' = [contiguous_pts EXCEPT ![u] = @ + 1]
    /\ UNCHANGED <<auth_keys, bindings, authorizations, update_states, retained,
                   holder, tx, opened, history>>

Observe(k) ==
    LET u == authorizations[k] IN
    /\ u # None
    /\ update_states[k] # None /\ update_states[k].user = u
    /\ update_states[k].observed < contiguous_pts[u]
    /\ update_states' = [update_states EXCEPT ![k].observed = @ + 1]
    /\ UNCHANGED <<auth_keys, bindings, authorizations, contiguous_pts, retained,
                   holder, tx, opened, history>>

Prune(t, u) ==
    /\ retained[u] < contiguous_pts[u]
    /\ tx[t] = None
    /\ Goto(t, NewTx("prune", "commit", <<<<"watermark", u>>, <<"retention", u>>>>, None, None, u))

PruneCommit(t) ==
    LET u == tx[t].user IN
    /\ At(t, {"prune"}, "commit")
    /\ \E pts \in retained[u] .. contiguous_pts[u] :
        /\ \A k \in PermKeys : authorizations[k] = u => update_states[k].observed >= pts
        /\ retained' = [retained EXCEPT ![u] = pts]
    /\ End(t)
    /\ UNCHANGED <<auth_keys, bindings, authorizations, update_states, contiguous_pts, history>>

-----------------------------------------------------------------------------
(* Deadlocks.                                                              *)

(* Every transaction of S waits for a lock that another one of S holds.    *)
Stuck(S) ==
    /\ S # {}
    /\ \A t \in S : Waiting(t) /\ holder[Head(tx[t].todo)] \in S \ {t}

(* The database finds a cycle, in which each also holds what another waits  *)
(* for, and refuses one statement with 40P01, which WithAuthIdentityTx     *)
(* tries again and LoadBindingKeys does not.                               *)
DeadlockDetected(t) ==
    /\ \E S \in SUBSET Txs :
        /\ t \in S /\ Stuck(S)
        /\ S = {holder[Head(tx[u].todo)] : u \in S}
    /\ IF tx[t].op \in IdentityOps THEN Retry(t, "deadlock") ELSE Fail(t, "deadlock")

-----------------------------------------------------------------------------
Begin(t) ==
    \/ \E k \in PermKeys, u \in Users :
        Bind(t, k, u) \/ RevokeByHash(t, k, u) \/ RevokeByUserExcept(t, k, u)
    \/ \E k \in Keys : Delete(t, k)
    \/ \E temp \in TempKeys, perm \in PermKeys : LoadBindingKeys(t, temp, perm)
    \/ \E u \in Users : Prune(t, u)

Progress(t) ==
    \/ Acquire(t) \/ DeadlockDetected(t)
    \/ BindRead(t) \/ BindCommit(t)
    \/ RevokeCommit(t)
    \/ DeleteRecheck(t) \/ DeleteDoom(t) \/ DeleteCommit(t)
    \/ LoadCommit(t) \/ SaveCommit(t) \/ SaveRefused(t)
    \/ PruneCommit(t)

(* The bound on transactions is reached and all have ended.                *)
Quiet ==
    /\ opened = MaxTxs
    /\ \A t \in Txs : tx[t] = None
    /\ UNCHANGED vars

Next ==
    \/ \E t \in Txs : Begin(t) \/ Progress(t)
    \/ \E k \in PermKeys : Logout(k) \/ Observe(k)
    \/ \E k \in PermKeys, u \in Users : DeleteByHash(k, u) \/ DeleteByUserExcept(k, u)
    \/ \E u \in Users : Publish(u)
    \/ Quiet

Spec == Init /\ [][Next]_vars

-----------------------------------------------------------------------------
(* Properties.                                                             *)

(* "Bind/delete/revoke can never deadlock against each other by locking    *)
(* the same permanent identity in opposite orders": no set of transactions *)
(* of WithAuthIdentityTx waits for itself, even when hashes collide.       *)
(* LoadBindingKeys is not one of them, and may be part of a deadlock.      *)
IdentityTxsNeverDeadlock ==
    \A S \in SUBSET {t \in Txs : Waiting(t) /\ tx[t].op \in IdentityOps} : ~Stuck(S)

(* "Keys that changed owner while waiting are omitted and stay intact": a  *)
(* revocation deletes no authorization of another user, although it found  *)
(* its candidates before it had to wait for their locks.                   *)
RevokesOwnOnly ==
    [][\A t \in Txs, k \in PermKeys :
         At(t, {"revoke"}, "commit") /\ tx'[t] = None /\ authorizations[k] # None
            /\ authorizations'[k] = None => authorizations[k] = tx[t].user]_vars

(* "A new authorization's observed baseline and the retained floor never   *)
(* commit across each other into a silent gap": a device that is logged in *)
(* has a cursor of that user, and no update after its cursor was deleted.  *)
NoSilentGap ==
    \A k \in PermKeys :
        authorizations[k] # None =>
            /\ update_states[k] # None
            /\ update_states[k].user = authorizations[k]
            /\ retained[authorizations[k]] <= update_states[k].observed

(* Deleting a permanent key never runs into the foreign key of a binding   *)
(* that was made meanwhile, and a key's identity never changes so often    *)
(* that a deletion gives up; no binding or authorization is left behind.   *)
DeletionComplete ==
    /\ failed \cap {"restricted", "unstable"} = {}
    /\ \A temp \in TempKeys :
        bindings[temp] # None => {temp, bindings[temp]} \subseteq auth_keys
    /\ \A k \in PermKeys : authorizations[k] # None => k \in auth_keys

(* A client that was answered ok, lost the answer and repeats the call is  *)
(* answered ok again, and its binding still stands, as long as both keys   *)
(* are there: whatever is bound, deleted, revoked or retried meanwhile.    *)
RepeatedBindAccepted ==
    \A temp \in TempKeys, perm \in PermKeys :
        <<temp, perm>> \in confirmed /\ {temp, perm} \subseteq auth_keys =>
            bindings[temp] = perm /\ Succeeds(BindStatus(temp, perm))
=============================================================================
