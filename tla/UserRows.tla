------------------------------ MODULE UserRows ------------------------------
(***************************************************************************)
(* The rows of the users table: the operations of UserStore that write     *)
(* them, the account.updateStatus and account.updateBirthday handlers, and *)
(* what EncodeUser shows of a row.                                         *)
(*                                                                         *)
(* Callers run in several processes on one database, each with its own     *)
(* connection.  A statement that updates one row by its id is one step:    *)
(* PostgreSQL checks its WHERE clause again on the row it has waited for.  *)
(* SweepExpiredPremium is two: the users that its sub-select found are     *)
(* updated whatever has happened to their rows since.                      *)
(*                                                                         *)
(* The columns that the server stores and shows but that none of the       *)
(* properties is about (verified, support, the emoji status, the birthday, *)
(* the personal channel, the colors) are one column, "shown".  A call with *)
(* an argument that is refused (an invalid birthday, a collectible emoji   *)
(* status) writes nothing and is no step.  Bots are left out: their rows   *)
(* come from elsewhere.                                                    *)
(***************************************************************************)
EXTENDS Integers, FiniteSets

CONSTANTS
    Users,      \* user ids
    Processes,  \* callers of the store
    MaxTime,    \* bound: the latest time, in seconds
    Limits,     \* numbers of users that a sweep may take
    None        \* no operation under way

ASSUME UserRowsConstants ==
    /\ MaxTime \in Nat \ {0}
    /\ Limits \subseteq Int
    /\ None \notin Users

Times == 1 .. MaxTime

User == [premium_until : 0 .. MaxTime,           \* 0: premium_expires_at is NULL
         mark          : {"none", "scam", "fake"},
         shown         : {0, 1},
         last_seen_at  : 0 .. MaxTime,
         deleted       : BOOLEAN]                \* deleted_at IS NOT NULL

(* What a process is in the middle of: the clock that updateStatus read,    *)
(* the birthday that updateBirthday will write, the users a sweep found.   *)
Operation == [op : {"status"}, user : Users, at : Times]
             \cup [op : {"birthday"}, user : Users, value : {0, 1}]
             \cup [op : {"sweep"}, found : SUBSET Users]

ASSUME NoneIsNoOperation == None \notin Operation

VARIABLES
    users,      \* the users table
    now,        \* the clock of every process
    operation,  \* what each process is in the middle of
    granted,    \* history: the last argument of SetPremiumUntil
    raced       \* history: users whose premium was set while a sweep held them

vars == <<users, now, operation, granted, raced>>

-----------------------------------------------------------------------------
TypeOK ==
    /\ users \in [Users -> User]
    /\ now \in Times
    /\ operation \in [Processes -> Operation \cup {None}]
    /\ granted \in [Users -> 0 .. MaxTime]
    /\ raced \subseteq Users

(* Rows that other processes created.                                      *)
NewUser(premium) ==
    [premium_until |-> premium, mark |-> "none", shown |-> 0, last_seen_at |-> 0,
     deleted |-> FALSE]

Init ==
    /\ granted \in [Users -> 0 .. MaxTime]
    /\ users = [u \in Users |-> NewUser(granted[u])]
    /\ now = 1
    /\ operation = [p \in Processes |-> None]
    /\ raced = {}

Tick ==
    /\ now < MaxTime
    /\ now' = now + 1
    /\ UNCHANGED <<users, operation, granted, raced>>

Idle(p) == operation[p] = None

Doing(p, op) == operation[p] # None /\ operation[p].op = op

-----------------------------------------------------------------------------
(* One-statement updates.  All but the moderation flags leave the row of a *)
(* deleted user alone: the caller gets UserNotFoundError.                  *)

Written(u, row) == users' = [users EXCEPT ![u] = row]

Live(u) == ~ users[u].deleted

SetShown(p, u, value) ==
    /\ Idle(p)
    /\ Live(u)
    /\ Written(u, [users[u] EXCEPT !.shown = value])
    /\ UNCHANGED <<now, operation, granted, raced>>

SetVerified(p, u) == \E verified \in {0, 1} : SetShown(p, u, verified)

SetSupport(p, u) == \E support \in {0, 1} : SetShown(p, u, support)

UpdatePersonalChannel(p, u) == \E channel_id \in {0, 1} : SetShown(p, u, channel_id)

UpdateColor(p, u) == \E color \in {0, 1} : SetShown(p, u, color)

UpdateEmojiStatus(p, u) == \E status \in {0, 1} : SetShown(p, u, status)

SetPremiumUntil(p, u) ==
    /\ Idle(p)
    /\ Live(u)
    /\ \E until \in 0 .. MaxTime :
        /\ Written(u, [users[u] EXCEPT !.premium_until = until])
        /\ granted' = [granted EXCEPT ![u] = until]
    /\ raced' = IF \E q \in Processes : Doing(q, "sweep") /\ u \in operation[q].found
                THEN raced \cup {u} ELSE raced \ {u}
    /\ UNCHANGED <<now, operation>>

(* scam and fake exclude each other.  The row is locked and read first;    *)
(* there is no deleted_at condition.                                       *)
SetScamFake(p, u) ==
    /\ Idle(p)
    /\ \E scam, fake \in BOOLEAN :
        /\ ~ (scam /\ fake)
        /\ Written(u, [users[u] EXCEPT !.mark =
                         IF scam THEN "scam" ELSE IF fake THEN "fake" ELSE "none"])
    /\ UNCHANGED <<now, operation, granted, raced>>

-----------------------------------------------------------------------------
(* account.updateStatus.  The handler reads the clock, then looks up the   *)
(* session's user, then writes.                                            *)

UpdateStatus(p, u) ==
    /\ Idle(p)
    /\ operation' = [operation EXCEPT ![p] = [op |-> "status", user |-> u, at |-> now]]
    /\ UNCHANGED <<users, now, granted, raced>>

(* A mutation: the last writer wins.                                       *)
LastSeen_Overwritten(row, at) == at

LastSeen(row, at) == IF row.last_seen_at > at THEN row.last_seen_at ELSE at

UpdateLastSeen(p) ==
    LET c == operation[p] IN
    /\ Doing(p, "status")
    /\ operation' = [operation EXCEPT ![p] = None]
    /\ IF Live(c.user)
       THEN Written(c.user, [users[c.user] EXCEPT !.last_seen_at = LastSeen(users[c.user], c.at)])
       ELSE UNCHANGED users
    /\ UNCHANGED <<now, granted, raced>>

(* account.updateBirthday, up to users.ByID: a deleted user is still found *)
(* (as a tombstone); 0 is the birthday that clears the stored one.         *)
UpdateBirthday(p, u) ==
    /\ Idle(p)
    /\ \E birthday \in {0, 1} :
        operation' = [operation EXCEPT ![p] = [op |-> "birthday", user |-> u, value |-> birthday]]
    /\ UNCHANGED <<users, now, granted, raced>>

(* A mutation: the update relies on the row that ByID returned.            *)
BirthdayWritable_Checked(u) == TRUE

(* WHERE id = $1 AND deleted_at IS NULL                                    *)
BirthdayWritable(u) == Live(u)

WriteBirthday(p) ==
    LET c == operation[p] IN
    /\ Doing(p, "birthday")
    /\ operation' = [operation EXCEPT ![p] = None]
    /\ IF BirthdayWritable(c.user)
       THEN Written(c.user, [users[c.user] EXCEPT !.shown = c.value])
       ELSE UNCHANGED users
    /\ UNCHANGED <<now, granted, raced>>

(* The handler of p fails: the session has no user, or the database threw. *)
Fails(p) ==
    /\ operation[p] # None
    /\ operation' = [operation EXCEPT ![p] = None]
    /\ UNCHANGED <<users, now, granted, raced>>

-----------------------------------------------------------------------------
(* SweepExpiredPremium.                                                    *)

(* A mutation: premium that ends within the next second is swept too.      *)
Expired_Early(row) == row.premium_until # 0 /\ ~ row.deleted /\ row.premium_until <= now + 1

Expired(row) == row.premium_until # 0 /\ ~ row.deleted /\ row.premium_until <= now

(* The sub-select: the users whose premium ended first, at most limit.     *)
FirstExpired(found, limit) ==
    LET expired == {u \in Users : Expired(users[u])} IN
    /\ found \subseteq expired
    /\ Cardinality(found) = IF Cardinality(expired) < limit THEN Cardinality(expired) ELSE limit
    /\ \A u \in found, v \in expired \ found : users[u].premium_until <= users[v].premium_until

SweepExpiredPremium(p) ==
    /\ Idle(p)
    /\ \E limit \in Limits, found \in SUBSET Users :
        /\ limit > 0
        /\ FirstExpired(found, limit)
        /\ operation' = [operation EXCEPT ![p] = [op |-> "sweep", found |-> found]]
    /\ UNCHANGED <<users, now, granted, raced>>

(* The update.  WHERE id IN (...) compares ids that the sub-select has     *)
(* already produced: a row that was renewed or deleted meanwhile matches.  *)
SweepUpdate(p) ==
    /\ Doing(p, "sweep")
    /\ users' = [u \in Users |-> IF u \in operation[p].found
                                 THEN [users[u] EXCEPT !.premium_until = 0]
                                 ELSE users[u]]
    /\ operation' = [operation EXCEPT ![p] = None]
    /\ UNCHANGED <<now, granted, raced>>

-----------------------------------------------------------------------------
(* Account deletion, by another program on the same database.              *)
DeleteAccount(u) ==
    /\ Live(u)
    /\ Written(u, [users[u] EXCEPT !.deleted = TRUE])
    /\ UNCHANGED <<now, operation, granted, raced>>

Update(p, u) ==
    \/ SetVerified(p, u) \/ SetSupport(p, u)
    \/ UpdatePersonalChannel(p, u) \/ UpdateColor(p, u) \/ UpdateEmojiStatus(p, u)
    \/ SetPremiumUntil(p, u)
    \/ SetScamFake(p, u)
    \/ UpdateStatus(p, u)
    \/ UpdateBirthday(p, u)

Next ==
    \/ Tick
    \/ \E u \in Users : DeleteAccount(u)
    \/ \E p \in Processes :
        \/ \E u \in Users : Update(p, u)
        \/ UpdateLastSeen(p) \/ WriteBirthday(p) \/ Fails(p)
        \/ SweepExpiredPremium(p) \/ SweepUpdate(p)

Spec == Init /\ [][Next]_vars

-----------------------------------------------------------------------------
(* What a client is shown of a row.                                        *)

PremiumActiveAt(row, t) == row.premium_until > 0 /\ row.premium_until > t

(* RowToUser and DeletedTombstone: a deleted user is a row with no data.   *)
RowToUser(row) == IF row.deleted THEN [NewUser(0) EXCEPT !.deleted = TRUE] ELSE row

(* EncodeUser of a user loaded by RowToUser: the flag of premium.          *)
EncodeUser(row, t) ==
    LET user == RowToUser(row) IN ~ user.deleted /\ PremiumActiveAt(user, t)

-----------------------------------------------------------------------------
(* Properties.                                                             *)

(* Clients are shown premium exactly while the last grant lasts and the    *)
(* account is there, whenever sweeps run, unless the grant was made between *)
(* the sub-select and the update of a sweep (which then takes the new      *)
(* premium away).                                                          *)
ServedAsGranted ==
    \A u \in Users \ raced :
        EncodeUser(users[u], now) <=> Live(u) /\ granted[u] > now

(* last_seen_at never moves back, although updateStatus calls of several   *)
(* devices write in another order than they read the clock in.             *)
LastSeenMonotone ==
    [][\A u \in Users : users'[u].last_seen_at >= users[u].last_seen_at]_vars

(* Once a user is deleted the row changes no more, also for a handler that *)
(* had found the user before: only moderators may still mark it, and a     *)
(* sweep that had already found it may clear its premium.                  *)
DeletedRowsKept ==
    [][\A u \in Users : users[u].deleted =>
        [users'[u] EXCEPT !.mark = users[u].mark, !.premium_until = users[u].premium_until]
            = users[u]]_vars
=============================================================================
