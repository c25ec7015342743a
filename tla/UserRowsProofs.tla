--------------------------- MODULE UserRowsProofs ---------------------------
(***************************************************************************)
(* Proofs about UserRows, for every set of users and processes, every      *)
(* limit of a sweep and every bound on the clock.                          *)
(***************************************************************************)
EXTENDS UserRows, TLAPS

(* The steps of a process on the row of u, one per operation.              *)
LEMMA NextCases ==
    ASSUME NEW P,
           Tick => P,
           \A u \in Users : DeleteAccount(u) => P,
           \A p \in Processes, u \in Users :
               /\ \A value \in {0, 1} : SetShown(p, u, value) => P
               /\ SetPremiumUntil(p, u) => P
               /\ SetScamFake(p, u) => P
               /\ UpdateStatus(p, u) => P
               /\ UpdateBirthday(p, u) => P,
           \A p \in Processes :
               /\ UpdateLastSeen(p) => P
               /\ WriteBirthday(p) => P
               /\ Fails(p) => P
               /\ SweepExpiredPremium(p) => P
               /\ SweepUpdate(p) => P
    PROVE  Next => P
<1> SUFFICES ASSUME Next PROVE P
    OBVIOUS
<1>1. ASSUME NEW p \in Processes, NEW u \in Users, Update(p, u) PROVE P
  <2>1. CASE \/ SetVerified(p, u) \/ SetSupport(p, u) \/ UpdatePersonalChannel(p, u)
             \/ UpdateColor(p, u) \/ UpdateEmojiStatus(p, u)
      BY <2>1 DEF SetVerified, SetSupport, UpdatePersonalChannel, UpdateColor, UpdateEmojiStatus
  <2> QED
      BY <1>1, <2>1 DEF Update
<1> QED
    BY <1>1 DEF Next
-----------------------------------------------------------------------------
(* Rows, clocks and running operations keep their types.                   *)
LEMMA InitTypeOK == Init => TypeOK
BY UserRowsConstants DEF Init, TypeOK, User, NewUser, Times

(* A row with another last_seen_at, shown or premium_until is a row.       *)
LEMMA EditedRow ==
    ASSUME NEW row \in User
    PROVE  /\ \A at \in 0 .. MaxTime : [row EXCEPT !.last_seen_at = at] \in User
           /\ \A value \in {0, 1} : [row EXCEPT !.shown = value] \in User
           /\ [row EXCEPT !.premium_until = 0] \in User
BY UserRowsConstants DEF User

(* Writing a row over one of them.                                         *)
LEMMA WrittenTypeOK ==
    ASSUME users \in [Users -> User], NEW u \in Users, NEW row \in User, Written(u, row)
    PROVE  users' \in [Users -> User]
BY DEF Written

(* A step writes rows of the right type.                                   *)
LEMMA NextTypeOK == TypeOK /\ [Next]_vars => TypeOK'
<1> SUFFICES ASSUME TypeOK, [Next]_vars PROVE TypeOK'
    OBVIOUS
<1>a. /\ users \in [Users -> User] /\ now \in Times
      /\ operation \in [Processes -> Operation \cup {None}]
      /\ granted \in [Users -> 0 .. MaxTime] /\ raced \subseteq Users
    BY DEF TypeOK
<1>b. MaxTime \in Nat \ {0} /\ Times = 1 .. MaxTime
    BY UserRowsConstants DEF Times
<1>1. CASE Tick
    BY <1>1, <1>a, <1>b DEF Tick, TypeOK
<1>2. ASSUME NEW u \in Users, DeleteAccount(u) PROVE TypeOK'
    BY <1>2, <1>a DEF DeleteAccount, TypeOK, Written, User
<1>3. ASSUME NEW p \in Processes, NEW u \in Users PROVE
        /\ \A value \in {0, 1} : SetShown(p, u, value) => TypeOK'
        /\ SetScamFake(p, u) => TypeOK'
    BY <1>a DEF SetShown, SetScamFake, TypeOK, Written, User
<1>4. ASSUME NEW p \in Processes, NEW u \in Users, SetPremiumUntil(p, u) PROVE TypeOK'
    BY <1>4, <1>a DEF SetPremiumUntil, TypeOK, Written, User
<1>6. ASSUME NEW p \in Processes, NEW u \in Users PROVE
        /\ UpdateStatus(p, u) => TypeOK'
        /\ UpdateBirthday(p, u) => TypeOK'
    BY <1>a DEF UpdateStatus, UpdateBirthday, TypeOK, Operation
<1>7. ASSUME NEW p \in Processes PROVE
        /\ UpdateLastSeen(p) => TypeOK'
        /\ WriteBirthday(p) => TypeOK'
  <2>1. ASSUME UpdateLastSeen(p) PROVE TypeOK'
    <3>1. /\ operation[p] \in Operation /\ operation[p].op = "status"
          /\ operation[p].user \in Users /\ operation[p].at \in Times
        BY <2>1, <1>a, NoneIsNoOperation DEF UpdateLastSeen, Doing, Operation
    <3>2. LastSeen(users[operation[p].user], operation[p].at) \in 0 .. MaxTime
        BY <3>1, <1>a, <1>b DEF LastSeen, User
    <3>3. [users[operation[p].user] EXCEPT !.last_seen_at =
             LastSeen(users[operation[p].user], operation[p].at)] \in User
      <4>1. users[operation[p].user] \in User
          BY <3>1, <1>a
      <4> QED
          BY <4>1, <3>2, EditedRow, Zenon
    <3>4. users' \in [Users -> User]
        BY <2>1, <3>1, <3>3, <1>a, WrittenTypeOK, Zenon DEF UpdateLastSeen
    <3> QED
        BY <2>1, <3>4, <1>a DEF UpdateLastSeen, TypeOK
  <2>2. ASSUME WriteBirthday(p) PROVE TypeOK'
    <3>1. /\ operation[p] \in Operation /\ operation[p].op = "birthday"
          /\ operation[p].user \in Users /\ operation[p].value \in {0, 1}
        BY <2>2, <1>a, NoneIsNoOperation DEF WriteBirthday, Doing, Operation
    <3>2. [users[operation[p].user] EXCEPT !.shown = operation[p].value] \in User
      <4>1. users[operation[p].user] \in User
          BY <3>1, <1>a
      <4> QED
          BY <4>1, <3>1, EditedRow, Zenon
    <3>3. users' \in [Users -> User]
        BY <2>2, <3>1, <3>2, <1>a, WrittenTypeOK, Zenon DEF WriteBirthday
    <3> QED
        BY <2>2, <3>3, <1>a DEF WriteBirthday, TypeOK
  <2> QED
      BY <2>1, <2>2
<1>8. ASSUME NEW p \in Processes PROVE
        /\ Fails(p) => TypeOK'
        /\ SweepExpiredPremium(p) => TypeOK'
        /\ SweepUpdate(p) => TypeOK'
  <2>1. ASSUME Fails(p) \/ SweepExpiredPremium(p) PROVE TypeOK'
      BY <2>1, <1>a DEF Fails, SweepExpiredPremium, TypeOK, Operation
  <2>2. ASSUME SweepUpdate(p) PROVE TypeOK'
    <3>1. \A u \in Users : [users[u] EXCEPT !.premium_until = 0] \in User
        BY <1>a, EditedRow
    <3>2. users' \in [Users -> User]
        BY <2>2, <3>1, <1>a DEF SweepUpdate
    <3> QED
        BY <2>2, <3>2, <1>a DEF SweepUpdate, TypeOK
  <2> QED
      BY <2>1, <2>2
<1>9. CASE UNCHANGED vars
    BY <1>9 DEF vars, TypeOK
<1> QED
    BY <1>1, <1>2, <1>3, <1>4, <1>6, <1>7, <1>8, <1>9, NextCases

(* The row of a user always has the columns that the schema gives it.      *)
THEOREM TypeCorrect == Spec => []TypeOK
BY InitTypeOK, NextTypeOK, PTL DEF Spec
-----------------------------------------------------------------------------
(* One row is written, the others are kept.                                *)
LEMMA RowWritten ==
    ASSUME TypeOK, NEW u \in Users, NEW row, Written(u, row)
    PROVE  /\ users'[u] = row
           /\ \A v \in Users : v # u => users'[v] = users[v]
BY DEF TypeOK, Written

-----------------------------------------------------------------------------
(* The stored premium is the last grant, or was cleared after its end; and *)
(* a grant that a running sweep will clear has ended, unless it was made   *)
(* after the sweep's sub-select.                                           *)
PremiumKept(u) ==
    \/ users[u].premium_until = granted[u]
    \/ users[u].premium_until = 0 /\ granted[u] <= now

SweepsEnded ==
    \A p \in Processes : Doing(p, "sweep") =>
        \A u \in operation[p].found \ raced : granted[u] <= now

PremiumInv == (\A u \in Users \ raced : PremiumKept(u)) /\ SweepsEnded

(* Nothing of what the invariant is about changes.                         *)
LEMMA PremiumUntouched ==
    ASSUME TypeOK, PremiumInv,
           \A u \in Users : users'[u].premium_until = users[u].premium_until,
           UNCHANGED <<granted, raced>>,
           now' \in Times, now <= now',
           \A p \in Processes :
               \/ operation'[p] \in {operation[p], None}
               \/ operation'[p] # None /\ operation'[p].op # "sweep"
    PROVE  PremiumInv'
<1>a. now \in Nat /\ now' \in Nat /\ \A u \in Users : granted[u] \in Nat
    BY UserRowsConstants DEF TypeOK, Times
<1>1. ASSUME NEW u \in Users \ raced' PROVE PremiumKept(u)'
    BY <1>a DEF PremiumInv, PremiumKept
<1>2. ASSUME NEW p \in Processes, Doing(p, "sweep")', NEW u \in operation'[p].found \ raced'
      PROVE  granted'[u] <= now'
  <2>1. operation'[p] = operation[p] /\ operation[p] # None /\ operation[p].op = "sweep"
      BY <1>2 DEF Doing
  <2>2. u \in Users
      BY <1>2, <2>1, NoneIsNoOperation DEF TypeOK, Operation
  <2>3. granted[u] <= now
      BY <1>2, <2>1 DEF PremiumInv, SweepsEnded, Doing
  <2> QED
      BY <1>a, <2>2, <2>3
<1> QED
    BY <1>1, <1>2 DEF PremiumInv, SweepsEnded

(* A row is written that keeps its premium.                                *)
LEMMA PremiumRowKept ==
    ASSUME TypeOK, PremiumInv, NEW u \in Users, NEW row, Written(u, row),
           row.premium_until = users[u].premium_until,
           UNCHANGED <<now, granted, raced>>,
           \A p \in Processes : operation'[p] \in {operation[p], None}
    PROVE  PremiumInv'
<1>1. \A v \in Users : users'[v].premium_until = users[v].premium_until
    BY RowWritten
<1>2. now' \in Times /\ now <= now'
    BY UserRowsConstants DEF TypeOK, Times
<1> QED
    BY <1>1, <1>2, PremiumUntouched

(* No sweep runs and premium is as granted at start-up.                    *)
LEMMA InitPremiumInv == Init => PremiumInv
BY DEF Init, PremiumInv, PremiumKept, SweepsEnded, NewUser, Doing

(* A grant made while a sweep holds the user's id is marked raced; any     *)
(* other is the stored one, and no sweep holds it.                         *)
LEMMA GrantKeepsPremiumInv ==
    ASSUME TypeOK, PremiumInv, NEW p \in Processes, NEW u \in Users, SetPremiumUntil(p, u)
    PROVE  PremiumInv'
<1>a. /\ users \in [Users -> User] /\ granted \in [Users -> 0 .. MaxTime]
      /\ raced \subseteq Users
    BY DEF TypeOK
<1>b. UNCHANGED <<now, operation>>
    BY DEF SetPremiumUntil
<1>c. PICK until \in 0 .. MaxTime :
        /\ Written(u, [users[u] EXCEPT !.premium_until = until])
        /\ granted' = [granted EXCEPT ![u] = until]
    BY DEF SetPremiumUntil
<1>d. /\ users'[u].premium_until = until
      /\ \A v \in Users : v # u => users'[v] = users[v] /\ granted'[v] = granted[v]
      /\ granted'[u] = until
    BY <1>a, <1>c, RowWritten DEF User
<1>e. \A v \in Users : v # u => (v \in raced' <=> v \in raced)
    BY DEF SetPremiumUntil
<1>1. ASSUME NEW v \in Users \ raced' PROVE PremiumKept(v)'
  <2>1. CASE v = u
      BY <2>1, <1>d DEF PremiumKept
  <2>2. CASE v # u
      BY <1>1, <2>2, <1>b, <1>d, <1>e DEF PremiumInv, PremiumKept
  <2> QED
      BY <2>1, <2>2
<1>2. ASSUME NEW q \in Processes, Doing(q, "sweep")', NEW v \in operation'[q].found \ raced'
      PROVE  granted'[v] <= now'
  <2>1. Doing(q, "sweep") /\ v \in operation[q].found
      BY <1>2, <1>b DEF Doing
  <2>2. v \in Users
      BY <2>1, NoneIsNoOperation DEF TypeOK, Operation, Doing
  <2>3. CASE v = u
      BY <1>2, <2>1, <2>3 DEF SetPremiumUntil
  <2>4. CASE v # u
      BY <1>2, <2>1, <2>2, <2>4, <1>b, <1>d, <1>e DEF PremiumInv, SweepsEnded
  <2> QED
      BY <2>3, <2>4
<1> QED
    BY <1>1, <1>2 DEF PremiumInv, SweepsEnded

(* The sub-select finds users whose grant has ended.                       *)
LEMMA SelectKeepsPremiumInv ==
    ASSUME TypeOK, PremiumInv, NEW p \in Processes, SweepExpiredPremium(p)
    PROVE  PremiumInv'
<1>1. PICK found \in SUBSET Users :
        /\ found \subseteq {u \in Users : Expired(users[u])}
        /\ operation' = [operation EXCEPT ![p] = [op |-> "sweep", found |-> found]]
    BY DEF SweepExpiredPremium, FirstExpired
<1>2. UNCHANGED <<users, now, granted, raced>>
    BY DEF SweepExpiredPremium
<1>3. ASSUME NEW u \in Users \ raced' PROVE PremiumKept(u)'
    BY <1>2, <1>3 DEF PremiumInv, PremiumKept
<1>4. ASSUME NEW u \in found \ raced PROVE granted[u] <= now
  <2>1. u \in Users /\ users[u].premium_until # 0 /\ users[u].premium_until <= now
      BY <1>1, <1>4 DEF Expired
  <2> QED
      BY <2>1, <1>4 DEF PremiumInv, PremiumKept
<1>5. ASSUME NEW q \in Processes, Doing(q, "sweep")', NEW v \in operation'[q].found \ raced'
      PROVE  granted'[v] <= now'
  <2>1. CASE q = p
    <3>1. operation'[p].found = found
        BY <1>1 DEF TypeOK
    <3> QED
        BY <1>2, <1>4, <1>5, <2>1, <3>1
  <2>2. CASE q # p
    <3>1. operation'[q] = operation[q]
        BY <1>1, <2>2 DEF TypeOK
    <3> QED
        BY <1>2, <1>5, <3>1 DEF PremiumInv, SweepsEnded, Doing
  <2> QED
      BY <2>1, <2>2
<1> QED
    BY <1>3, <1>5 DEF PremiumInv, SweepsEnded

(* The update of a sweep clears grants that have ended, or raced ones.     *)
LEMMA SweepKeepsPremiumInv ==
    ASSUME TypeOK, PremiumInv, NEW p \in Processes, SweepUpdate(p)
    PROVE  PremiumInv'
<1>1. UNCHANGED <<now, granted, raced>> /\ Doing(p, "sweep")
      /\ operation' = [operation EXCEPT ![p] = None]
    BY DEF SweepUpdate
<1>2. ASSUME NEW u \in Users
      PROVE  \/ u \in operation[p].found /\ users'[u].premium_until = 0
             \/ users'[u] = users[u]
  <2>1. users[u] \in User
      BY DEF TypeOK
  <2>2. [users[u] EXCEPT !.premium_until = 0].premium_until = 0
      BY <2>1 DEF User
  <2> QED
      BY <2>2 DEF SweepUpdate
<1>3. ASSUME NEW u \in Users \ raced' PROVE PremiumKept(u)'
    BY <1>1, <1>2, <1>3 DEF PremiumInv, PremiumKept, SweepsEnded
<1>4. ASSUME NEW q \in Processes, Doing(q, "sweep")', NEW v \in operation'[q].found \ raced'
      PROVE  granted'[v] <= now'
  <2>1. operation'[q] = operation[q]
      BY <1>1, <1>4 DEF TypeOK, Doing
  <2> QED
      BY <1>1, <1>4, <2>1 DEF PremiumInv, SweepsEnded, Doing
<1> QED
    BY <1>3, <1>4 DEF PremiumInv, SweepsEnded

(* Every step keeps premium as granted, for users no sweep raced with.     *)
LEMMA NextPremiumInv == TypeOK /\ PremiumInv /\ [Next]_vars => PremiumInv'
<1> SUFFICES ASSUME TypeOK, PremiumInv, [Next]_vars PROVE PremiumInv'
    OBVIOUS
<1>a. /\ users \in [Users -> User] /\ now \in Times /\ Times \subseteq Int
      /\ operation \in [Processes -> Operation \cup {None}]
    BY DEF TypeOK, Times
<1>1. CASE Tick
  <2>1. now' \in Times /\ now <= now'
      BY <1>1, <1>a, UserRowsConstants DEF Tick, Times
  <2> QED
      BY <1>1, <2>1, PremiumUntouched DEF Tick
<1>2. ASSUME NEW u \in Users, DeleteAccount(u) PROVE PremiumInv'
    BY <1>2, <1>a, PremiumRowKept DEF DeleteAccount, User
<1>3. ASSUME NEW p \in Processes, NEW u \in Users PROVE
        /\ \A value \in {0, 1} : SetShown(p, u, value) => PremiumInv'
        /\ SetScamFake(p, u) => PremiumInv'
    BY <1>a, PremiumRowKept DEF SetShown, SetScamFake, User
<1>5. ASSUME NEW p \in Processes, NEW u \in Users,
             UpdateStatus(p, u) \/ UpdateBirthday(p, u)
      PROVE  PremiumInv'
  <2>1. operation'[p] # None /\ operation'[p].op # "sweep"
        /\ \A q \in Processes : q # p => operation'[q] = operation[q]
    <3>1. PICK o \in Operation : o.op # "sweep" /\ operation' = [operation EXCEPT ![p] = o]
        BY <1>5, <1>a DEF UpdateStatus, UpdateBirthday, Operation
    <3> QED
        BY <1>a, <3>1, NoneIsNoOperation
  <2> QED
      BY <1>5, <1>a, <2>1, PremiumUntouched DEF UpdateStatus, UpdateBirthday
<1>6. ASSUME NEW p \in Processes, UpdateLastSeen(p) \/ WriteBirthday(p) \/ Fails(p)
      PROVE  PremiumInv'
  <2>1. \A q \in Processes : operation'[q] \in {operation[q], None}
      BY <1>6, <1>a DEF UpdateLastSeen, WriteBirthday, Fails
  <2>2. Doing(p, "status") \/ Doing(p, "birthday") => operation[p].user \in Users
      BY <1>a, NoneIsNoOperation DEF Doing, Operation
  <2>3. CASE UNCHANGED users
      BY <1>6, <1>a, <2>1, <2>3, PremiumUntouched DEF UpdateLastSeen, WriteBirthday, Fails
  <2>4. CASE users' # users
      BY <1>6, <1>a, <2>1, <2>2, <2>4, PremiumRowKept
         DEF UpdateLastSeen, WriteBirthday, Fails, User
  <2> QED
      BY <2>3, <2>4
<1>7. CASE UNCHANGED vars
    BY <1>7, <1>a, PremiumUntouched DEF vars
<1> QED
    BY <1>1, <1>2, <1>3, <1>5, <1>6, <1>7, GrantKeepsPremiumInv,
       SelectKeepsPremiumInv, SweepKeepsPremiumInv, NextCases

(* Clients are shown premium exactly while the last grant lasts, however   *)
(* many sweeps run and wherever they are interrupted, unless the grant was *)
(* made between a sweep's sub-select and its update.                       *)
THEOREM PremiumServedAsGranted == Spec => []ServedAsGranted
<1>1. TypeOK /\ PremiumInv => ServedAsGranted
  <2> SUFFICES ASSUME TypeOK, PremiumInv, NEW u \in Users \ raced
               PROVE  EncodeUser(users[u], now) <=> Live(u) /\ granted[u] > now
      BY DEF ServedAsGranted
  <2>1. users[u].premium_until \in Nat /\ granted[u] \in Nat /\ now \in Nat
      BY UserRowsConstants DEF TypeOK, User, Times
  <2>2. EncodeUser(users[u], now) <=> Live(u) /\ PremiumActiveAt(users[u], now)
      BY DEF EncodeUser, RowToUser, NewUser, Live
  <2>3. PremiumKept(u)
      BY DEF PremiumInv
  <2> QED
      BY <2>1, <2>2, <2>3 DEF PremiumKept, PremiumActiveAt
<1> QED
    BY <1>1, InitTypeOK, NextTypeOK, InitPremiumInv, NextPremiumInv, PTL DEF Spec
-----------------------------------------------------------------------------
(* What a step may do to the row of v: write it, while it is not deleted   *)
(* and without moving last_seen_at back; or mark it, or clear its premium. *)
RowMoves(v) ==
    /\ users'[v].last_seen_at >= users[v].last_seen_at
    /\ users[v].deleted =>
        \/ users'[v] = users[v]
        \/ \E m \in {"none", "scam", "fake"} : users'[v] = [users[v] EXCEPT !.mark = m]
        \/ users'[v] = [users[v] EXCEPT !.premium_until = 0]

(* A row that is kept moves.                                               *)
LEMMA KeptMoves ==
    ASSUME TypeOK, NEW v \in Users, users'[v] = users[v]
    PROVE  RowMoves(v)
<1>1. users[v].last_seen_at \in Int
    BY DEF TypeOK, User
<1> QED
    BY <1>1 DEF RowMoves

(* Rows that are not deleted may be written, if last_seen_at grows.        *)
LEMMA LiveWriteMoves ==
    ASSUME TypeOK, NEW u \in Users, Live(u), NEW row, Written(u, row),
           row.last_seen_at >= users[u].last_seen_at, NEW v \in Users
    PROVE  RowMoves(v)
<1>1. CASE v = u
    BY <1>1, RowWritten DEF Live, RowMoves
<1>2. CASE v # u
    BY <1>2, RowWritten, KeptMoves
<1> QED
    BY <1>1, <1>2

(* Every step moves each row as RowMoves says.                             *)
LEMMA NextMoves ==
    ASSUME TypeOK, [Next]_vars, NEW v \in Users
    PROVE  RowMoves(v)
<1>a. /\ users \in [Users -> User]
      /\ operation \in [Processes -> Operation \cup {None}]
      /\ \A u \in Users : users[u].last_seen_at \in Int
    BY DEF TypeOK, User
<1>b. ASSUME UNCHANGED users PROVE RowMoves(v)
    BY <1>b, KeptMoves
<1>1. CASE Tick
    BY <1>1, <1>b DEF Tick
<1>2. ASSUME NEW u \in Users, DeleteAccount(u) PROVE RowMoves(v)
  <2>1. [users[u] EXCEPT !.deleted = TRUE].last_seen_at >= users[u].last_seen_at
      BY <1>a DEF User
  <2> QED
      BY <1>2, <2>1, LiveWriteMoves DEF DeleteAccount
<1>3. ASSUME NEW p \in Processes, NEW u \in Users, NEW value \in {0, 1}, SetShown(p, u, value)
      PROVE  RowMoves(v)
  <2>1. [users[u] EXCEPT !.shown = value].last_seen_at >= users[u].last_seen_at
      BY <1>a DEF User
  <2> QED
      BY <1>3, <2>1, LiveWriteMoves DEF SetShown
<1>4. ASSUME NEW p \in Processes, NEW u \in Users, SetPremiumUntil(p, u) PROVE RowMoves(v)
  <2>1. PICK until \in 0 .. MaxTime : Written(u, [users[u] EXCEPT !.premium_until = until])
      BY <1>4 DEF SetPremiumUntil
  <2>2. [users[u] EXCEPT !.premium_until = until].last_seen_at >= users[u].last_seen_at
      BY <1>a DEF User
  <2> QED
      BY <1>4, <2>1, <2>2, LiveWriteMoves DEF SetPremiumUntil
<1>5. ASSUME NEW p \in Processes, NEW u \in Users, SetScamFake(p, u) PROVE RowMoves(v)
  <2>1. PICK m \in {"none", "scam", "fake"} : Written(u, [users[u] EXCEPT !.mark = m])
    <3>1. PICK scam \in BOOLEAN, fake \in BOOLEAN :
            Written(u, [users[u] EXCEPT !.mark =
                         IF scam THEN "scam" ELSE IF fake THEN "fake" ELSE "none"])
        BY <1>5 DEF SetScamFake
    <3> QED
        BY <3>1, Zenon
  <2>2. CASE v = u
    <3>1. users'[v] = [users[v] EXCEPT !.mark = m]
        BY <2>1, <2>2, RowWritten
    <3>2. users'[v].last_seen_at >= users[v].last_seen_at
        BY <3>1, <1>a DEF User
    <3> QED
        BY <2>1, <3>1, <3>2 DEF RowMoves
  <2>3. CASE v # u
      BY <2>1, <2>3, RowWritten, KeptMoves
  <2> QED
      BY <2>2, <2>3
<1>7. ASSUME NEW p \in Processes, NEW u \in Users,
             UpdateStatus(p, u) \/ UpdateBirthday(p, u)
      PROVE  RowMoves(v)
    BY <1>7, <1>b DEF UpdateStatus, UpdateBirthday
<1>8. ASSUME NEW p \in Processes, UpdateLastSeen(p) PROVE RowMoves(v)
  <2>1. PICK u \in Users, at \in Times : operation[p].user = u /\ operation[p].at = at
      BY <1>8, <1>a, NoneIsNoOperation DEF UpdateLastSeen, Doing, Operation
  <2>2. LastSeen(users[u], at) >= users[u].last_seen_at
      BY <1>a DEF LastSeen, Times
  <2>3. [users[u] EXCEPT !.last_seen_at = LastSeen(users[u], at)].last_seen_at
          >= users[u].last_seen_at
      BY <1>a, <2>2 DEF User
  <2>4. CASE Live(u)
    <3>1. Written(u, [users[u] EXCEPT !.last_seen_at = LastSeen(users[u], at)])
        BY <1>8, <2>1, <2>4 DEF UpdateLastSeen
    <3> QED
        BY <2>3, <2>4, <3>1, LiveWriteMoves
  <2>5. CASE ~ Live(u)
      BY <1>8, <1>b, <2>1, <2>5 DEF UpdateLastSeen
  <2> QED
      BY <2>4, <2>5
<1>9. ASSUME NEW p \in Processes, WriteBirthday(p) PROVE RowMoves(v)
  <2>1. PICK u \in Users, value \in {0, 1} : operation[p].user = u /\ operation[p].value = value
      BY <1>9, <1>a, NoneIsNoOperation DEF WriteBirthday, Doing, Operation
  <2>2. [users[u] EXCEPT !.shown = value].last_seen_at >= users[u].last_seen_at
      BY <1>a DEF User
  <2>3. CASE Live(u)
    <3>1. Written(u, [users[u] EXCEPT !.shown = value])
        BY <1>9, <2>1, <2>3 DEF WriteBirthday, BirthdayWritable
    <3> QED
        BY <2>2, <2>3, <3>1, LiveWriteMoves
  <2>4. CASE ~ Live(u)
      BY <1>9, <1>b, <2>1, <2>4 DEF WriteBirthday, BirthdayWritable
  <2> QED
      BY <2>3, <2>4
<1>10. ASSUME NEW p \in Processes, Fails(p) \/ SweepExpiredPremium(p) PROVE RowMoves(v)
    BY <1>10, <1>b DEF Fails, SweepExpiredPremium
<1>11. ASSUME NEW p \in Processes, SweepUpdate(p) PROVE RowMoves(v)
  <2>1. CASE users'[v] = users[v]
      BY <2>1, KeptMoves
  <2>2. CASE users'[v] = [users[v] EXCEPT !.premium_until = 0]
    <3>1. users'[v].last_seen_at >= users[v].last_seen_at
        BY <2>2, <1>a DEF User
    <3> QED
        BY <2>2, <3>1 DEF RowMoves
  <2> QED
      BY <1>11, <2>1, <2>2 DEF SweepUpdate
<1>12. CASE UNCHANGED vars
    BY <1>12, <1>b DEF vars
<1> QED
    BY <1>1, <1>2, <1>3, <1>4, <1>5, <1>7, <1>8, <1>9, <1>10, <1>11, <1>12, NextCases

(* last_seen_at never moves back, in whatever order the updateStatus calls *)
(* of a user's devices reach the database.                                 *)
THEOREM LastSeenNeverMovesBack == Spec => LastSeenMonotone
<1>1. TypeOK /\ [Next]_vars
        => [\A u \in Users : users'[u].last_seen_at >= users[u].last_seen_at]_vars
    BY NextMoves DEF RowMoves
<1> QED
    BY <1>1, InitTypeOK, NextTypeOK, PTL DEF Spec, LastSeenMonotone

(* The row of a deleted user changes no more, except for a moderator's     *)
(* mark and for the premium that a sweep had already found.                *)
THEOREM DeletedRowsStay == Spec => DeletedRowsKept
<1>1. ASSUME TypeOK, [Next]_vars, NEW u \in Users, users[u].deleted
      PROVE  [users'[u] EXCEPT !.mark = users[u].mark,
                               !.premium_until = users[u].premium_until] = users[u]
  <2>1. users[u] \in User
      BY <1>1 DEF TypeOK
  <2>2. PICK row \in User : row = users[u]
      BY <2>1
  <2>3. /\ [row EXCEPT !.mark = row.mark, !.premium_until = row.premium_until] = row
        /\ \A m \in {"none", "scam", "fake"} :
             [[row EXCEPT !.mark = m] EXCEPT !.mark = row.mark,
                                             !.premium_until = row.premium_until] = row
        /\ [[row EXCEPT !.premium_until = 0] EXCEPT !.mark = row.mark,
                                             !.premium_until = row.premium_until] = row
      BY DEF User
  <2>4. \/ users'[u] = row
        \/ \E m \in {"none", "scam", "fake"} : users'[u] = [row EXCEPT !.mark = m]
        \/ users'[u] = [row EXCEPT !.premium_until = 0]
    <3>1. RowMoves(u)
        BY <1>1, NextMoves
    <3> QED
        BY <1>1, <2>2, <3>1, Zenon DEF RowMoves
  <2> QED
      BY <2>2, <2>3, <2>4, Zenon
<1>2. TypeOK /\ [Next]_vars
        => [\A u \in Users : users[u].deleted =>
              [users'[u] EXCEPT !.mark = users[u].mark, !.premium_until = users[u].premium_until]
                  = users[u]]_vars
    BY <1>1, Zenon
<1> QED
    BY <1>2, InitTypeOK, NextTypeOK, PTL DEF Spec, DeletedRowsKept
=============================================================================
