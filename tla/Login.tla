------------------------------- MODULE Login -------------------------------
(***************************************************************************)
(* auth.sendCode -> auth.signIn -> auth.signUp: the login handlers of      *)
(* cmd/shuzagram_server/main.cpp, the functions of auth/sign_in.cpp they   *)
(* call, the in-memory CodeStore and the parts of the users and            *)
(* authorizations tables they read and write.                              *)
(*                                                                         *)
(* Every handler holds db_mutex from its first store access to its last.   *)
(* What can still interleave with it is everything outside this process:   *)
(* another process writing the same tables, the webhook, a failing         *)
(* database and a restart.  A handler is therefore one step per database   *)
(* access.  CodeStore is touched only by the holder of db_mutex, so an     *)
(* access to it needs no step of its own unless it decides something.      *)
(*                                                                         *)
(* An early return that changes nothing (an unknown hash, a wrong phone, a *)
(* malformed number or name) is a stuttering step and has no action.       *)
(***************************************************************************)
EXTENDS Naturals

CONSTANTS
    Workers,        \* connection threads of TcpHandshakeServer::Run
    Phones,         \* normalized, valid phone numbers
    Users,          \* user ids
    Hashes,         \* phone_code_hash values; their number bounds the sendCode calls
    Codes,          \* login codes
    FixedCode,      \* the development code used when no webhook is configured
    Keys,           \* auth_key_ids of the connected sessions
    PermKeys,       \* the keys whose auth_keys row has expires_at = 0
    MaxAttempts,    \* PhoneCode::max_attempts
    OtpSender,      \* TRUE iff an OTP webhook is configured
    RacingWriters,  \* TRUE iff another process may write users while a handler runs here
    None            \* no user (id 0), no record, no running handler

ASSUME LoginConstants ==
    /\ FixedCode \in Codes
    /\ PermKeys \subseteq Keys
    /\ MaxAttempts \in Nat \ {0}
    /\ OtpSender \in BOOLEAN
    /\ RacingWriters \in BOOLEAN
    /\ None \notin Workers \cup Phones \cup Users

-----------------------------------------------------------------------------
(* The records.                                                            *)

Owner == Users \cup {None}

PhoneCode == [issued   : Owner,      \* issued_user_id
              verified : BOOLEAN,    \* sign_up_verified
              phone    : Phones,
              code     : Codes,
              attempts : 0 .. MaxAttempts - 1]

Authorization == [user : Users, pending : BOOLEAN]

(* Where a handler stands: the store access it makes next.                 *)
Pcs == {"deliver", "verify", "after", "load", "password", "bind",
        "consume", "recheck", "create"}

(* The arguments and the locals of a running handler.                      *)
Call == [pc       : Pcs,
         key      : Keys \cup {None},
         phone    : Phones,
         hash     : Hashes,
         code     : Codes \cup {None},
         before   : Owner,           \* before_owner
         accepted : BOOLEAN,         \* VerifyLogin returned kAccepted
         user     : Owner,           \* verified.user, or the created user
         pending  : BOOLEAN]         \* password_needed

(* History of one phone_code_hash; no handler reads it.                    *)
LedgerEntry == [used     : BOOLEAN,  \* the hash was issued
                issued   : Owner,    \* to whom
                rejected : BOOLEAN,  \* Deliver threw DeliveryFailedError
                misses   : Nat,      \* wrong codes that VerifyLogin compared
                matched  : BOOLEAN,  \* VerifyLogin accepted the code
                promised : BOOLEAN,  \* authorizationSignUpRequired is outstanding
                created  : Owner,    \* the account signUp created with it
                grants   : Nat,      \* Bind calls that took effect
                grantee  : Owner]    \* the user of the last one

(* "Absent" differs from every record.                                     *)
ASSUME NoneIsNoRecord ==
    /\ None \notin PhoneCode
    /\ None \notin Authorization
    /\ None \notin Call

VARIABLES
    owner,      \* users.ByPhone: the live user of a phone, or None (0)
    rows,       \* ids of the rows of the users table
    deleted,    \* the rows whose deleted_at is set
    password,   \* password_settings.has_password of a user
    codes,      \* CodeStore::codes_
    authz,      \* authorizations, by auth_key_id
    db_mutex,   \* the worker that holds db_mutex, or None
    call,       \* the handler each worker is executing
    ledger      \* history only: what happened to each hash so far

vars == <<owner, rows, deleted, password, codes, authz, db_mutex, call, ledger>>

-----------------------------------------------------------------------------
NewEntry == [used |-> FALSE, issued |-> None, rejected |-> FALSE,
             misses |-> 0, matched |-> FALSE, promised |-> FALSE,
             created |-> None, grants |-> 0, grantee |-> None]

TypeOK ==
    /\ owner \in [Phones -> Owner]
    /\ rows \subseteq Users
    /\ deleted \subseteq rows
    /\ password \in [Users -> BOOLEAN]
    /\ codes \in [Hashes -> PhoneCode \cup {None}]
    /\ authz \in [Keys -> Authorization \cup {None}]
    /\ db_mutex \in Workers \cup {None}
    /\ call \in [Workers -> Call \cup {None}]
    /\ ledger \in [Hashes -> LedgerEntry]

Live == rows \ deleted

(* The table holds any accounts at start-up, at most one per phone; the     *)
(* code store starts empty.                                                *)
Init ==
    /\ owner \in [Phones -> Owner]
    /\ \A p, q \in Phones : owner[p] = owner[q] => p = q \/ owner[p] = None
    /\ rows \in SUBSET Users
    /\ \A p \in Phones : owner[p] \in rows \cup {None}
    /\ deleted = {}
    /\ password \in [Users -> BOOLEAN]
    /\ \A u \in Users \ rows : ~password[u]
    /\ codes = [h \in Hashes |-> None]
    /\ authz = [k \in Keys |-> None]
    /\ db_mutex = None
    /\ call = [w \in Workers |-> None]
    /\ ledger = [h \in Hashes |-> NewEntry]

-----------------------------------------------------------------------------
(* CodeStore.  kMissing cannot occur: the holder of db_mutex has just read  *)
(* the record, and nobody else removes one.                                *)

(* A mutation: an accepted code stays in the store.                        *)
VerifyLogin_KeepsAccepted(rec, code, keep) ==
    IF rec.code # code
    THEN IF rec.attempts + 1 >= MaxAttempts
         THEN None
         ELSE [rec EXCEPT !.attempts = @ + 1]
    ELSE [rec EXCEPT !.verified = keep]

(* A mutation: the record is marked before the code is compared.           *)
VerifyLogin_MarksFirst(rec, code, keep) ==
    IF rec.code # code
    THEN IF rec.attempts + 1 >= MaxAttempts
         THEN None
         ELSE [rec EXCEPT !.attempts = @ + 1, !.verified = keep]
    ELSE IF keep THEN [rec EXCEPT !.verified = TRUE] ELSE None

(* A mutation: the limit is compared with > instead of >=.                 *)
VerifyLogin_OffByOne(rec, code, keep) ==
    IF rec.code # code
    THEN IF rec.attempts + 1 > MaxAttempts
         THEN None
         ELSE [rec EXCEPT !.attempts = @ + 1]
    ELSE IF keep THEN [rec EXCEPT !.verified = TRUE] ELSE None

(* What CodeStore::VerifyLogin leaves in the store for the record it found. *)
VerifyLogin(rec, code, keep) ==
    IF rec.code # code
    THEN IF rec.attempts + 1 >= MaxAttempts
         THEN None
         ELSE [rec EXCEPT !.attempts = @ + 1]
    ELSE IF keep THEN [rec EXCEPT !.verified = TRUE] ELSE None

-----------------------------------------------------------------------------
(* Entering and leaving a handler: lock_guard<mutex> lock(db_mutex).       *)

NewCall(pc, k, p, h, c) ==
    [pc |-> pc, key |-> k, phone |-> p, hash |-> h, code |-> c, before |-> None,
     accepted |-> FALSE, user |-> None, pending |-> FALSE]

Enter(w, c) ==
    /\ db_mutex = None
    /\ db_mutex' = w
    /\ call' = [call EXCEPT ![w] = c]

At(w, pc) == call[w] # None /\ call[w].pc = pc

Continue(w, c) ==
    /\ call' = [call EXCEPT ![w] = c]
    /\ UNCHANGED db_mutex

Leave(w) ==
    /\ db_mutex' = None
    /\ call' = [call EXCEPT ![w] = None]

(* A handler that starts and ends in one step finds the mutex free and     *)
(* leaves it free.                                                         *)
EnterAndLeave ==
    /\ db_mutex = None
    /\ UNCHANGED <<db_mutex, call>>

(* codes.Del(hash)                                                         *)
Del(h) ==
    /\ codes' = [codes EXCEPT ![h] = None]
    /\ ledger' = [ledger EXCEPT ![h].promised = FALSE]

tables == <<owner, rows, deleted, password, authz>>

-----------------------------------------------------------------------------
(* auth.sendCode                                                           *)

(* ByPhone and Set.  RandomHex(8) never repeats a hash.                    *)
Issue(p, h, c) ==
    /\ ~ledger[h].used
    /\ codes' = [codes EXCEPT ![h] =
                    [issued |-> owner[p], verified |-> FALSE, phone |-> p,
                     code |-> c, attempts |-> 0]]
    /\ ledger' = [ledger EXCEPT ![h].used = TRUE, ![h].issued = owner[p]]
    /\ UNCHANGED tables

(* No webhook: the fixed code, nothing to deliver.                         *)
SendFixedCode(w, p, h) ==
    /\ ~OtpSender
    /\ EnterAndLeave
    /\ Issue(p, h, FixedCode)

SendRandomCode(w, p, h, c) ==
    /\ OtpSender
    /\ Enter(w, NewCall("deliver", None, p, h, None))
    /\ Issue(p, h, c)

(* Deliver returns: 204, or 2xx with accepted = true.  A message_id that   *)
(* is not a string makes it throw after the acceptance: the client is told *)
(* INTERNAL and the code stays, so this is the same step.                  *)
Delivered(w) ==
    /\ At(w, "deliver")
    /\ Leave(w)
    /\ UNCHANGED <<tables, codes, ledger>>

(* A mutation: the failure is reported and the code kept.                  *)
DeliveryFailed_Keeps(w) ==
    /\ At(w, "deliver")
    /\ ledger' = [ledger EXCEPT ![call[w].hash].rejected = TRUE]
    /\ Leave(w)
    /\ UNCHANGED <<tables, codes>>

(* Deliver throws DeliveryFailedError: the code is rolled back.  Whether    *)
(* the provider delivered it all the same is not known.                    *)
DeliveryFailed(w) ==
    LET h == call[w].hash IN
    /\ At(w, "deliver")
    /\ codes' = [codes EXCEPT ![h] = None]
    /\ ledger' = [ledger EXCEPT ![h].rejected = TRUE]
    /\ Leave(w)
    /\ UNCHANGED tables

(* A mutation: the exception leaves the handler with the mutex held.       *)
DeliveryThrows_Leaks(w) ==
    /\ At(w, "deliver")
    /\ call' = [call EXCEPT ![w] = None]
    /\ UNCHANGED <<tables, codes, ledger, db_mutex>>

(* Deliver throws another exception: json::value("error_code", string()) of *)
(* a refusal whose error_code is not a string is a json::type_error, which  *)
(* SendCode does not catch: the code that was refused stays usable.        *)
DeliveryThrows(w) ==
    /\ At(w, "deliver")
    /\ Leave(w)
    /\ UNCHANGED <<tables, codes, ledger>>

-----------------------------------------------------------------------------
(* auth.signIn                                                             *)

(* The record VerifyLoginCode goes on with: found, and of this phone.      *)
Found(p, h) == codes[h] # None /\ codes[h].phone = p

(* The phone changed hands since sendCode.                                 *)
SignInStale(w, p, h) ==
    /\ EnterAndLeave
    /\ Found(p, h)
    /\ codes[h].issued # owner[p]
    /\ Del(h)
    /\ UNCHANGED tables

(* signIn again on a hash that already waits for signUp.  before_owner is  *)
(* None here, since it equals issued, and only an unowned phone's code is  *)
(* kept.  A wrong code is refused and changes nothing.                     *)
SignInAgain(w, p, h, c) ==
    /\ EnterAndLeave
    /\ Found(p, h)
    /\ codes[h].issued = owner[p]
    /\ codes[h].verified
    /\ owner[p] = None /\ codes[h].code = c
    /\ ledger' = [ledger EXCEPT ![h].promised = TRUE]
    /\ UNCHANGED <<tables, codes>>

(* A mutation: the owner at sendCode is not compared with today's.         *)
SignIn_IgnoresDrift(w, k, p, h, c) ==
    /\ Found(p, h)
    /\ ~codes[h].verified
    /\ Enter(w, [NewCall("verify", k, p, h, c) EXCEPT !.before = owner[p]])
    /\ UNCHANGED <<tables, codes, ledger>>

(* A mutation: a code that waits for signUp is verified once more.         *)
SignIn_VerifiesAgain(w, k, p, h, c) ==
    /\ Found(p, h)
    /\ codes[h].issued = owner[p]
    /\ Enter(w, [NewCall("verify", k, p, h, c) EXCEPT !.before = owner[p]])
    /\ UNCHANGED <<tables, codes, ledger>>

SignIn(w, k, p, h, c) ==
    /\ Found(p, h)
    /\ codes[h].issued = owner[p]
    /\ ~codes[h].verified
    /\ Enter(w, [NewCall("verify", k, p, h, c) EXCEPT !.before = owner[p]])
    /\ UNCHANGED <<tables, codes, ledger>>

SignInVerify(w) ==
    LET c  == call[w]
        ok == codes[c.hash].code = c.code
    IN
    /\ At(w, "verify")
    /\ codes' = [codes EXCEPT ![c.hash] = VerifyLogin(@, c.code, c.before = None)]
    /\ ledger' = [ledger EXCEPT
                    ![c.hash].matched = @ \/ ok,
                    ![c.hash].misses = IF ok THEN @ ELSE @ + 1]
    /\ Continue(w, [c EXCEPT !.pc = "after", !.accepted = ok])
    /\ UNCHANGED tables

(* The second read of the owner: it changed while the code was verified.   *)
SignInDrifted(w) ==
    /\ At(w, "after")
    /\ owner[call[w].phone] # call[w].before
    /\ Del(call[w].hash)
    /\ Leave(w)
    /\ UNCHANGED tables

SignInRefused(w) ==
    /\ At(w, "after")
    /\ owner[call[w].phone] = call[w].before
    /\ ~call[w].accepted
    /\ Leave(w)
    /\ UNCHANGED <<tables, codes, ledger>>

(* need_sign_up                                                            *)
SignInNeedsSignUp(w) ==
    /\ At(w, "after")
    /\ owner[call[w].phone] = call[w].before
    /\ call[w].accepted
    /\ call[w].before = None
    /\ ledger' = [ledger EXCEPT ![call[w].hash].promised = TRUE]
    /\ Leave(w)
    /\ UNCHANGED <<tables, codes>>

SignInAccepted(w) ==
    /\ At(w, "after")
    /\ owner[call[w].phone] = call[w].before
    /\ call[w].accepted
    /\ call[w].before # None
    /\ Continue(w, [call[w] EXCEPT !.pc = "load"])
    /\ UNCHANGED <<tables, codes, ledger>>

(* The third read: "the current row, not a stale copy".                    *)
SignInLoad(w) ==
    /\ At(w, "load")
    /\ owner[call[w].phone] # None
    /\ Continue(w, [call[w] EXCEPT !.pc = "password", !.user = owner[call[w].phone]])
    /\ UNCHANGED <<tables, codes, ledger>>

(* ... and there is none any more: VerifyLoginCode returns found = false.   *)
SignInGone(w) ==
    /\ At(w, "load")
    /\ owner[call[w].phone] = None
    /\ ledger' = [ledger EXCEPT ![call[w].hash].promised = TRUE]
    /\ Leave(w)
    /\ UNCHANGED <<tables, codes>>

SignInPassword(w) ==
    /\ At(w, "password")
    /\ Continue(w, [call[w] EXCEPT !.pc = "bind", !.pending = password[call[w].user]])
    /\ UNCHANGED <<tables, codes, ledger>>

-----------------------------------------------------------------------------
(* AuthorizationStore::Bind, the last store access of signIn and signUp.   *)

(* The transaction commits.  An in-doubt commit, which the handler reports *)
(* as INTERNAL, is this step too.                                          *)
Bind(w) ==
    LET c == call[w] IN
    /\ At(w, "bind")
    /\ c.user \in Live
    /\ c.key \in PermKeys
    /\ authz' = [authz EXCEPT ![c.key] = [user |-> c.user, pending |-> c.pending]]
    /\ ledger' = [ledger EXCEPT ![c.hash].grants = @ + 1, ![c.hash].grantee = c.user]
    /\ Leave(w)
    /\ UNCHANGED <<owner, rows, deleted, password, codes>>

(* AccountDeletedError, or AuthKeyNotPermanentError on a temporary key.    *)
BindRefused(w) ==
    /\ At(w, "bind")
    /\ call[w].user \notin Live \/ call[w].key \notin PermKeys
    /\ Leave(w)
    /\ UNCHANGED <<tables, codes, ledger>>

-----------------------------------------------------------------------------
(* auth.signUp                                                             *)

Verified(p, h) == Found(p, h) /\ codes[h].verified /\ codes[h].issued = None

(* Someone claimed the phone since the verifying signIn.                   *)
SignUpStale(w, p, h) ==
    /\ EnterAndLeave
    /\ Verified(p, h)
    /\ owner[p] # None
    /\ Del(h)
    /\ UNCHANGED tables

(* Bound: an id of Users is left for the account.                          *)
SignUp(w, k, p, h) ==
    /\ rows # Users
    /\ Verified(p, h)
    /\ owner[p] = None
    /\ Enter(w, NewCall("consume", k, p, h, None))
    /\ UNCHANGED <<tables, codes, ledger>>

(* A mutation: the verified record is read but not erased.                 *)
SignUpConsume_Peeks(w) ==
    /\ At(w, "consume")
    /\ Continue(w, [call[w] EXCEPT !.pc = "recheck"])
    /\ UNCHANGED <<tables, codes, ledger>>

(* codes.ConsumeSignUpVerified                                             *)
SignUpConsume(w) ==
    /\ At(w, "consume")
    /\ Del(call[w].hash)
    /\ Continue(w, [call[w] EXCEPT !.pc = "recheck"])
    /\ UNCHANGED tables

SignUpRecheck(w) ==
    /\ At(w, "recheck")
    /\ owner[call[w].phone] = None
    /\ Continue(w, [call[w] EXCEPT !.pc = "create"])
    /\ UNCHANGED <<tables, codes, ledger>>

(* users.Create: a new id, and the unique index on phone admits the row.   *)
SignUpCreate(w) ==
    LET c == call[w] IN
    /\ At(w, "create")
    /\ owner[c.phone] = None
    /\ \E u \in Users \ rows :
        /\ rows' = rows \cup {u}
        /\ owner' = [owner EXCEPT ![c.phone] = u]
        /\ ledger' = [ledger EXCEPT ![c.hash].created = u]
        /\ Continue(w, [c EXCEPT !.pc = "bind", !.user = u])
    /\ UNCHANGED <<deleted, password, codes, authz>>

(* The phone was claimed between two reads, or between the last read and   *)
(* the insert, which the unique index refuses.                             *)
SignUpLost(w) ==
    /\ At(w, "recheck") \/ At(w, "create")
    /\ owner[call[w].phone] # None
    /\ Leave(w)
    /\ UNCHANGED <<tables, codes, ledger>>

-----------------------------------------------------------------------------
(* What the handlers do not control.                                       *)

(* A store access throws (a lost connection, a statement error): the        *)
(* handler answers INTERNAL and its transaction is rolled back.            *)
DbError(w) ==
    /\ \E pc \in Pcs \ {"deliver", "verify", "consume"} : At(w, pc)
    /\ Leave(w)
    /\ UNCHANGED <<tables, codes, ledger>>

(* Another process writes the tables: always between two handlers of this  *)
(* process, and while one runs if RacingWriters.                           *)
Others == RacingWriters \/ db_mutex = None

(* UserStore::UpdatePhone: to a free phone, or to one no client here uses. *)
UpdatePhone(u, p) ==
    /\ Others
    /\ u \in Live
    /\ p \in Phones => owner[p] = None
    /\ owner' = [q \in Phones |-> IF q = p THEN u
                                   ELSE IF owner[q] = u THEN None ELSE owner[q]]
    /\ UNCHANGED <<rows, deleted, password, codes, authz, db_mutex, call, ledger>>

DeleteAccount(u) ==
    /\ Others
    /\ u \in Live
    /\ deleted' = deleted \cup {u}
    /\ owner' = [q \in Phones |-> IF owner[q] = u THEN None ELSE owner[q]]
    /\ UNCHANGED <<rows, password, codes, authz, db_mutex, call, ledger>>

(* PasswordStore::Save by the process that owns account settings.          *)
ChangePassword(u) ==
    /\ Others
    /\ u \in Live
    /\ password' = [password EXCEPT ![u] = ~@]
    /\ UNCHANGED <<owner, rows, deleted, codes, authz, db_mutex, call, ledger>>

(* The process dies and starts again: the tables stay, the codes and the   *)
(* running handlers are gone.                                              *)
Restart ==
    /\ codes' = [h \in Hashes |-> None]
    /\ db_mutex' = None
    /\ call' = [w \in Workers |-> None]
    /\ ledger' = [h \in Hashes |-> [ledger[h] EXCEPT !.promised = FALSE]]
    /\ UNCHANGED tables

-----------------------------------------------------------------------------
SendCodeStep(w) ==
    \/ \E p \in Phones, h \in Hashes :
        \/ SendFixedCode(w, p, h)
        \/ \E c \in Codes : SendRandomCode(w, p, h, c)
    \/ Delivered(w)
    \/ DeliveryFailed(w)
    \/ DeliveryThrows(w)

SignInStep(w) ==
    \/ \E p \in Phones, h \in Hashes :
        \/ SignInStale(w, p, h)
        \/ \E c \in Codes :
            \/ SignInAgain(w, p, h, c)
            \/ \E k \in Keys : SignIn(w, k, p, h, c)
    \/ SignInVerify(w)
    \/ SignInDrifted(w)
    \/ SignInRefused(w)
    \/ SignInNeedsSignUp(w)
    \/ SignInAccepted(w)
    \/ SignInLoad(w)
    \/ SignInGone(w)
    \/ SignInPassword(w)

SignUpStep(w) ==
    \/ \E p \in Phones, h \in Hashes :
        \/ SignUpStale(w, p, h)
        \/ \E k \in Keys : SignUp(w, k, p, h)
    \/ SignUpConsume(w)
    \/ SignUpRecheck(w)
    \/ SignUpCreate(w)
    \/ SignUpLost(w)

BindStep(w) == Bind(w) \/ BindRefused(w)

Environment ==
    \/ \E u \in Users : \/ \E p \in Phones \cup {None} : UpdatePhone(u, p)
                        \/ DeleteAccount(u)
                        \/ ChangePassword(u)
    \/ Restart

Next ==
    \/ \E w \in Workers : \/ SendCodeStep(w) \/ SignInStep(w)
                          \/ SignUpStep(w) \/ BindStep(w) \/ DbError(w)
    \/ Environment

Spec == Init /\ [][Next]_vars

(* A handler that has begun is scheduled again; no database error is owed. *)
(* The webhook call it may be in returns: HttpPost bounds the transfer and *)
(* the kernel the connect.                                                 *)
Work(w) ==
    \/ Delivered(w) \/ DeliveryFailed(w) \/ DeliveryThrows(w)
    \/ SignInVerify(w) \/ SignInDrifted(w) \/ SignInRefused(w)
    \/ SignInNeedsSignUp(w) \/ SignInAccepted(w) \/ SignInLoad(w)
    \/ SignInGone(w) \/ SignInPassword(w)
    \/ SignUpConsume(w) \/ SignUpRecheck(w) \/ SignUpCreate(w) \/ SignUpLost(w)
    \/ BindStep(w)

FairSpec == Spec /\ \A w \in Workers : WF_vars(Work(w))

-----------------------------------------------------------------------------
(* Properties.                                                             *)

(* One phone_code_hash logs in at most one session: VerifyLogin erases an  *)
(* accepted code and ConsumeSignUpVerified a verified one, whatever errors, *)
(* owner changes and retries come between.                                 *)
OneLoginPerCode == \A h \in Hashes : ledger[h].grants <= 1

(* Nobody is logged in, and no account is created, by a hash whose code was *)
(* never presented: signUp carries no code, its proof is the record that an *)
(* earlier signIn verified.                                                *)
LoginsAreProven ==
    \A h \in Hashes :
        ledger[h].grants > 0 \/ ledger[h].created # None => ledger[h].matched

(* VerifyLogin compares at most MaxAttempts wrong codes with a record, and *)
(* a record that has seen that many is gone and never logs anyone in.      *)
ExhaustedCodeIsDead ==
    \A h \in Hashes :
        /\ ledger[h].misses <= MaxAttempts
        /\ ledger[h].misses = MaxAttempts =>
              codes[h] = None /\ ~ledger[h].matched /\ ledger[h].grants = 0

(* "This hash can never legitimately authorize whoever holds it today": a  *)
(* code logs in the owner its phone had at sendCode, or, if it had none,    *)
(* the account that signUp created with this very code.                    *)
CodeAuthorizesIssuee ==
    \A h \in Hashes :
        ledger[h].grants > 0 =>
            ledger[h].grantee = IF ledger[h].issued = None
                                THEN ledger[h].created ELSE ledger[h].issued

(* After authorizationSignUpRequired, auth.signUp on the same hash finds "the *)
(* still-marked-verified code record", until it uses it, the phone gets an  *)
(* owner, or the process restarts.                                         *)
SignUpPromiseKept ==
    \A h \in Hashes : ledger[h].promised => codes[h] # None /\ codes[h].verified

(* "A code nobody actually received must not remain guessable/usable": one *)
(* whose delivery failed with DeliveryFailedError, which may be long after *)
(* the code was stored, is gone, has logged nobody in and made no account. *)
UndeliveredCodeIsDead ==
    \A h \in Hashes : ledger[h].rejected =>
        codes[h] = None /\ ledger[h].grants = 0 /\ ledger[h].created = None

(* A handler gives db_mutex back, whatever the webhook, the database and   *)
(* the other processes do meanwhile.                                       *)
HandlersReturn == \A w \in Workers : db_mutex = w ~> db_mutex # w

(* The handler of w has taken the proof of h out of the store.             *)
Carries(w, h) ==
    /\ call[w] # None /\ call[w].hash = h
    /\ \/ call[w].pc = "after" /\ call[w].accepted
       \/ call[w].pc \in {"load", "password", "bind", "recheck", "create"}

TicketState(h) ==
    IF ~ledger[h].used THEN "unissued"
    ELSE IF ledger[h].grants > 0 THEN "used"
    ELSE IF codes[h] = None /\ ~\E w \in Workers : Carries(w, h) THEN "discarded"
    ELSE IF ledger[h].matched THEN "proven" ELSE "open"

Ticket == INSTANCE LoginTicket WITH
              ticket <- [h \in Hashes |-> TicketState(h)],
              logins <- [h \in Hashes |-> ledger[h].grants]

(* The handlers treat a phone_code_hash as a LoginTicket: no interleaving  *)
(* uses it twice, uses it unproven, or brings a discarded one back.        *)
ImplementsTicket == Ticket!Spec

-----------------------------------------------------------------------------
(* The inductive invariant behind the properties above.                    *)

(* A worker is inside a handler exactly while it holds db_mutex.           *)
MutexInv == \A w \in Workers : call[w] # None <=> db_mutex = w

(* A code in the store is one that has had no effect yet, and its record   *)
(* tells its history.                                                      *)
StoredOK(h) ==
    codes[h] # None =>
        /\ ledger[h].used
        /\ ledger[h].issued = codes[h].issued
        /\ ledger[h].misses = codes[h].attempts
        /\ ledger[h].matched <=> codes[h].verified
        /\ ledger[h].created = None
        /\ ledger[h].grants = 0
        /\ codes[h].verified => codes[h].issued = None

(* The properties above, hash by hash, and what an unused hash looks like. *)
HistoryOK(h) ==
    /\ ledger[h].misses <= MaxAttempts
    /\ ledger[h].misses = MaxAttempts => codes[h] = None /\ ~ledger[h].matched
    /\ ledger[h].grants <= 1
    /\ ledger[h].grants > 0 \/ ledger[h].created # None => ledger[h].matched
    /\ ~ledger[h].used => codes[h] = None /\ ledger[h].misses = 0 /\ ~ledger[h].matched

CodesInv == \A h \in Hashes : StoredOK(h) /\ HistoryOK(h)

(* A proof taken out of the store, not yet turned into a login.            *)
Taken(h) ==
    /\ codes[h] = None
    /\ ledger[h].used
    /\ ledger[h].matched
    /\ ledger[h].grants = 0

(* What a handler knows at each of its store accesses.                     *)
CallInv ==
    \A w \in Workers : call[w] # None =>
        LET c == call[w]
            h == c.hash
        IN
        /\ c.pc # "deliver" => c.key \in Keys
        /\ c.pc = "deliver" => codes[h] # None /\ ~codes[h].verified
        /\ c.pc = "verify" =>
              /\ codes[h] # None /\ ~codes[h].verified
              /\ codes[h].issued = c.before
              /\ c.code \in Codes
        /\ c.pc = "after" =>
              /\ ledger[h].used
              /\ ledger[h].issued = c.before
              /\ c.accepted /\ c.before # None => Taken(h) /\ ledger[h].created = None
              /\ c.accepted /\ c.before = None => codes[h] # None /\ codes[h].verified
        /\ c.pc \in {"load", "password"} =>
              /\ Taken(h) /\ ledger[h].created = None
              /\ c.before # None /\ ledger[h].issued = c.before
        /\ c.pc \in {"password", "bind"} => c.user \in Users
        /\ c.pc = "bind" => Taken(h)
        /\ c.pc = "consume" => codes[h] # None /\ codes[h].verified
        /\ c.pc \in {"recheck", "create"} =>
              /\ Taken(h) /\ ledger[h].created = None
              /\ ledger[h].issued = None

LoginInv == TypeOK /\ MutexInv /\ CodesInv /\ CallInv

(* While no other process writes during a handler, what it read still holds. *)
StableReadsInv ==
    \A w \in Workers : call[w] # None =>
        LET c == call[w]
            h == c.hash
        IN
        /\ c.pc \in {"verify", "after", "load"} => owner[c.phone] = c.before
        /\ c.pc = "password" => c.user = c.before
        /\ c.pc = "bind" => c.user = IF ledger[h].issued = None
                                     THEN ledger[h].created ELSE ledger[h].issued

AloneInv ==
    /\ LoginInv
    /\ StableReadsInv
    /\ CodeAuthorizesIssuee
    /\ SignUpPromiseKept
=============================================================================
