----------------------------- MODULE TwoFactor -----------------------------
(***************************************************************************)
(* The two-factor password: account.getPassword and auth.checkPassword of   *)
(* cmd/shuzagram_server/main.cpp with auth/check_password.cpp, the rows    *)
(* they read and write in account_passwords and authorizations, and the    *)
(* clients that ask for a challenge and prove a password against it.       *)
(*                                                                         *)
(* Both handlers hold db_mutex, so this process runs one of them at a time; *)
(* but they are several transactions each, and other processes on the same *)
(* database set passwords, log sessions in and log them out in between.    *)
(*                                                                         *)
(* SRP is taken at its word: M1 is right for exactly one challenge and one *)
(* verifier, and a verifier stands for a password with its salt.           *)
(***************************************************************************)
EXTENDS Naturals

CONSTANTS
    Sessions,       \* auth keys
    Users,
    Verifiers,      \* srp_verifier values: a password and its salt
    MaxChallenges,  \* bound on the challenges made
    None            \* no row, no verifier, no id, no handler running

ASSUME TwoFactorConstants ==
    /\ MaxChallenges \in Nat
    /\ None \notin Users \cup Verifiers

Challenges == 0 .. MaxChallenges   \* srp_b_secret and srp_b; 0 when empty

(* PasswordSettings: has_password is verifier # None.  An srp_id is drawn   *)
(* once per user, so the user stands for it.                               *)
PasswordSettings ==
    [verifier : Verifiers \cup {None}, srp_id : Users \cup {None}, b : Challenges]

(* PasswordCheck: verifier # None is a proof with that password and the     *)
(* challenge b; None is inputCheckPasswordEmpty.                           *)
PasswordCheck == PasswordSettings

(* What the client was told by account.getPassword.  live (history): no     *)
(* newer challenge, no new password and no new login since.                *)
Known == [settings : PasswordSettings, live : BOOLEAN]

Authorization ==
    [user : Users, password_pending : BOOLEAN,
     by : Users \cup {None}]        \* history: whose password ended the pending

Results == {"none", "ok", "PASSWORD_HASH_INVALID", "SRP_ID_INVALID",
            "SRP_PASSWORD_CHANGED", "INTERNAL"}

(* The handler that holds db_mutex, and the store call it makes next.      *)
Call == [op : {"get", "check"}, pc : {"load", "save", "mark", "user"},
         session : Sessions, user : Users, pending : BOOLEAN,
         settings : PasswordSettings,           \* what it read, or will save
         check : PasswordCheck,
         against : Verifiers \cup {None}]       \* history: the password when it read

ASSUME NoneIsNoRecord ==
    None \notin Authorization /\ None \notin Call /\ None \notin Known

VARIABLES
    account_passwords,  \* the row of each user
    authorizations,     \* the row of each session, or None
    call,               \* the running handler, or None
    made,               \* challenges made so far
    known,              \* what each client knows, or None
    answer,             \* history: the checkPassword that ended last: its result,
                        \* and whether its proof was right and live
    password,           \* history: the verifier each user last set, or None
    raced               \* history: users whose password changed between the read
                        \* and the write of a getPassword

vars == <<account_passwords, authorizations, call, made, known, answer, password, raced>>

-----------------------------------------------------------------------------
Answer == [result : Results, right : BOOLEAN, live : BOOLEAN]

NoAnswer == [result |-> "none", right |-> FALSE, live |-> FALSE]

NoPassword == [verifier |-> None, srp_id |-> None, b |-> 0]

TypeOK ==
    /\ account_passwords \in [Users -> PasswordSettings]
    /\ authorizations \in [Sessions -> Authorization \cup {None}]
    /\ call \in Call \cup {None}
    /\ made \in Challenges
    /\ known \in [Sessions -> Known \cup {None}]
    /\ answer \in Answer
    /\ password \in [Users -> Verifiers \cup {None}]
    /\ raced \subseteq Users

Init ==
    /\ password \in [Users -> Verifiers \cup {None}]
    /\ account_passwords = [u \in Users |-> [NoPassword EXCEPT !.verifier = password[u]]]
    /\ authorizations = [s \in Sessions |-> None]
    /\ call = None
    /\ made = 0
    /\ known = [s \in Sessions |-> None]
    /\ answer = NoAnswer
    /\ raced = {}

rows == <<account_passwords, authorizations>>

clients == <<made, known, answer, password, raced>>

Running(op, pc) == call # None /\ call.op = op /\ call.pc = pc

NewCall(op, s, check) ==
    [op |-> op, pc |-> "load", session |-> s, user |-> authorizations[s].user,
     pending |-> authorizations[s].password_pending, settings |-> NoPassword,
     check |-> check, against |-> None]

(* known, where the challenges of user u told so far are no longer live.   *)
Outdated(u) ==
    [s \in Sessions |->
        IF known[s] # None /\ known[s].settings.srp_id = u
        THEN [known[s] EXCEPT !.live = FALSE] ELSE known[s]]

IsOf(s, u) == authorizations[s] # None /\ authorizations[s].user = u

-----------------------------------------------------------------------------
(* account.getPassword                                                     *)

(* ByAuthKey.  Without an authorization the defaults are returned: no       *)
(* password, no challenge, nothing saved.                                  *)
GetPassword(s) ==
    /\ call = None
    /\ IF authorizations[s] = None
       THEN /\ known' = [known EXCEPT ![s] = None]
            /\ UNCHANGED call
       ELSE /\ call' = NewCall("get", s, NoPassword)
            /\ UNCHANGED known
    /\ answer' = NoAnswer
    /\ UNCHANGED <<rows, made, password, raced>>

(* A mutation: the srp_id is drawn for the answer only.                    *)
Challenged_UnsavedId(u, settings, b) == [settings EXCEPT !.b = b]

(* SrpMakeChallenge, and an srp_id if the user has none yet.               *)
Challenged(u, settings, b) == [settings EXCEPT !.b = b, !.srp_id = u]

(* GetByUser                                                               *)
GetPasswordLoad ==
    LET settings == account_passwords[call.user] IN
    /\ Running("get", "load")
    /\ IF settings.verifier = None
       THEN /\ known' = [known EXCEPT ![call.session] = None]
            /\ call' = None
            /\ UNCHANGED made
       ELSE /\ made < MaxChallenges
            /\ made' = made + 1
            /\ call' = [call EXCEPT !.pc = "save",
                            !.settings = Challenged(call.user, settings, made + 1)]
            /\ UNCHANGED known
    /\ UNCHANGED <<rows, answer, password, raced>>

(* Save writes every column of the row, the verifier included.             *)
GetPasswordSave ==
    LET u == call.user IN
    /\ Running("get", "save")
    /\ account_passwords' = [account_passwords EXCEPT ![u] = call.settings]
    /\ known' = [Outdated(u) EXCEPT ![call.session] =
                    [settings |-> [call.settings EXCEPT !.srp_id = u], live |-> IsOf(call.session, u)]]
    /\ call' = None
    /\ UNCHANGED <<authorizations, made, answer, password, raced>>

-----------------------------------------------------------------------------
(* auth.checkPassword                                                      *)

(* The handler returns.                                                    *)
Reply(s, check, result) ==
    answer' = [result |-> result,
               right  |-> known[s] # None /\ check = known[s].settings,
               live   |-> known[s] # None /\ known[s].live]

(* ByAuthKey                                                               *)
CheckPassword(s, check) ==
    /\ call = None
    /\ IF authorizations[s] = None
       THEN /\ Reply(s, check, "PASSWORD_HASH_INVALID")
            /\ UNCHANGED call
       ELSE /\ call' = NewCall("check", s, check)
            /\ answer' = NoAnswer
    /\ UNCHANGED <<rows, made, known, password, raced>>

(* A mutation: the proof is compared with the challenge only.              *)
CheckSrp_AnyPassword(settings, check) ==
    IF check.verifier = None \/ settings.verifier = None
    THEN IF check.verifier = settings.verifier THEN "ok" ELSE "PASSWORD_HASH_INVALID"
    ELSE IF settings.srp_id = None \/ settings.srp_id # check.srp_id THEN "SRP_ID_INVALID"
    ELSE IF settings.b = 0 THEN "SRP_PASSWORD_CHANGED"
    ELSE IF check.b = settings.b THEN "ok" ELSE "PASSWORD_HASH_INVALID"

(* An empty proof is right for an account without a password and for no    *)
(* other; M1 is right for the challenge and the verifier of the row.       *)
CheckSrp(settings, check) ==
    IF check.verifier = None \/ settings.verifier = None
    THEN IF check.verifier = settings.verifier THEN "ok" ELSE "PASSWORD_HASH_INVALID"
    ELSE IF settings.srp_id = None \/ settings.srp_id # check.srp_id THEN "SRP_ID_INVALID"
    ELSE IF settings.b = 0 THEN "SRP_PASSWORD_CHANGED"
    ELSE IF check.b = settings.b /\ check.verifier = settings.verifier
         THEN "ok" ELSE "PASSWORD_HASH_INVALID"

(* GetByUser and CheckSrp                                                  *)
CheckPasswordLoad ==
    LET result == CheckSrp(account_passwords[call.user], call.check) IN
    /\ Running("check", "load")
    /\ IF result = "ok"
       THEN /\ call' = [call EXCEPT !.pc = IF call.pending THEN "mark" ELSE "user",
                                    !.against = password[call.user]]
            /\ UNCHANGED answer
       ELSE /\ Reply(call.session, call.check, result)
            /\ call' = None
    /\ UNCHANGED <<rows, made, known, password, raced>>

(* A mutation: the update does not name the user whose password it was.    *)
IsPending_AnyUser(s, u) == authorizations[s] # None /\ authorizations[s].password_pending

(* The WHERE clause of MarkPasswordPassed.                                 *)
IsPending(s, u) == IsOf(s, u) /\ authorizations[s].password_pending

MarkPasswordPassed ==
    LET s == call.session
        u == call.user
    IN
    /\ Running("check", "mark")
    /\ IF IsPending(s, u)
       THEN /\ authorizations' = [authorizations EXCEPT ![s].password_pending = FALSE,
                                                        ![s].by = u]
            /\ call' = [call EXCEPT !.pc = "user"]
            /\ UNCHANGED answer
       ELSE /\ Reply(s, call.check, "INTERNAL")   \* AuthorizationStateChangedError
            /\ call' = None
            /\ UNCHANGED authorizations
    /\ UNCHANGED <<account_passwords, made, known, password, raced>>

(* users.ByID, and the answer.                                             *)
CheckPasswordUser ==
    /\ Running("check", "user")
    /\ Reply(call.session, call.check, "ok")
    /\ call' = None
    /\ UNCHANGED <<rows, made, known, password, raced>>

(* A store call throws: INTERNAL, whatever earlier calls committed.        *)
DbError ==
    /\ call # None
    /\ call' = None
    /\ IF call.op = "check" THEN Reply(call.session, call.check, "INTERNAL")
       ELSE UNCHANGED answer
    /\ UNCHANGED <<rows, made, known, password, raced>>

-----------------------------------------------------------------------------
(* Other processes, and the other handlers of this one.                    *)

(* A user sets or removes the password: no live challenge is left.         *)
SetPassword(u, v) ==
    /\ v # password[u]
    /\ password' = [password EXCEPT ![u] = v]
    /\ account_passwords' = [account_passwords EXCEPT ![u].verifier = v, ![u].b = 0]
    /\ known' = Outdated(u)
    /\ raced' = IF Running("get", "save") /\ call.user = u
                THEN raced \cup {u} ELSE raced
    /\ UNCHANGED <<authorizations, call, made, answer>>

(* A login binds the session, pending if the user has a password.          *)
Bind(s, u) ==
    /\ authorizations' = [authorizations EXCEPT ![s] =
            [user |-> u, password_pending |-> account_passwords[u].verifier # None, by |-> None]]
    /\ known' = [known EXCEPT ![s] = None]
    /\ UNCHANGED <<account_passwords, call, made, answer, password, raced>>

Delete(s) ==
    /\ authorizations[s] # None
    /\ authorizations' = [authorizations EXCEPT ![s] = None]
    /\ known' = [known EXCEPT ![s] = None]
    /\ UNCHANGED <<account_passwords, call, made, answer, password, raced>>

-----------------------------------------------------------------------------
(* The proofs a client may send: the empty one, and any password with the  *)
(* challenge it was told.                                                  *)
Checks(s) ==
    {NoPassword} \cup
    (IF known[s] = None THEN {}
     ELSE {[known[s].settings EXCEPT !.verifier = v] : v \in Verifiers})

Handler ==
    \/ GetPasswordLoad \/ GetPasswordSave
    \/ CheckPasswordLoad \/ MarkPasswordPassed \/ CheckPasswordUser
    \/ DbError

Next ==
    \/ Handler
    \/ \E s \in Sessions :
        \/ GetPassword(s)
        \/ \E check \in Checks(s) : CheckPassword(s, check)
        \/ \E u \in Users : Bind(s, u)
        \/ Delete(s)
    \/ \E u \in Users, v \in Verifiers \cup {None} : SetPassword(u, v)

Spec == Init /\ [][Next]_vars

-----------------------------------------------------------------------------
(* Properties.                                                             *)

(* A pending login is completed by the password of the user it is for,      *)
(* although the handler read the authorization two transactions earlier    *)
(* and the auth key may have logged in as somebody else since.             *)
CompletedByOwner ==
    \A s \in Sessions :
        authorizations[s] # None /\ authorizations[s].by # None =>
            authorizations[s].by = authorizations[s].user

(* A proof is verified "against the account's currently persisted           *)
(* settings": a login is completed only with the password the user had     *)
(* set last when the proof was checked (or with none, if there was none),  *)
(* unless a getPassword overwrote that change with the row it had read.    *)
CompletedWithPassword ==
    [][\A s \in Sessions :
         /\ authorizations[s] # None /\ authorizations'[s] # None
         /\ authorizations[s].by = None /\ authorizations'[s].by # None
         => call.check.verifier = call.against \/ call.user \in raced]_vars

(* "The caller must have already called GetPassword to have a live srp_B":  *)
(* a right proof is refused only if its challenge is no longer live, that  *)
(* is, if another getPassword, password or login of that user came after   *)
(* it.  A repeated checkPassword is not refused, so one that failed with   *)
(* INTERNAL after it had completed the login can simply be sent again.     *)
LiveProofAccepted ==
    answer.right /\ answer.live => answer.result \in {"ok", "INTERNAL"}
=============================================================================
