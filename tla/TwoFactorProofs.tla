-------------------------- MODULE TwoFactorProofs --------------------------
(***************************************************************************)
(* Proofs about TwoFactor, for every set of sessions, users and passwords  *)
(* and every bound on the challenges.                                      *)
(***************************************************************************)
EXTENDS TwoFactor, TLAPS

(* The stored verifier is the password set last, or a getPassword wrote an *)
(* older one over it.                                                      *)
RowsCurrent == \A u \in Users : account_passwords[u].verifier = password[u] \/ u \in raced

(* What the running handler carries from one transaction to the next.      *)
CallInv ==
    /\ Running("get", "save") =>
        /\ call.settings.srp_id = call.user /\ call.settings.b # 0
        /\ call.settings.verifier = password[call.user] \/ call.user \in raced
    /\ Running("check", "mark") =>
        call.check.verifier = call.against \/ call.user \in raced
    /\ call # None /\ call.op = "check" =>
        (known[call.session] # None /\ known[call.session].live =>
            call.user = known[call.session].settings.srp_id)

(* A live challenge is the one in the row of the session's user.           *)
KnownInv ==
    \A s \in Sessions : known[s] # None /\ known[s].live =>
        /\ IsOf(s, known[s].settings.srp_id)
        /\ account_passwords[known[s].settings.srp_id] = known[s].settings
        /\ known[s].settings.b # 0

TwoFactorInv ==
    TypeOK /\ RowsCurrent /\ CallInv /\ KnownInv /\ CompletedByOwner /\ LiveProofAccepted
-----------------------------------------------------------------------------

(* No handler runs and no challenge is out at start-up.                    *)
LEMMA InitInv == Init => TwoFactorInv
<1> SUFFICES ASSUME Init PROVE TwoFactorInv
    OBVIOUS
<1>1. TypeOK
  <2>1. \A u \in Users : [NoPassword EXCEPT !.verifier = password[u]] \in PasswordSettings
      BY TwoFactorConstants DEF Init, NoPassword, PasswordSettings, Challenges
  <2> QED
      BY <2>1, TwoFactorConstants
      DEF Init, TypeOK, NoAnswer, Answer, Results, Challenges
<1>2. RowsCurrent
    BY DEF Init, RowsCurrent, NoPassword
<1> QED
    BY <1>1, <1>2 DEF Init, TwoFactorInv, CallInv, KnownInv, Running, CompletedByOwner,
       LiveProofAccepted, NoAnswer

(* A handler starts with what its session's authorization says.            *)
LEMMA NewCallType ==
    ASSUME TypeOK, NEW s \in Sessions, authorizations[s] # None,
           NEW op \in {"get", "check"}, NEW check \in PasswordSettings
    PROVE  /\ NewCall(op, s, check) \in Call
           /\ NewCall(op, s, check).op = op /\ NewCall(op, s, check).pc = "load"
           /\ NewCall(op, s, check).session = s
           /\ NewCall(op, s, check).user = authorizations[s].user
<1>1. authorizations[s] \in Authorization
    BY DEF TypeOK
<1>2. NoPassword \in PasswordSettings
    BY TwoFactorConstants DEF NoPassword, PasswordSettings, Challenges
<1> QED
    BY <1>1, <1>2 DEF NewCall, Call, Authorization, PasswordCheck

(* Whatever a handler answers is an answer.                                *)
LEMMA ReplyType ==
    ASSUME TypeOK, NEW s \in Sessions, NEW check \in PasswordSettings, NEW result \in Results,
           Reply(s, check, result)
    PROVE  /\ answer' \in Answer
           /\ answer'.result = result
           /\ answer'.right => known[s] # None /\ check = known[s].settings
           /\ answer'.live => known[s] # None /\ known[s].live
<1>1. known[s] = None \/ known[s] \in Known
    BY DEF TypeOK
<1>2. (known[s] # None /\ check = known[s].settings) \in BOOLEAN
      /\ (known[s] # None /\ known[s].live) \in BOOLEAN
    BY <1>1 DEF Known
<1> QED
    BY <1>2 DEF Reply, Answer

(* Only the running handler and the last answer change.                    *)
LEMMA HandlerMoves ==
    ASSUME TwoFactorInv, UNCHANGED <<rows, made, known, password, raced>>,
           call' \in Call \cup {None}, CallInv', answer' \in Answer, LiveProofAccepted'
    PROVE  TwoFactorInv'
<1>1. TypeOK'
    BY DEF TwoFactorInv, TypeOK, rows
<1>2. RowsCurrent' /\ KnownInv' /\ CompletedByOwner'
    BY DEF TwoFactorInv, RowsCurrent, KnownInv, CompletedByOwner, IsOf, rows
<1> QED
    BY <1>1, <1>2 DEF TwoFactorInv

(* Without a running handler nothing is claimed about one.                 *)
LEMMA NoCallInv == call' = None => CallInv'
BY DEF CallInv, Running
-----------------------------------------------------------------------------

(* getPassword finds the user of its session, or returns the defaults.     *)
LEMMA GetPasswordInv ==
    ASSUME TwoFactorInv, NEW s \in Sessions, GetPassword(s)
    PROVE  TwoFactorInv'
<1>a. /\ TypeOK /\ call = None /\ answer' = NoAnswer
      /\ UNCHANGED <<rows, made, password, raced>>
    BY DEF TwoFactorInv, GetPassword
<1>b. NoAnswer \in Answer /\ LiveProofAccepted'
    BY <1>a DEF NoAnswer, Answer, Results, LiveProofAccepted
<1>1. CASE authorizations[s] = None
  <2>1. known' = [known EXCEPT ![s] = None] /\ call' = None
      BY <1>1, <1>a DEF GetPassword
  <2>2. TypeOK'
      BY <1>a, <1>b, <2>1 DEF TypeOK, rows
  <2>3. KnownInv'
      BY <1>a, <2>1 DEF TwoFactorInv, KnownInv, TypeOK, IsOf, rows
  <2> QED
      BY <1>a, <1>b, <2>1, <2>2, <2>3, NoCallInv
      DEF TwoFactorInv, RowsCurrent, CompletedByOwner, rows
<1>2. CASE authorizations[s] # None
  <2>1. call' = NewCall("get", s, NoPassword) /\ known' = known
      BY <1>2 DEF GetPassword
  <2>2. NoPassword \in PasswordSettings
      BY TwoFactorConstants DEF NoPassword, PasswordSettings, Challenges
  <2>3. call' \in Call /\ call'.op = "get" /\ call'.pc = "load"
      BY <1>2, <1>a, <2>1, <2>2, NewCallType
  <2>4. CallInv'
      BY <2>3 DEF CallInv, Running
  <2> QED
      BY <1>a, <1>b, <2>1, <2>3, <2>4, HandlerMoves
<1> QED
    BY <1>1, <1>2

(* getPassword reads the row and draws a challenge no one has seen.        *)
LEMMA GetPasswordLoadInv ==
    ASSUME TwoFactorInv, GetPasswordLoad
    PROVE  TwoFactorInv'
<1> DEFINE settings == account_passwords[call.user]
<1>a. /\ TypeOK /\ UNCHANGED <<rows, answer, password, raced>> /\ call # None
    BY DEF TwoFactorInv, GetPasswordLoad, Running
<1>b. /\ call \in Call /\ call.user \in Users /\ call.session \in Sessions
      /\ settings \in PasswordSettings
    BY <1>a DEF TypeOK, Call
<1>c. LiveProofAccepted' /\ RowsCurrent' /\ CompletedByOwner'
    BY <1>a DEF TwoFactorInv, LiveProofAccepted, RowsCurrent, CompletedByOwner, rows
<1>1. CASE settings.verifier = None
  <2>1. known' = [known EXCEPT ![call.session] = None] /\ call' = None /\ made' = made
      BY <1>1 DEF GetPasswordLoad
  <2>2. TypeOK'
      BY <1>a, <2>1 DEF TypeOK, rows
  <2>3. KnownInv'
      BY <1>a, <1>b, <2>1 DEF TwoFactorInv, KnownInv, TypeOK, IsOf, rows
  <2> QED
      BY <1>c, <2>1, <2>2, <2>3, NoCallInv DEF TwoFactorInv
<1>2. CASE settings.verifier # None
  <2>1. /\ made' = made + 1 /\ known' = known /\ made < MaxChallenges
        /\ call' = [call EXCEPT !.pc = "save",
                        !.settings = Challenged(call.user, settings, made + 1)]
      BY <1>2 DEF GetPasswordLoad
  <2>2. made' \in Challenges /\ made' # 0
      BY <1>a, <2>1, TwoFactorConstants DEF TypeOK, Challenges
  <2>3. /\ Challenged(call.user, settings, made + 1) \in PasswordSettings
        /\ Challenged(call.user, settings, made + 1).verifier = settings.verifier
        /\ Challenged(call.user, settings, made + 1).srp_id = call.user
        /\ Challenged(call.user, settings, made + 1).b = made'
      BY <1>b, <2>1, <2>2 DEF Challenged, PasswordSettings
  <2>4. /\ call' \in Call /\ call'.pc = "save" /\ call'.op = call.op /\ call'.user = call.user
        /\ call'.settings = Challenged(call.user, settings, made + 1)
      BY <1>b, <2>1, <2>3 DEF Call
  <2>5. TypeOK'
      BY <1>a, <2>1, <2>2, <2>4 DEF TypeOK, rows
  <2>6. KnownInv'
      BY <1>a, <2>1 DEF TwoFactorInv, KnownInv, IsOf, rows
  <2>7. CallInv'
    <3>1. settings.verifier = password[call.user] \/ call.user \in raced
        BY <1>b DEF TwoFactorInv, RowsCurrent
    <3>2. call.op = "get"
        BY DEF GetPasswordLoad, Running
    <3> HIDE DEF settings
    <3> QED
        BY <1>a, <2>2, <2>3, <2>4, <3>1, <3>2 DEF CallInv, Running
  <2> QED
      BY <1>c, <2>5, <2>6, <2>7 DEF TwoFactorInv
<1> QED
    BY <1>1, <1>2

(* The challenges of u that were told are no longer live; the others are   *)
(* as they were.                                                           *)
LEMMA OutdatedKeeps ==
    ASSUME TypeOK, NEW u \in Users
    PROVE  /\ Outdated(u) \in [Sessions -> Known \cup {None}]
           /\ \A s \in Sessions : Outdated(u)[s] # None /\ Outdated(u)[s].live =>
                Outdated(u)[s] = known[s] /\ known[s].settings.srp_id # u
<1>1. \A t \in Sessions : known[t] # None => known[t] \in Known
    BY DEF TypeOK
<1>2. \A k \in Known : [k EXCEPT !.live = FALSE] \in Known /\ ~ [k EXCEPT !.live = FALSE].live
    BY DEF Known
<1>3. Outdated(u) \in [Sessions -> Known \cup {None}]
    BY <1>1, <1>2 DEF Outdated, TypeOK
<1> SUFFICES ASSUME NEW s \in Sessions, Outdated(u)[s] # None, Outdated(u)[s].live
             PROVE  Outdated(u)[s] = known[s] /\ known[s].settings.srp_id # u
    BY <1>3
<1>4. CASE known[s] # None /\ known[s].settings.srp_id = u
  <2>1. Outdated(u)[s] = [known[s] EXCEPT !.live = FALSE]
      BY <1>4 DEF Outdated
  <2> QED
      BY <1>1, <1>2, <1>3, <1>4, <2>1
<1>5. CASE ~ (known[s] # None /\ known[s].settings.srp_id = u)
    BY <1>3, <1>5 DEF Outdated
<1> QED
    BY <1>4, <1>5

(* getPassword saves the whole row: the challenge becomes the current one, *)
(* with the verifier that was read.                                        *)
LEMMA GetPasswordSaveInv ==
    ASSUME TwoFactorInv, GetPasswordSave
    PROVE  TwoFactorInv'
<1>a. /\ TypeOK /\ call # None /\ call' = None
      /\ UNCHANGED <<authorizations, made, answer, password, raced>>
    BY DEF TwoFactorInv, GetPasswordSave, Running
<1>b. PICK u \in Users, s \in Sessions, settings \in PasswordSettings :
        call.user = u /\ call.session = s /\ call.settings = settings
    BY <1>a DEF TypeOK, Call
<1>c. /\ settings.srp_id = u /\ settings.b # 0
      /\ settings.verifier = password[u] \/ u \in raced
    BY <1>b DEF TwoFactorInv, CallInv, GetPasswordSave
<1>d. [settings EXCEPT !.srp_id = u] = settings
    BY <1>c DEF PasswordSettings
<1>e. /\ account_passwords' = [account_passwords EXCEPT ![u] = settings]
      /\ known' = [Outdated(u) EXCEPT ![s] = [settings |-> settings, live |-> IsOf(s, u)]]
    BY <1>b, <1>d DEF GetPasswordSave
<1>1. [settings |-> settings, live |-> IsOf(s, u)] \in Known
    BY DEF Known, IsOf
<1>2. TypeOK'
    BY <1>a, <1>e, <1>1, OutdatedKeeps DEF TypeOK
<1>3. RowsCurrent'
    BY <1>a, <1>c, <1>e DEF TwoFactorInv, TypeOK, RowsCurrent
<1>4. KnownInv'
  <2> SUFFICES ASSUME NEW t \in Sessions, known'[t] # None, known'[t].live
               PROVE  /\ IsOf(t, known'[t].settings.srp_id)
                      /\ account_passwords'[known'[t].settings.srp_id] = known'[t].settings
                      /\ known'[t].settings.b # 0
      BY <1>a DEF KnownInv, IsOf
  <2>1. CASE t = s
    <3>1. known'[t] = [settings |-> settings, live |-> IsOf(s, u)]
        BY <1>a, <1>e, <2>1, OutdatedKeeps
    <3>2. account_passwords'[u] = settings
        BY <1>a, <1>e DEF TypeOK
    <3> QED
        BY <2>1, <3>1, <3>2, <1>c
  <2>2. CASE t # s
    <3>1. known'[t] = Outdated(u)[t]
        BY <1>a, <1>e, <2>2, OutdatedKeeps
    <3>2. known'[t] = known[t] /\ known[t].settings.srp_id # u
        BY <1>a, <3>1, OutdatedKeeps
    <3>3. account_passwords'[known[t].settings.srp_id] = account_passwords[known[t].settings.srp_id]
        BY <1>e, <3>2 DEF TwoFactorInv, KnownInv, TypeOK
    <3> QED
        BY <3>2, <3>3 DEF TwoFactorInv, KnownInv
  <2> QED
      BY <2>1, <2>2
<1>5. CompletedByOwner' /\ LiveProofAccepted'
    BY <1>a DEF TwoFactorInv, CompletedByOwner, LiveProofAccepted
<1> QED
    BY <1>a, <1>2, <1>3, <1>4, <1>5, NoCallInv DEF TwoFactorInv
-----------------------------------------------------------------------------
(* The proofs of a client are well formed.                                 *)
LEMMA ChecksType ==
    ASSUME TypeOK, NEW s \in Sessions, NEW check \in Checks(s)
    PROVE  check \in PasswordSettings
<1>1. NoPassword \in PasswordSettings
    BY TwoFactorConstants DEF NoPassword, PasswordSettings, Challenges
<1>2. CASE known[s] # None /\ check # NoPassword
  <2>1. PICK settings \in PasswordSettings : settings = known[s].settings
      BY <1>2 DEF TypeOK, Known
  <2>2. PICK v \in Verifiers : check = [settings EXCEPT !.verifier = v]
      BY <1>2, <2>1 DEF Checks
  <2> QED
      BY <2>1, <2>2 DEF PasswordSettings
<1> QED
    BY <1>1, <1>2 DEF Checks

(* checkPassword begins with a proof the client can make.                  *)
LEMMA CheckPasswordInv ==
    ASSUME TwoFactorInv, NEW s \in Sessions, NEW check \in Checks(s), CheckPassword(s, check)
    PROVE  TwoFactorInv'
<1>a. TypeOK /\ call = None /\ UNCHANGED <<rows, made, known, password, raced>>
      /\ check \in PasswordSettings
    BY ChecksType DEF TwoFactorInv, CheckPassword
<1>1. CASE authorizations[s] = None
  <2>1. Reply(s, check, "PASSWORD_HASH_INVALID") /\ call' = None
      BY <1>1, <1>a DEF CheckPassword
  <2>2. /\ answer' \in Answer
        /\ answer'.live => known[s] # None /\ known[s].live
      BY <1>a, <2>1, ReplyType DEF Results
  <2>3. ~ answer'.live
      BY <1>1, <2>2 DEF TwoFactorInv, KnownInv, IsOf
  <2> QED
      BY <1>a, <2>1, <2>2, <2>3, NoCallInv, HandlerMoves DEF LiveProofAccepted
<1>2. CASE authorizations[s] # None
  <2>1. call' = NewCall("check", s, check) /\ answer' = NoAnswer
      BY <1>2 DEF CheckPassword
  <2>2. /\ call' \in Call /\ call'.op = "check" /\ call'.pc = "load" /\ call'.session = s
        /\ call'.user = authorizations[s].user
      BY <1>2, <1>a, <2>1, NewCallType
  <2>3. CallInv'
    <3>1. known[s] # None /\ known[s].live => authorizations[s].user = known[s].settings.srp_id
        BY DEF TwoFactorInv, KnownInv, IsOf
    <3> QED
        BY <1>a, <2>2, <3>1 DEF CallInv, Running
  <2>4. answer' \in Answer /\ LiveProofAccepted'
      BY <2>1 DEF NoAnswer, Answer, Results, LiveProofAccepted
  <2> QED
      BY <1>a, <2>2, <2>3, <2>4, HandlerMoves
<1> QED
    BY <1>1, <1>2

(* CheckSrp accepts a right proof, and what it accepts names the verifier  *)
(* of the row.                                                             *)
LEMMA CheckSrpMeets ==
    ASSUME NEW settings \in PasswordSettings, NEW check \in PasswordSettings
    PROVE  /\ CheckSrp(settings, check) \in Results
           /\ CheckSrp(settings, check) = "ok" => check.verifier = settings.verifier
           /\ check = settings /\ settings.srp_id # None /\ settings.b # 0
                => CheckSrp(settings, check) = "ok"
BY DEF CheckSrp, Results

(* checkPassword compares the proof with the row: a proof of the current   *)
(* challenge and verifier is accepted.                                     *)
LEMMA CheckPasswordLoadInv ==
    ASSUME TwoFactorInv, CheckPasswordLoad
    PROVE  TwoFactorInv'
<1> DEFINE settings == account_passwords[call.user]
           result == CheckSrp(settings, call.check)
<1>a. /\ TypeOK /\ call # None /\ call.op = "check"
      /\ UNCHANGED <<rows, made, known, password, raced>>
    BY DEF TwoFactorInv, CheckPasswordLoad, Running
<1>b. /\ call \in Call /\ call.user \in Users /\ call.session \in Sessions
      /\ call.check \in PasswordSettings /\ settings \in PasswordSettings
    BY <1>a DEF TypeOK, Call, PasswordCheck
<1>c. result \in Results
    BY <1>b, CheckSrpMeets
<1>1. CASE result = "ok"
  <2>1. /\ call' = [call EXCEPT !.pc = IF call.pending THEN "mark" ELSE "user",
                                !.against = password[call.user]]
        /\ answer' = answer
      BY <1>1 DEF CheckPasswordLoad
  <2>2. /\ call' \in Call /\ call'.op = "check" /\ call'.check = call.check
        /\ call'.session = call.session /\ call'.user = call.user
        /\ call'.against = password[call.user]
      BY <1>a, <1>b, <2>1 DEF TypeOK, Call
  <2>3. call.check.verifier = password[call.user] \/ call.user \in raced
    <3>1. call.check.verifier = settings.verifier
        BY <1>b, <1>1, CheckSrpMeets
    <3> QED
        BY <1>b, <3>1 DEF TwoFactorInv, RowsCurrent
  <2>4. CallInv'
      BY <1>a, <2>2, <2>3 DEF TwoFactorInv, CallInv, Running
  <2>5. answer' \in Answer /\ LiveProofAccepted'
      BY <1>a, <2>1 DEF TypeOK, TwoFactorInv, LiveProofAccepted
  <2> QED
      BY <1>a, <2>2, <2>4, <2>5, HandlerMoves
<1>2. CASE result # "ok"
  <2>1. Reply(call.session, call.check, result) /\ call' = None
      BY <1>2 DEF CheckPasswordLoad
  <2>2. /\ answer' \in Answer
        /\ answer'.right => known[call.session] # None /\ call.check = known[call.session].settings
        /\ answer'.live => known[call.session] # None /\ known[call.session].live
      BY <1>a, <1>b, <1>c, <2>1, ReplyType
  <2>3. ~ (answer'.right /\ answer'.live)
    <3> SUFFICES ASSUME answer'.right, answer'.live PROVE FALSE
        OBVIOUS
    <3>1. call.user = known[call.session].settings.srp_id
        BY <1>a, <2>2 DEF TwoFactorInv, CallInv
    <3>2. settings = call.check /\ settings.b # 0
        BY <1>b, <2>2, <3>1 DEF TwoFactorInv, KnownInv
    <3>3. settings.srp_id # None
        BY <1>b, <2>2, <3>1, <3>2, TwoFactorConstants
    <3> QED
        BY <1>b, <1>2, <3>2, <3>3, CheckSrpMeets
  <2> QED
      BY <1>a, <2>1, <2>2, <2>3, NoCallInv, HandlerMoves DEF LiveProofAccepted
<1> QED
    BY <1>1, <1>2

(* The handlers that end without touching a row.                           *)
LEMMA ReturnInv ==
    ASSUME TwoFactorInv, CheckPasswordUser \/ DbError
    PROVE  TwoFactorInv'
<1>a. /\ TypeOK /\ call # None /\ call' = None
      /\ UNCHANGED <<rows, made, known, password, raced>>
    BY DEF TwoFactorInv, CheckPasswordUser, DbError, Running
<1>b. call.session \in Sessions /\ call.check \in PasswordSettings
    BY <1>a DEF TypeOK, Call, PasswordCheck
<1>1. CASE \E result \in {"ok", "INTERNAL"} : Reply(call.session, call.check, result)
  <2>1. answer' \in Answer /\ answer'.result \in {"ok", "INTERNAL"}
      BY <1>1, <1>a, <1>b, ReplyType DEF Results
  <2> QED
      BY <1>a, <2>1, NoCallInv, HandlerMoves DEF LiveProofAccepted
<1>2. CASE answer' = answer
  <2>1. answer' \in Answer /\ LiveProofAccepted'
      BY <1>2, <1>a DEF TypeOK, TwoFactorInv, LiveProofAccepted
  <2> QED
      BY <1>a, <2>1, NoCallInv, HandlerMoves
<1> QED
    BY <1>1, <1>2 DEF CheckPasswordUser, DbError

(* What MarkPasswordPassed writes.                                         *)
LEMMA MarkWrites ==
    ASSUME TypeOK, NEW s \in Sessions, NEW u \in Users, IsPending(s, u),
           authorizations' = [authorizations EXCEPT ![s].password_pending = FALSE, ![s].by = u]
    PROVE  /\ authorizations' \in [Sessions -> Authorization \cup {None}]
           /\ authorizations'[s] # None /\ authorizations'[s].user = u /\ authorizations'[s].by = u
           /\ \A t \in Sessions : t # s => authorizations'[t] = authorizations[t]
<1>1. authorizations[s] \in Authorization /\ authorizations[s].user = u
    BY DEF TypeOK, IsPending, IsOf
<1>2. PICK a \in Authorization : a = authorizations[s]
    BY <1>1
<1>3. authorizations' = [authorizations EXCEPT ![s] =
                           [a EXCEPT !.password_pending = FALSE, !.by = u]]
    BY <1>2 DEF TypeOK
<1>4. /\ [a EXCEPT !.password_pending = FALSE, !.by = u] \in Authorization
      /\ [a EXCEPT !.password_pending = FALSE, !.by = u].user = u
      /\ [a EXCEPT !.password_pending = FALSE, !.by = u].by = u
    BY <1>1, <1>2 DEF Authorization
<1> QED
    BY <1>3, <1>4, NoneIsNoRecord DEF TypeOK

(* The login is completed only while it is still this user's.              *)
LEMMA MarkPasswordPassedInv ==
    ASSUME TwoFactorInv, MarkPasswordPassed
    PROVE  TwoFactorInv'
<1>a. /\ TypeOK /\ call # None /\ call.op = "check"
      /\ UNCHANGED <<account_passwords, made, known, password, raced>>
    BY DEF TwoFactorInv, MarkPasswordPassed, Running
<1>b. /\ call \in Call /\ call.user \in Users /\ call.session \in Sessions
      /\ call.check \in PasswordSettings
    BY <1>a DEF TypeOK, Call, PasswordCheck
<1>1. CASE IsPending(call.session, call.user)
  <2>1. /\ authorizations' = [authorizations EXCEPT ![call.session].password_pending = FALSE,
                                                    ![call.session].by = call.user]
        /\ call' = [call EXCEPT !.pc = "user"] /\ answer' = answer
      BY <1>1 DEF MarkPasswordPassed
  <2>2. /\ authorizations' \in [Sessions -> Authorization \cup {None}]
        /\ authorizations'[call.session] # None
        /\ authorizations'[call.session].user = call.user
        /\ authorizations'[call.session].by = call.user
        /\ \A t \in Sessions : t # call.session => authorizations'[t] = authorizations[t]
      BY <1>1, <1>a, <1>b, <2>1, MarkWrites
  <2>3. /\ call' \in Call /\ call'.op = "check" /\ call'.pc = "user"
        /\ call'.session = call.session /\ call'.user = call.user
      BY <1>a, <1>b, <2>1 DEF Call
  <2>4. TypeOK'
      BY <1>a, <2>1, <2>2, <2>3 DEF TypeOK
  <2>5. CallInv'
      BY <1>a, <2>3 DEF TwoFactorInv, CallInv, Running
  <2>6. ASSUME NEW t \in Sessions, authorizations[t] # None
        PROVE  authorizations'[t] # None /\ authorizations'[t].user = authorizations[t].user
      BY <1>1, <2>2, <2>6 DEF IsOf, IsPending
  <2>7. KnownInv'
      BY <1>a, <2>6 DEF TwoFactorInv, KnownInv, IsOf
  <2>8. CompletedByOwner'
      BY <1>b, <2>2 DEF TwoFactorInv, CompletedByOwner
  <2> QED
      BY <1>a, <2>1, <2>4, <2>5, <2>7, <2>8 DEF TwoFactorInv, RowsCurrent, LiveProofAccepted
<1>2. CASE ~ IsPending(call.session, call.user)
  <2>1. Reply(call.session, call.check, "INTERNAL") /\ call' = None
        /\ authorizations' = authorizations
      BY <1>2 DEF MarkPasswordPassed
  <2>2. answer' \in Answer /\ answer'.result = "INTERNAL"
      BY <1>a, <1>b, <2>1, ReplyType DEF Results
  <2> QED
      BY <1>a, <2>1, <2>2, NoCallInv, HandlerMoves DEF LiveProofAccepted, rows
<1> QED
    BY <1>1, <1>2
-----------------------------------------------------------------------------

(* A password is set or removed: no challenge of that user stays live.     *)
LEMMA SetPasswordInv ==
    ASSUME TwoFactorInv, NEW u \in Users, NEW v \in Verifiers \cup {None}, SetPassword(u, v)
    PROVE  TwoFactorInv'
<1>a. /\ TypeOK /\ UNCHANGED <<authorizations, call, made, answer>>
      /\ password' = [password EXCEPT ![u] = v] /\ known' = Outdated(u)
    BY DEF TwoFactorInv, SetPassword
<1>b. /\ account_passwords' \in [Users -> PasswordSettings]
      /\ account_passwords'[u].verifier = v
      /\ \A w \in Users : w # u => account_passwords'[w] = account_passwords[w]
  <2>1. PICK settings \in PasswordSettings : settings = account_passwords[u]
      BY <1>a DEF TypeOK
  <2>2. account_passwords' = [account_passwords EXCEPT ![u] =
                                [settings EXCEPT !.verifier = v, !.b = 0]]
      BY <1>a, <2>1 DEF SetPassword, TypeOK
  <2>3. /\ [settings EXCEPT !.verifier = v, !.b = 0] \in PasswordSettings
        /\ [settings EXCEPT !.verifier = v, !.b = 0].verifier = v
    <3>1. 0 \in Challenges
        BY TwoFactorConstants DEF Challenges
    <3> QED
        BY <3>1 DEF PasswordSettings
  <2> QED
      BY <1>a, <2>2, <2>3 DEF TypeOK
<1>c. /\ raced \subseteq raced' /\ raced' \subseteq Users
      /\ Running("get", "save") /\ call.user = u => u \in raced'
    BY <1>a DEF SetPassword, TypeOK
<1>1. TypeOK'
    BY <1>a, <1>b, <1>c, OutdatedKeeps DEF TypeOK
<1>2. RowsCurrent'
    BY <1>a, <1>b, <1>c DEF TwoFactorInv, RowsCurrent, TypeOK
<1>3. ASSUME NEW s \in Sessions, known'[s] # None, known'[s].live
      PROVE  known'[s] = known[s] /\ known[s].settings.srp_id # u
    BY <1>a, <1>3, OutdatedKeeps
<1>4. KnownInv'
    BY <1>a, <1>b, <1>3 DEF TwoFactorInv, KnownInv, IsOf, TypeOK, Authorization
<1>5. CallInv'
  <2>1. call # None => call.session \in Sessions /\ call.user \in Users
      BY <1>a DEF TypeOK, Call
  <2>2. Running("get", "save") => password'[call.user] = password[call.user] \/ call.user = u
      BY <1>a, <2>1 DEF TypeOK, Running
  <2> QED
      BY <1>a, <1>c, <1>3, <2>1, <2>2 DEF TwoFactorInv, CallInv, Running
<1>6. CompletedByOwner' /\ LiveProofAccepted'
    BY <1>a DEF TwoFactorInv, CompletedByOwner, LiveProofAccepted
<1> QED
    BY <1>1, <1>2, <1>4, <1>5, <1>6 DEF TwoFactorInv

(* A login or a logout leaves the session's client without a challenge.    *)
LEMMA RebindInv ==
    ASSUME TwoFactorInv, NEW s \in Sessions, NEW a \in Authorization \cup {None},
           a # None => a.by = None,
           authorizations' = [authorizations EXCEPT ![s] = a],
           known' = [known EXCEPT ![s] = None],
           UNCHANGED <<account_passwords, call, made, answer, password, raced>>
    PROVE  TwoFactorInv'
<1>a. /\ TypeOK
      /\ known'[s] = None /\ \A t \in Sessions : t # s => known'[t] = known[t]
      /\ authorizations'[s] = a
      /\ \A t \in Sessions : t # s => authorizations'[t] = authorizations[t]
    BY DEF TwoFactorInv, TypeOK
<1>1. TypeOK'
    BY <1>a DEF TypeOK
<1>2. KnownInv'
    BY <1>a DEF TwoFactorInv, KnownInv, IsOf
<1>3. CallInv'
  <2>1. call # None => call.session \in Sessions
      BY <1>a DEF TypeOK, Call
  <2> QED
      BY <1>a, <2>1 DEF TwoFactorInv, CallInv, Running
<1>4. CompletedByOwner'
    BY <1>a DEF TwoFactorInv, CompletedByOwner
<1> QED
    BY <1>1, <1>2, <1>3, <1>4 DEF TwoFactorInv, RowsCurrent, LiveProofAccepted

(* A session logs in or out.                                               *)
LEMMA BindDeleteInv ==
    ASSUME TwoFactorInv, NEW s \in Sessions, Delete(s) \/ \E u \in Users : Bind(s, u)
    PROVE  TwoFactorInv'
<1>1. CASE Delete(s)
    BY <1>1, RebindInv DEF Delete
<1>2. CASE \E u \in Users : Bind(s, u)
  <2>1. PICK u \in Users : Bind(s, u)
      BY <1>2
  <2>2. PICK pending \in BOOLEAN : pending = (account_passwords[u].verifier # None)
      OBVIOUS
  <2>3. authorizations' = [authorizations EXCEPT ![s] =
                             [user |-> u, password_pending |-> pending, by |-> None]]
      BY <2>1, <2>2 DEF Bind
  <2>4. /\ [user |-> u, password_pending |-> pending, by |-> None] \in Authorization
        /\ [user |-> u, password_pending |-> pending, by |-> None].by = None
      BY DEF Authorization
  <2> QED
      BY <2>1, <2>3, <2>4, RebindInv DEF Bind
<1> QED
    BY <1>1, <1>2

(* Every step keeps the invariant.                                         *)
LEMMA NextInv == TwoFactorInv /\ [Next]_vars => TwoFactorInv'
<1> SUFFICES ASSUME TwoFactorInv, [Next]_vars PROVE TwoFactorInv'
    OBVIOUS
<1>1. CASE Handler
    BY <1>1, GetPasswordLoadInv, GetPasswordSaveInv, CheckPasswordLoadInv,
       MarkPasswordPassedInv, ReturnInv DEF Handler
<1>2. CASE UNCHANGED vars
    BY <1>2 DEF vars, rows, TwoFactorInv, TypeOK, RowsCurrent, CallInv, KnownInv, IsOf, Running,
       CompletedByOwner, LiveProofAccepted
<1> QED
    BY <1>1, <1>2, GetPasswordInv, CheckPasswordInv, SetPasswordInv, BindDeleteInv DEF Next

(* The invariant holds in every reachable state.                           *)
THEOREM Invariance == Spec => []TwoFactorInv
BY InitInv, NextInv, PTL DEF Spec

(* A pending login is completed only by the password of the user it is     *)
(* for, whoever the auth key logs in as while checkPassword runs.          *)
THEOREM LoginCompletedByOwner == Spec => []CompletedByOwner
<1>1. TwoFactorInv => CompletedByOwner
    BY DEF TwoFactorInv
<1> QED
    BY <1>1, Invariance, PTL

(* A right proof of a challenge that is still the last one is not refused, *)
(* however often it is sent and wherever an earlier try has failed.        *)
THEOREM LiveProofNotRefused == Spec => []LiveProofAccepted
<1>1. TwoFactorInv => LiveProofAccepted
    BY DEF TwoFactorInv
<1> QED
    BY <1>1, Invariance, PTL

(* A login is completed only with the password that the user had set last  *)
(* when the proof was checked, unless a getPassword overwrote that change  *)
(* with the row it had read.                                               *)
THEOREM LoginCompletedWithPassword == Spec => CompletedWithPassword
<1>1. ASSUME TwoFactorInv, [Next]_vars, NEW s \in Sessions,
             authorizations[s] # None, authorizations'[s] # None,
             authorizations[s].by = None, authorizations'[s].by # None
      PROVE  call.check.verifier = call.against \/ call.user \in raced
  <2>1. CASE MarkPasswordPassed
      BY <1>1, <2>1 DEF TwoFactorInv, CallInv, MarkPasswordPassed
  <2>2. CASE ~ MarkPasswordPassed
    <3>1. authorizations' # authorizations
        BY <1>1
    <3>2. PICK t \in Sessions : Delete(t) \/ \E u \in Users : Bind(t, u)
        BY <1>1, <2>2, <3>1 DEF Next, vars, Handler, GetPassword, GetPasswordLoad,
           GetPasswordSave, CheckPassword, CheckPasswordLoad, CheckPasswordUser, DbError,
           SetPassword, rows
    <3>3. authorizations'[t] = None \/ authorizations'[t].by = None
        BY <1>1, <3>2 DEF Delete, Bind, TwoFactorInv, TypeOK
    <3>4. t # s => authorizations'[s] = authorizations[s]
        BY <1>1, <3>2 DEF Delete, Bind, TwoFactorInv, TypeOK
    <3> QED
        BY <1>1, <3>3, <3>4
  <2> QED
      BY <2>1, <2>2
<1>2. TwoFactorInv /\ [Next]_vars =>
        [\A s \in Sessions :
         /\ authorizations[s] # None /\ authorizations'[s] # None
         /\ authorizations[s].by = None /\ authorizations'[s].by # None
         => call.check.verifier = call.against \/ call.user \in raced]_vars
    BY <1>1
<1> QED
    BY <1>2, Invariance, PTL DEF Spec, CompletedWithPassword
=============================================================================
