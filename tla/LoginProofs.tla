---------------------------- MODULE LoginProofs ----------------------------
(***************************************************************************)
(* Proofs about Login, for every number of workers, phones, users, hashes, *)
(* codes, keys and attempts.                                               *)
(***************************************************************************)
EXTENDS Login, TLAPS

(* A worker inside a handler is the only one: db_mutex.                    *)
LEMMA OnlyHolderRuns ==
    ASSUME LoginInv, NEW w \in Workers, call[w] # None
    PROVE  /\ db_mutex = w
           /\ call[w] \in Call
           /\ \A x \in Workers : x # w => call[x] = None
BY LoginConstants DEF LoginInv, MutexInv, TypeOK

(* While db_mutex is free, no worker is inside a handler.                  *)
LEMMA FreeMutexNobodyRuns ==
    ASSUME LoginInv, db_mutex = None
    PROVE  \A x \in Workers : call[x] = None
BY LoginConstants DEF LoginInv, MutexInv, TypeOK

(* An empty code store and no running handler satisfy the invariant.       *)
LEMMA InitLoginInv == Init => LoginInv
<1> SUFFICES ASSUME Init PROVE LoginInv
    OBVIOUS
<1>1. TypeOK
    BY LoginConstants DEF Init, TypeOK, NewEntry, LedgerEntry, Owner
<1>2. MutexInv /\ CallInv
    BY LoginConstants DEF Init, MutexInv, CallInv
<1>3. CodesInv
    BY LoginConstants DEF Init, CodesInv, StoredOK, HistoryOK, NewEntry
<1> QED
    BY <1>1, <1>2, <1>3 DEF LoginInv

(* What VerifyLogin leaves in the store is a record, or nothing.           *)
LEMMA VerifyLoginType ==
    ASSUME NEW rec \in PhoneCode, NEW c \in Codes, NEW keep \in BOOLEAN
    PROVE  VerifyLogin(rec, c, keep) \in PhoneCode \cup {None}
<1>1. CASE rec.code # c /\ rec.attempts + 1 < MaxAttempts
  <2>1. rec.attempts + 1 \in 0 .. MaxAttempts - 1
      BY <1>1, LoginConstants DEF PhoneCode
  <2> QED
      BY <1>1, <2>1, LoginConstants DEF PhoneCode, VerifyLogin
<1>2. CASE rec.code # c /\ rec.attempts + 1 >= MaxAttempts
    BY <1>2 DEF VerifyLogin
<1>3. CASE rec.code = c
    BY <1>3 DEF PhoneCode, VerifyLogin
<1> QED
    BY <1>1, <1>2, <1>3, LoginConstants DEF PhoneCode
-----------------------------------------------------------------------------
(* Leaving a handler, or returning in the step that entered it, leaves no  *)
(* worker inside one.                                                      *)
LEMMA LeaveEmpties ==
    ASSUME LoginInv, NEW w \in Workers,
           (call[w] # None /\ Leave(w)) \/ EnterAndLeave
    PROVE  /\ MutexInv' /\ CallInv'
           /\ db_mutex' = None
           /\ call' = [x \in Workers |-> None]
<1>1. call \in [Workers -> Call \cup {None}] /\ db_mutex \in Workers \cup {None}
    BY DEF LoginInv, TypeOK
<1>2. CASE call[w] # None /\ Leave(w)
  <2>1. \A x \in Workers : call'[x] = None
      BY <1>1, <1>2, OnlyHolderRuns DEF Leave
  <2> QED
      BY <1>1, <1>2, <2>1, LoginConstants DEF Leave, MutexInv, CallInv
<1>3. CASE EnterAndLeave
  <2>1. \A x \in Workers : call'[x] = None
      BY <1>3, FreeMutexNobodyRuns DEF EnterAndLeave
  <2> QED
      BY <1>1, <1>3, <2>1, LoginConstants DEF EnterAndLeave, MutexInv, CallInv
<1> QED
    BY <1>2, <1>3

(* Entering a handler with a call that satisfies CallInv.                  *)
LEMMA EnterKeeps ==
    ASSUME LoginInv, NEW w \in Workers, NEW c \in Call, Enter(w, c)
    PROVE  /\ MutexInv'
           /\ db_mutex' = w
           /\ call' \in [Workers -> Call \cup {None}]
           /\ call'[w] = c
           /\ \A x \in Workers : x # w => call'[x] = None
<1>1. call \in [Workers -> Call \cup {None}] /\ db_mutex \in Workers \cup {None}
    BY DEF LoginInv, TypeOK
<1>2. /\ call'[w] = c
      /\ \A x \in Workers : x # w => call'[x] = None
      /\ call' \in [Workers -> Call \cup {None}]
    BY <1>1, FreeMutexNobodyRuns DEF Enter
<1>3. MutexInv'
    BY <1>2, NoneIsNoRecord DEF Enter, MutexInv
<1> QED
    BY <1>2, <1>3 DEF Enter

(* Moving on inside a handler.                                             *)
LEMMA ContinueKeeps ==
    ASSUME LoginInv, NEW w \in Workers, call[w] # None, NEW c \in Call, Continue(w, c)
    PROVE  /\ MutexInv'
           /\ db_mutex' = w
           /\ call' \in [Workers -> Call \cup {None}]
           /\ call'[w] = c
           /\ \A x \in Workers : x # w => call'[x] = None
<1>1. call \in [Workers -> Call \cup {None}] /\ db_mutex = w
    BY OnlyHolderRuns DEF LoginInv, TypeOK
<1>2. /\ call'[w] = c
      /\ \A x \in Workers : x # w => call'[x] = None
      /\ call' \in [Workers -> Call \cup {None}]
    BY <1>1, OnlyHolderRuns DEF Continue
<1>3. MutexInv'
    BY <1>1, <1>2, NoneIsNoRecord DEF Continue, MutexInv
<1> QED
    BY <1>1, <1>2, <1>3 DEF Continue
(* A step on one hash leaves the records of the others as they are.        *)
LEMMA OneHashMoves ==
    ASSUME LoginInv, NEW h \in Hashes, StoredOK(h)', HistoryOK(h)',
           \A g \in Hashes : g # h => codes'[g] = codes[g] /\ ledger'[g] = ledger[g]
    PROVE  CodesInv'
<1> SUFFICES ASSUME NEW g \in Hashes PROVE StoredOK(g)' /\ HistoryOK(g)'
    BY DEF CodesInv
<1>1. CASE g = h
    BY <1>1
<1>2. CASE g # h
  <2>1. codes'[g] = codes[g] /\ ledger'[g] = ledger[g]
      BY <1>2
  <2>2. StoredOK(g) /\ HistoryOK(g)
      BY DEF LoginInv, CodesInv
  <2> QED
      BY <2>1, <2>2 DEF StoredOK, HistoryOK
<1> QED
    BY <1>1, <1>2

(* The same facts about two entries that differ in promised or rejected.   *)
LEMMA MarkKeeps ==
    ASSUME LoginInv, NEW h \in Hashes, ledger[h].used,
           codes'[h] \in {codes[h], None},
           \/ \E b \in BOOLEAN : ledger' = [ledger EXCEPT ![h].promised = b]
           \/ ledger' = [ledger EXCEPT ![h].rejected = TRUE],
           \A g \in Hashes : g # h => codes'[g] = codes[g]
    PROVE  CodesInv' /\ ledger' \in [Hashes -> LedgerEntry]
<1>1. ledger \in [Hashes -> LedgerEntry] /\ StoredOK(h) /\ HistoryOK(h)
    BY DEF LoginInv, TypeOK, CodesInv
<1>2. ledger' \in [Hashes -> LedgerEntry]
    BY <1>1 DEF LedgerEntry
<1>3. /\ ledger'[h].used
      /\ ledger'[h].issued = ledger[h].issued
      /\ ledger'[h].misses = ledger[h].misses
      /\ ledger'[h].matched <=> ledger[h].matched
      /\ ledger'[h].grants = ledger[h].grants
      /\ ledger'[h].created = ledger[h].created
    BY <1>1 DEF LedgerEntry
<1>4. \A g \in Hashes : g # h => ledger'[g] = ledger[g]
    BY <1>1
<1>5. StoredOK(h)' /\ HistoryOK(h)'
    BY <1>1, <1>3 DEF StoredOK, HistoryOK
<1> QED
    BY <1>2, <1>4, <1>5, OneHashMoves

(* A step that ends a handler and touches neither codes nor history.       *)
LEMMA QuietLeave ==
    ASSUME LoginInv, NEW w \in Workers, call[w] # None, Leave(w),
           UNCHANGED <<tables, codes, ledger>>
    PROVE  LoginInv'
<1>1. MutexInv' /\ CallInv' /\ db_mutex' = None /\ call' = [x \in Workers |-> None]
    BY LeaveEmpties
<1>2. TypeOK'
    BY <1>1 DEF LoginInv, TypeOK, tables
<1>3. CodesInv'
    BY DEF LoginInv, CodesInv, StoredOK, HistoryOK
<1> QED
    BY <1>1, <1>2, <1>3 DEF LoginInv

(* A step that ends a handler, may erase the record of a hash in use, and  *)
(* marks its history.                                                      *)
LEMMA MarkLeaves ==
    ASSUME LoginInv, NEW w \in Workers, NEW h \in Hashes, ledger[h].used,
           (call[w] # None /\ Leave(w)) \/ EnterAndLeave,
           codes' \in {codes, [codes EXCEPT ![h] = None]},
           \/ \E b \in BOOLEAN : ledger' = [ledger EXCEPT ![h].promised = b]
           \/ ledger' = [ledger EXCEPT ![h].rejected = TRUE],
           UNCHANGED tables
    PROVE  LoginInv'
<1>1. MutexInv' /\ CallInv' /\ db_mutex' = None /\ call' = [x \in Workers |-> None]
    BY LeaveEmpties
<1>2. /\ codes' \in [Hashes -> PhoneCode \cup {None}]
      /\ codes'[h] \in {codes[h], None}
      /\ \A g \in Hashes : g # h => codes'[g] = codes[g]
    BY DEF LoginInv, TypeOK
<1>3. CodesInv' /\ ledger' \in [Hashes -> LedgerEntry]
    BY <1>2, MarkKeeps
<1>4. TypeOK'
    BY <1>1, <1>2, <1>3 DEF LoginInv, TypeOK, tables
<1> QED
    BY <1>1, <1>3, <1>4 DEF LoginInv
(* Inside a handler, a step that changes only the call.                    *)
LEMMA OnlyCallMoves ==
    ASSUME LoginInv, NEW w \in Workers, call[w] # None, NEW c \in Call, Continue(w, c),
           UNCHANGED <<tables, codes, ledger>>
    PROVE  TypeOK' /\ MutexInv' /\ CodesInv'
<1>1. MutexInv' /\ db_mutex' = w /\ call' \in [Workers -> Call \cup {None}]
    BY ContinueKeeps
<1>2. TypeOK'
    BY <1>1 DEF LoginInv, TypeOK, tables
<1>3. CodesInv'
    BY DEF LoginInv, CodesInv, StoredOK, HistoryOK
<1> QED
    BY <1>1, <1>2, <1>3

-----------------------------------------------------------------------------
(* auth.sendCode                                                           *)

(* A fresh hash gets a record and a history that agree.                    *)
LEMMA IssueKeeps ==
    ASSUME LoginInv, NEW p \in Phones, NEW h \in Hashes, NEW c \in Codes, Issue(p, h, c)
    PROVE  /\ codes' \in [Hashes -> PhoneCode \cup {None}]
           /\ ledger' \in [Hashes -> LedgerEntry]
           /\ codes'[h] # None /\ ~codes'[h].verified
           /\ CodesInv'
<1> DEFINE rec == [issued |-> owner[p], verified |-> FALSE, phone |-> p,
                   code |-> c, attempts |-> 0]
<1>1. owner[p] \in Owner
    BY DEF LoginInv, TypeOK
<1>2. rec \in PhoneCode /\ rec # None
  <2>1. 0 \in 0 .. MaxAttempts - 1
      BY LoginConstants
  <2>2. rec \in PhoneCode
      BY <1>1, <2>1 DEF PhoneCode
  <2> HIDE DEF rec
  <2> QED
      BY <2>2, NoneIsNoRecord
<1>3. rec.verified = FALSE /\ rec.issued = owner[p] /\ rec.attempts = 0
    OBVIOUS
<1>4. /\ ledger[h] \in LedgerEntry
      /\ ~ledger[h].used
      /\ ledger[h].misses = 0 /\ ~ledger[h].matched
      /\ ledger[h].grants = 0 /\ ledger[h].created = None
    BY DEF LoginInv, TypeOK, CodesInv, HistoryOK, Issue, LedgerEntry
<1>5. /\ codes' = [codes EXCEPT ![h] = rec]
      /\ ledger' = [ledger EXCEPT ![h].used = TRUE, ![h].issued = owner[p]]
    BY DEF Issue
<1> HIDE DEF rec
<1>6. /\ codes' \in [Hashes -> PhoneCode \cup {None}]
      /\ ledger' \in [Hashes -> LedgerEntry]
    BY <1>1, <1>2, <1>5 DEF LoginInv, TypeOK, LedgerEntry
<1>7. /\ codes'[h] = rec
      /\ ledger'[h].used
      /\ ledger'[h].issued = owner[p]
      /\ ledger'[h].misses = 0 /\ ~ledger'[h].matched
      /\ ledger'[h].grants = 0 /\ ledger'[h].created = None
      /\ \A g \in Hashes : g # h => codes'[g] = codes[g] /\ ledger'[g] = ledger[g]
    BY <1>4, <1>5 DEF LoginInv, TypeOK, LedgerEntry
<1>8. StoredOK(h)' /\ HistoryOK(h)'
    BY <1>2, <1>3, <1>7, LoginConstants DEF StoredOK, HistoryOK
<1>9. CodesInv'
    BY <1>7, <1>8, OneHashMoves
<1> QED
    BY <1>2, <1>3, <1>6, <1>7, <1>9

(* sendCode without a webhook preserves the invariant.                     *)
LEMMA SendFixedCodeInv ==
    ASSUME LoginInv, NEW w \in Workers, NEW p \in Phones, NEW h \in Hashes,
           SendFixedCode(w, p, h)
    PROVE  LoginInv'
<1>1. MutexInv' /\ CallInv' /\ db_mutex' = None /\ call' = [x \in Workers |-> None]
    BY LeaveEmpties DEF SendFixedCode
<1>2. Issue(p, h, FixedCode) /\ FixedCode \in Codes
    BY LoginConstants DEF SendFixedCode
<1>3. TypeOK'
    BY <1>1, <1>2, IssueKeeps DEF LoginInv, TypeOK, Issue, tables
<1> QED
    BY <1>1, <1>2, <1>3, IssueKeeps DEF LoginInv

(* sendCode with a webhook enters the delivery with a fresh record.        *)
LEMMA SendRandomCodeInv ==
    ASSUME LoginInv, NEW w \in Workers, NEW p \in Phones, NEW h \in Hashes,
           NEW c \in Codes, SendRandomCode(w, p, h, c)
    PROVE  LoginInv'
<1> DEFINE nc == NewCall("deliver", None, p, h, None)
<1>1. nc \in Call
    BY DEF NewCall, Call, Pcs, Owner
<1>2. Enter(w, nc) /\ Issue(p, h, c)
    BY DEF SendRandomCode
<1>3. /\ MutexInv' /\ db_mutex' = w
      /\ call' \in [Workers -> Call \cup {None}]
      /\ call'[w] = nc
      /\ \A x \in Workers : x # w => call'[x] = None
    BY <1>1, <1>2, EnterKeeps
<1>4. TypeOK'
    BY <1>2, <1>3, IssueKeeps DEF LoginInv, TypeOK, Issue, tables
<1>5. CallInv'
    BY <1>2, <1>3, IssueKeeps DEF CallInv, NewCall
<1> QED
    BY <1>2, <1>3, <1>4, <1>5, IssueKeeps DEF LoginInv

(* Rolling back an undelivered code preserves the invariant.               *)
LEMMA DeliveryFailedInv ==
    ASSUME LoginInv, NEW w \in Workers, DeliveryFailed(w)
    PROVE  LoginInv'
<1>1. PICK h \in Hashes : h = call[w].hash
    BY OnlyHolderRuns DEF DeliveryFailed, At, Call
<1>2. ledger[h].used
    BY <1>1 DEF LoginInv, CallInv, CodesInv, StoredOK, DeliveryFailed, At
<1> QED
    BY <1>1, <1>2, MarkLeaves DEF DeliveryFailed, At

-----------------------------------------------------------------------------
(* auth.signIn                                                             *)

(* signIn goes on with an unverified record issued to today's owner.       *)
LEMMA SignInEntersInv ==
    ASSUME LoginInv, NEW w \in Workers, NEW k \in Keys, NEW p \in Phones,
           NEW h \in Hashes, NEW c \in Codes, SignIn(w, k, p, h, c)
    PROVE  LoginInv'
<1> DEFINE nc == [NewCall("verify", k, p, h, c) EXCEPT !.before = owner[p]]
<1>1. nc \in Call
    BY DEF NewCall, Call, Pcs, Owner, LoginInv, TypeOK
<1>2. /\ MutexInv' /\ db_mutex' = w
      /\ call' \in [Workers -> Call \cup {None}]
      /\ call'[w] = nc
      /\ \A x \in Workers : x # w => call'[x] = None
    BY <1>1, EnterKeeps DEF SignIn
<1>3. UNCHANGED <<owner, rows, deleted, password, authz, codes, ledger>>
    BY DEF SignIn, tables
<1>4. TypeOK' /\ CodesInv'
    BY <1>2, <1>3 DEF LoginInv, TypeOK, CodesInv, StoredOK, HistoryOK
<1>5. /\ nc.pc = "verify" /\ nc.key = k /\ nc.hash = h /\ nc.before = owner[p]
      /\ nc.code = c
    BY DEF NewCall
<1> HIDE DEF nc
<1>6. CallInv'
    BY <1>2, <1>3, <1>5 DEF CallInv, SignIn, Found
<1> QED
    BY <1>2, <1>4, <1>6 DEF LoginInv

(* SignInStale, SignInAgain: handlers that return at once.                 *)
LEMMA SignInReturnsInv ==
    ASSUME LoginInv, NEW w \in Workers, NEW p \in Phones, NEW h \in Hashes, NEW c \in Codes,
           \/ SignInStale(w, p, h)
           \/ SignInAgain(w, p, h, c)
           \/ SignUpStale(w, p, h)
    PROVE  LoginInv'
<1>1. ledger[h].used
    BY DEF LoginInv, CodesInv, StoredOK, SignInStale, SignInAgain, SignUpStale, Verified, Found
<1> QED
    BY <1>1, MarkLeaves DEF SignInStale, SignInAgain, SignUpStale, Del

(* The ends of signIn that change a record's history.                      *)
LEMMA SignInEndsInv ==
    ASSUME LoginInv, NEW w \in Workers,
           SignInDrifted(w) \/ SignInNeedsSignUp(w) \/ SignInGone(w)
    PROVE  LoginInv'
<1>1. PICK h \in Hashes : h = call[w].hash
    BY OnlyHolderRuns DEF SignInDrifted, SignInNeedsSignUp, SignInGone, At, Call
<1>2. ledger[h].used
    BY <1>1 DEF LoginInv, CallInv, Taken, SignInDrifted, SignInNeedsSignUp, SignInGone, At
<1> QED
    BY <1>1, <1>2, MarkLeaves DEF SignInDrifted, SignInNeedsSignUp, SignInGone, At, Del

(* VerifyLogin counts a miss, marks the record or takes it out.            *)
LEMMA SignInVerifyInv ==
    ASSUME LoginInv, NEW w \in Workers, SignInVerify(w)
    PROVE  LoginInv'
<1>1. call[w] # None /\ call[w] \in Call /\ call[w].pc = "verify"
    BY OnlyHolderRuns DEF SignInVerify, At
<1>2. PICK h \in Hashes : h = call[w].hash
    BY <1>1 DEF Call
<1>3. PICK b \in Owner : b = call[w].before
    BY <1>1 DEF Call
<1> DEFINE ok == codes[h].code = call[w].code
           nc == [call[w] EXCEPT !.pc = "after", !.accepted = ok]
           rec == codes[h]
           rec2 == VerifyLogin(rec, call[w].code, b = None)
<1>4. /\ rec # None /\ rec \in PhoneCode /\ ~rec.verified /\ rec.issued = b
      /\ ledger[h] \in LedgerEntry
      /\ StoredOK(h) /\ HistoryOK(h)
    BY <1>1, <1>2, <1>3 DEF LoginInv, CallInv, TypeOK, CodesInv
<1>5. call[w].key \in Keys
    BY <1>1 DEF LoginInv, CallInv
<1>6. nc \in Call
    BY <1>1 DEF Call, Pcs
<1>7. /\ MutexInv' /\ db_mutex' = w
      /\ call' \in [Workers -> Call \cup {None}]
      /\ call'[w] = nc
      /\ \A x \in Workers : x # w => call'[x] = None
    BY <1>1, <1>2, <1>6, ContinueKeeps DEF SignInVerify
<1>8. /\ nc.pc = "after" /\ nc.key = call[w].key /\ nc.hash = h /\ nc.before = b
      /\ nc.accepted <=> ok
    BY <1>1, <1>2, <1>3 DEF Call
<1>9. /\ codes' = [codes EXCEPT ![h] = rec2]
      /\ ledger' = [ledger EXCEPT ![h].matched = @ \/ ok,
                                  ![h].misses = IF ok THEN @ ELSE @ + 1]
    BY <1>2, <1>3 DEF SignInVerify
<1>10. rec2 \in PhoneCode \cup {None}
  <2>1. call[w].code \in Codes
      BY <1>1 DEF LoginInv, CallInv
  <2> QED
      BY <1>4, <2>1, VerifyLoginType
<1>11. /\ codes' \in [Hashes -> PhoneCode \cup {None}]
       /\ codes'[h] = rec2
       /\ \A g \in Hashes : g # h => codes'[g] = codes[g]
    BY <1>9, <1>10 DEF LoginInv, TypeOK
<1>12. /\ ledger' \in [Hashes -> LedgerEntry]
       /\ \A g \in Hashes : g # h => ledger'[g] = ledger[g]
  <2>1. ledger \in [Hashes -> LedgerEntry]
      BY DEF LoginInv, TypeOK
  <2>2. ok \in BOOLEAN
      OBVIOUS
  <2> DEFINE m == ledger[h].matched \/ ok
             n == IF ok THEN ledger[h].misses ELSE ledger[h].misses + 1
             entry == [ledger[h] EXCEPT !.matched = m, !.misses = n]
  <2>3. m \in BOOLEAN
      BY <1>4, <2>2 DEF LedgerEntry
  <2>4. n \in Nat
      BY <1>4 DEF LedgerEntry
  <2>5. ledger' = [ledger EXCEPT ![h] = entry]
      BY <1>9, <2>1
  <2> HIDE DEF m, n
  <2>6. entry \in LedgerEntry
      BY <1>4, <2>3, <2>4 DEF LedgerEntry
  <2> HIDE DEF entry
  <2> QED
      BY <2>1, <2>5, <2>6
<1>13. /\ ledger'[h].used <=> ledger[h].used
       /\ ledger'[h].issued = ledger[h].issued
       /\ ledger'[h].misses = IF ok THEN ledger[h].misses ELSE ledger[h].misses + 1
       /\ ledger'[h].matched <=> ledger[h].matched \/ ok
       /\ ledger'[h].grants = ledger[h].grants
       /\ ledger'[h].created = ledger[h].created
    BY <1>4, <1>9 DEF LoginInv, TypeOK, LedgerEntry
<1>14. /\ ledger[h].used /\ ledger[h].issued = b
       /\ ledger[h].misses = rec.attempts /\ ~ledger[h].matched
       /\ ledger[h].created = None /\ ledger[h].grants = 0
    BY <1>4 DEF StoredOK
<1>15. rec.attempts \in 0 .. MaxAttempts - 1
    BY <1>4 DEF PhoneCode
<1>16. TypeOK'
    BY <1>7, <1>11, <1>12 DEF LoginInv, TypeOK, SignInVerify, tables
<1>17. UNCHANGED tables
    BY DEF SignInVerify
<1>18. CASE ~ok /\ rec.attempts + 1 < MaxAttempts
  <2>1. rec2 = [rec EXCEPT !.attempts = @ + 1]
      BY <1>15, <1>18, LoginConstants DEF VerifyLogin
  <2>2. rec2.attempts = rec.attempts + 1 /\ rec2.issued = b /\ ~rec2.verified
      BY <1>4, <2>1 DEF PhoneCode
  <2> HIDE DEF rec2, ok, nc
  <2>3. StoredOK(h)' /\ HistoryOK(h)'
      BY <1>11, <1>13, <1>14, <1>15, <1>18, <2>2, LoginConstants DEF StoredOK, HistoryOK
  <2>4. CallInv'
      BY <1>5, <1>7, <1>8, <1>13, <1>14, <1>18 DEF CallInv
  <2> QED
      BY <1>7, <1>11, <1>12, <1>16, <2>3, <2>4, OneHashMoves DEF LoginInv
<1>19. CASE ~ok /\ rec.attempts + 1 >= MaxAttempts
  <2>1. rec2 = None
      BY <1>19 DEF VerifyLogin
  <2> HIDE DEF rec2, ok, nc
  <2>2. StoredOK(h)' /\ HistoryOK(h)'
      BY <1>11, <1>13, <1>14, <1>15, <1>19, <2>1, LoginConstants DEF StoredOK, HistoryOK
  <2>3. CallInv'
      BY <1>5, <1>7, <1>8, <1>13, <1>14, <1>19 DEF CallInv
  <2> QED
      BY <1>7, <1>11, <1>12, <1>16, <2>2, <2>3, OneHashMoves DEF LoginInv
<1>20. CASE ok /\ b = None
  <2>1. rec2 = [rec EXCEPT !.verified = TRUE]
      BY <1>20 DEF VerifyLogin
  <2>2. /\ rec2.attempts = rec.attempts /\ rec2.issued = b /\ rec2.verified
        /\ rec2 # None
      BY <1>4, <2>1, NoneIsNoRecord DEF PhoneCode
  <2> HIDE DEF rec2, ok, nc
  <2>3. StoredOK(h)' /\ HistoryOK(h)'
      BY <1>11, <1>13, <1>14, <1>15, <1>20, <2>2, LoginConstants DEF StoredOK, HistoryOK
  <2>4. CallInv'
      BY <1>5, <1>7, <1>8, <1>11, <1>13, <1>14, <1>20, <2>2 DEF CallInv
  <2> QED
      BY <1>7, <1>11, <1>12, <1>16, <2>3, <2>4, OneHashMoves DEF LoginInv
<1>21. CASE ok /\ b # None
  <2>1. rec2 = None
      BY <1>21 DEF VerifyLogin
  <2> HIDE DEF rec2, ok, nc
  <2>2. StoredOK(h)' /\ HistoryOK(h)'
      BY <1>11, <1>13, <1>14, <1>15, <1>21, <2>1, LoginConstants DEF StoredOK, HistoryOK
  <2>3. CallInv'
      BY <1>5, <1>7, <1>8, <1>11, <1>13, <1>14, <1>21, <2>1 DEF CallInv, Taken
  <2> QED
      BY <1>7, <1>11, <1>12, <1>16, <2>2, <2>3, OneHashMoves DEF LoginInv
<1> QED
    BY <1>15, <1>18, <1>19, <1>20, <1>21, LoginConstants

(* An accepted code of an owned phone has been taken out of the store.     *)
LEMMA SignInAcceptedInv ==
    ASSUME LoginInv, NEW w \in Workers, SignInAccepted(w)
    PROVE  LoginInv'
<1> DEFINE nc == [call[w] EXCEPT !.pc = "load"]
<1>1. call[w] # None /\ call[w] \in Call /\ call[w].pc = "after"
    BY OnlyHolderRuns DEF SignInAccepted, At
<1>2. nc \in Call
    BY <1>1 DEF Call, Pcs
<1>3. TypeOK' /\ MutexInv' /\ CodesInv'
    BY <1>1, <1>2, OnlyCallMoves DEF SignInAccepted
<1>4. call'[w] = nc /\ \A x \in Workers : x # w => call'[x] = None
    BY <1>1, <1>2, ContinueKeeps DEF SignInAccepted
<1>5. CallInv'
    BY <1>1, <1>4 DEF LoginInv, CallInv, SignInAccepted, Taken, Call
<1> QED
    BY <1>3, <1>5 DEF LoginInv

(* The third owner read leaves the taken proof as it is.                   *)
LEMMA SignInLoadInv ==
    ASSUME LoginInv, NEW w \in Workers, SignInLoad(w)
    PROVE  LoginInv'
<1> DEFINE u == owner[call[w].phone]
           nc == [call[w] EXCEPT !.pc = "password", !.user = u]
<1>1. call[w] # None /\ call[w] \in Call /\ call[w].pc = "load"
    BY OnlyHolderRuns DEF SignInLoad, At
<1>2. u \in Users
    BY <1>1 DEF SignInLoad, LoginInv, TypeOK, Call, Owner
<1>3. nc \in Call
    BY <1>1, <1>2 DEF Call, Pcs, Owner
<1>4. TypeOK' /\ MutexInv' /\ CodesInv'
    BY <1>1, <1>3, OnlyCallMoves DEF SignInLoad
<1>5. call'[w] = nc /\ \A x \in Workers : x # w => call'[x] = None
    BY <1>1, <1>3, ContinueKeeps DEF SignInLoad
<1>6. /\ nc.pc = "password" /\ nc.user = u
      /\ nc.key = call[w].key /\ nc.hash = call[w].hash /\ nc.before = call[w].before
    BY <1>1 DEF Call
<1>7. UNCHANGED <<codes, ledger>>
    BY DEF SignInLoad
<1> HIDE DEF nc
<1>8. CallInv'
    BY <1>1, <1>2, <1>5, <1>6, <1>7 DEF LoginInv, CallInv, Taken
<1> QED
    BY <1>4, <1>8 DEF LoginInv

(* Reading password_settings leaves the taken proof as it is.              *)
LEMMA SignInPasswordInv ==
    ASSUME LoginInv, NEW w \in Workers, SignInPassword(w)
    PROVE  LoginInv'
<1> DEFINE nc == [call[w] EXCEPT !.pc = "bind", !.pending = password[call[w].user]]
<1>1. call[w] # None /\ call[w] \in Call /\ call[w].pc = "password"
    BY OnlyHolderRuns DEF SignInPassword, At
<1>2. call[w].user \in Users
    BY <1>1 DEF LoginInv, CallInv
<1>3. nc \in Call
    BY <1>1, <1>2 DEF Call, Pcs, LoginInv, TypeOK
<1>4. TypeOK' /\ MutexInv' /\ CodesInv'
    BY <1>1, <1>3, OnlyCallMoves DEF SignInPassword
<1>5. call'[w] = nc /\ \A x \in Workers : x # w => call'[x] = None
    BY <1>1, <1>3, ContinueKeeps DEF SignInPassword
<1>6. /\ nc.pc = "bind" /\ nc.user = call[w].user
      /\ nc.key = call[w].key /\ nc.hash = call[w].hash /\ nc.before = call[w].before
    BY <1>1 DEF Call
<1>7. UNCHANGED <<codes, ledger>>
    BY DEF SignInPassword
<1> HIDE DEF nc
<1>8. CallInv'
    BY <1>1, <1>2, <1>5, <1>6, <1>7 DEF LoginInv, CallInv, Taken
<1> QED
    BY <1>4, <1>8 DEF LoginInv
-----------------------------------------------------------------------------
(* The authorization is written: the only step that counts a login.        *)
LEMMA BindInv ==
    ASSUME LoginInv, NEW w \in Workers, Bind(w)
    PROVE  LoginInv'
<1>1. call[w] # None /\ call[w] \in Call /\ call[w].pc = "bind"
    BY OnlyHolderRuns DEF Bind, At
<1>2. PICK h \in Hashes : h = call[w].hash
    BY <1>1 DEF Call
<1>3. PICK u \in Users : u = call[w].user
    BY <1>1 DEF LoginInv, CallInv
<1>4. PICK k \in Keys : k = call[w].key
    BY <1>1 DEF LoginInv, CallInv
<1>5. Taken(h) /\ StoredOK(h) /\ HistoryOK(h) /\ ledger[h] \in LedgerEntry
    BY <1>1, <1>2 DEF LoginInv, CallInv, CodesInv, TypeOK
<1>6. MutexInv' /\ CallInv' /\ db_mutex' = None /\ call' = [x \in Workers |-> None]
    BY <1>1, LeaveEmpties DEF Bind
<1>7. ledger' = [ledger EXCEPT ![h].grants = @ + 1, ![h].grantee = u]
    BY <1>2, <1>3 DEF Bind
<1>8. ledger' \in [Hashes -> LedgerEntry]
  <2> DEFINE entry == [ledger[h] EXCEPT !.grants = ledger[h].grants + 1, !.grantee = u]
  <2>1. ledger[h].grants + 1 \in Nat
      BY <1>5 DEF LedgerEntry
  <2>2. entry \in LedgerEntry
      BY <1>5, <2>1 DEF LedgerEntry, Owner
  <2>3. ledger \in [Hashes -> LedgerEntry]
      BY DEF LoginInv, TypeOK
  <2>4. ledger' = [ledger EXCEPT ![h] = entry]
      BY <1>7, <2>3
  <2> HIDE DEF entry
  <2> QED
      BY <2>2, <2>3, <2>4
<1>9. /\ ledger'[h].used /\ ledger'[h].matched
      /\ ledger'[h].misses = ledger[h].misses
      /\ ledger'[h].grants = 1
      /\ \A g \in Hashes : g # h => ledger'[g] = ledger[g]
    BY <1>5, <1>7 DEF LoginInv, TypeOK, LedgerEntry, Taken
<1>10. codes' = codes
    BY DEF Bind
<1>11. StoredOK(h)' /\ HistoryOK(h)'
    BY <1>5, <1>9, <1>10 DEF StoredOK, HistoryOK, Taken
<1>12. CodesInv'
    BY <1>9, <1>10, <1>11, OneHashMoves
<1>13. authz' \in [Keys -> Authorization \cup {None}]
  <2>1. call[w].pending \in BOOLEAN
      BY <1>1 DEF Call
  <2>2. [user |-> u, pending |-> call[w].pending] \in Authorization
      BY <2>1 DEF Authorization
  <2>3. authz' = [authz EXCEPT ![k] = [user |-> u, pending |-> call[w].pending]]
      BY <1>3, <1>4 DEF Bind
  <2> QED
      BY <2>2, <2>3 DEF LoginInv, TypeOK
<1>14. TypeOK'
    BY <1>6, <1>8, <1>13 DEF LoginInv, TypeOK, Bind
<1> QED
    BY <1>6, <1>12, <1>14 DEF LoginInv

-----------------------------------------------------------------------------
(* auth.signUp                                                             *)

(* signUp goes on with a verified record of an unowned phone.              *)
LEMMA SignUpEntersInv ==
    ASSUME LoginInv, NEW w \in Workers, NEW k \in Keys, NEW p \in Phones,
           NEW h \in Hashes, SignUp(w, k, p, h)
    PROVE  LoginInv'
<1> DEFINE nc == NewCall("consume", k, p, h, None)
<1>1. nc \in Call
    BY DEF NewCall, Call, Pcs, Owner
<1>2. /\ MutexInv' /\ db_mutex' = w
      /\ call' \in [Workers -> Call \cup {None}]
      /\ call'[w] = nc
      /\ \A x \in Workers : x # w => call'[x] = None
    BY <1>1, EnterKeeps DEF SignUp
<1>3. UNCHANGED <<owner, rows, deleted, password, authz, codes, ledger>>
    BY DEF SignUp, tables
<1>4. TypeOK' /\ CodesInv'
    BY <1>2, <1>3 DEF LoginInv, TypeOK, CodesInv, StoredOK, HistoryOK
<1>5. nc.pc = "consume" /\ nc.key = k /\ nc.hash = h
    BY DEF NewCall
<1> HIDE DEF nc
<1>6. CallInv'
    BY <1>2, <1>3, <1>5 DEF CallInv, SignUp, Verified, Found
<1> QED
    BY <1>2, <1>4, <1>6 DEF LoginInv

(* ConsumeSignUpVerified takes the verified record out of the store.       *)
LEMMA SignUpConsumeInv ==
    ASSUME LoginInv, NEW w \in Workers, SignUpConsume(w)
    PROVE  LoginInv'
<1> DEFINE nc == [call[w] EXCEPT !.pc = "recheck"]
<1>1. call[w] # None /\ call[w] \in Call /\ call[w].pc = "consume"
    BY OnlyHolderRuns DEF SignUpConsume, At
<1>2. PICK h \in Hashes : h = call[w].hash
    BY <1>1 DEF Call
<1>3. /\ codes[h] # None /\ codes[h].verified
      /\ StoredOK(h) /\ ledger[h] \in LedgerEntry
      /\ call[w].key \in Keys
    BY <1>1, <1>2 DEF LoginInv, CallInv, CodesInv, TypeOK
<1>4. nc \in Call
    BY <1>1 DEF Call, Pcs
<1>5. /\ MutexInv' /\ db_mutex' = w
      /\ call' \in [Workers -> Call \cup {None}]
      /\ call'[w] = nc
      /\ \A x \in Workers : x # w => call'[x] = None
    BY <1>1, <1>4, ContinueKeeps DEF SignUpConsume
<1>6. nc.pc = "recheck" /\ nc.key = call[w].key /\ nc.hash = h
    BY <1>1, <1>2 DEF Call
<1> HIDE DEF nc
<1>7. /\ codes' = [codes EXCEPT ![h] = None]
      /\ ledger' = [ledger EXCEPT ![h].promised = FALSE]
    BY <1>2 DEF SignUpConsume, Del
<1>8. /\ codes' \in [Hashes -> PhoneCode \cup {None}]
      /\ codes'[h] = None
      /\ \A g \in Hashes : g # h => codes'[g] = codes[g]
    BY <1>7 DEF LoginInv, TypeOK
<1>9. CodesInv' /\ ledger' \in [Hashes -> LedgerEntry]
    BY <1>3, <1>7, <1>8, MarkKeeps DEF StoredOK
<1>10. /\ ledger'[h].used /\ ledger'[h].matched
       /\ ledger'[h].issued = None /\ ledger'[h].created = None
       /\ ledger'[h].grants = 0
    BY <1>3, <1>7 DEF StoredOK, LedgerEntry, LoginInv, TypeOK
<1>11. TypeOK'
    BY <1>5, <1>8, <1>9 DEF LoginInv, TypeOK, SignUpConsume, tables
<1>12. CallInv'
    BY <1>3, <1>5, <1>6, <1>8, <1>10 DEF CallInv, Taken
<1> QED
    BY <1>5, <1>9, <1>11, <1>12 DEF LoginInv

(* The second owner read of signUp leaves the taken proof as it is.        *)
LEMMA SignUpRecheckInv ==
    ASSUME LoginInv, NEW w \in Workers, SignUpRecheck(w)
    PROVE  LoginInv'
<1> DEFINE nc == [call[w] EXCEPT !.pc = "create"]
<1>1. call[w] # None /\ call[w] \in Call /\ call[w].pc = "recheck"
    BY OnlyHolderRuns DEF SignUpRecheck, At
<1>2. nc \in Call
    BY <1>1 DEF Call, Pcs
<1>3. TypeOK' /\ MutexInv' /\ CodesInv'
    BY <1>1, <1>2, OnlyCallMoves DEF SignUpRecheck
<1>4. call'[w] = nc /\ \A x \in Workers : x # w => call'[x] = None
    BY <1>1, <1>2, ContinueKeeps DEF SignUpRecheck
<1>5. nc.pc = "create" /\ nc.key = call[w].key /\ nc.hash = call[w].hash
    BY <1>1 DEF Call
<1>6. UNCHANGED <<codes, ledger>>
    BY DEF SignUpRecheck
<1> HIDE DEF nc
<1>7. CallInv'
    BY <1>1, <1>4, <1>5, <1>6 DEF LoginInv, CallInv, Taken
<1> QED
    BY <1>3, <1>7 DEF LoginInv

(* The new account is recorded as created by a hash that proved its code.  *)
LEMMA SignUpCreateInv ==
    ASSUME LoginInv, NEW w \in Workers, SignUpCreate(w)
    PROVE  LoginInv'
<1>1. call[w] # None /\ call[w] \in Call /\ call[w].pc = "create"
    BY OnlyHolderRuns DEF SignUpCreate, At
<1>2. PICK h \in Hashes : h = call[w].hash
    BY <1>1 DEF Call
<1>3. PICK u \in Users \ rows :
        /\ rows' = rows \cup {u}
        /\ owner' = [owner EXCEPT ![call[w].phone] = u]
        /\ ledger' = [ledger EXCEPT ![h].created = u]
        /\ Continue(w, [call[w] EXCEPT !.pc = "bind", !.user = u])
    BY <1>2 DEF SignUpCreate
<1> DEFINE nc == [call[w] EXCEPT !.pc = "bind", !.user = u]
<1>4. /\ Taken(h) /\ ledger[h] \in LedgerEntry /\ call[w].key \in Keys
      /\ StoredOK(h) /\ HistoryOK(h)
    BY <1>1, <1>2 DEF LoginInv, CallInv, CodesInv, TypeOK
<1>5. nc \in Call
    BY <1>1 DEF Call, Pcs, Owner
<1>6. /\ MutexInv' /\ db_mutex' = w
      /\ call' \in [Workers -> Call \cup {None}]
      /\ call'[w] = nc
      /\ \A x \in Workers : x # w => call'[x] = None
    BY <1>1, <1>3, <1>5, ContinueKeeps
<1>7. nc.pc = "bind" /\ nc.key = call[w].key /\ nc.hash = h /\ nc.user = u
    BY <1>1, <1>2 DEF Call
<1> HIDE DEF nc
<1>8. ledger' \in [Hashes -> LedgerEntry]
    BY <1>3, <1>4 DEF LoginInv, TypeOK, LedgerEntry, Owner
<1>9. /\ ledger'[h].used /\ ledger'[h].matched
      /\ ledger'[h].misses = ledger[h].misses
      /\ ledger'[h].grants = 0
      /\ \A g \in Hashes : g # h => ledger'[g] = ledger[g]
    BY <1>3, <1>4 DEF LoginInv, TypeOK, LedgerEntry, Taken
<1>10. codes' = codes /\ codes[h] = None
    BY <1>4 DEF SignUpCreate, Taken
<1>11. StoredOK(h)' /\ HistoryOK(h)'
    BY <1>4, <1>9, <1>10 DEF StoredOK, HistoryOK, Taken
<1>12. CodesInv'
    BY <1>9, <1>10, <1>11, OneHashMoves
<1>13. /\ rows' \subseteq Users /\ deleted' \subseteq rows'
       /\ owner' \in [Phones -> Owner]
    BY <1>1, <1>3 DEF LoginInv, TypeOK, Owner, Call, SignUpCreate
<1>14. TypeOK'
    BY <1>6, <1>8, <1>13 DEF LoginInv, TypeOK, SignUpCreate
<1>15. CallInv'
    BY <1>4, <1>6, <1>7, <1>9, <1>10 DEF CallInv, Taken
<1> QED
    BY <1>6, <1>12, <1>14, <1>15 DEF LoginInv

-----------------------------------------------------------------------------
(* The other processes write only tables that LoginInv relates to nothing. *)
LEMMA EnvironmentInv ==
    ASSUME LoginInv, Environment
    PROVE  LoginInv'
<1>1. CASE \E u \in Users : \/ \E p \in Phones \cup {None} : UpdatePhone(u, p)
                            \/ DeleteAccount(u)
                            \/ ChangePassword(u)
  <2>1. UNCHANGED <<codes, authz, db_mutex, call, ledger>>
      BY <1>1 DEF UpdatePhone, DeleteAccount, ChangePassword
  <2>2. /\ owner' \in [Phones -> Owner]
        /\ rows' \subseteq Users /\ deleted' \subseteq rows'
        /\ password' \in [Users -> BOOLEAN]
    <3>1. PICK u \in Users : \/ \E p \in Phones \cup {None} : UpdatePhone(u, p)
                             \/ DeleteAccount(u)
                             \/ ChangePassword(u)
        BY <1>1
    <3>2. CASE \E p \in Phones \cup {None} : UpdatePhone(u, p)
        BY <3>2 DEF UpdatePhone, LoginInv, TypeOK, Owner
    <3>3. CASE DeleteAccount(u)
        BY <3>3 DEF DeleteAccount, LoginInv, TypeOK, Owner, Live
    <3>4. CASE ChangePassword(u)
        BY <3>4 DEF ChangePassword, LoginInv, TypeOK
    <3> QED
        BY <3>1, <3>2, <3>3, <3>4
  <2>3. TypeOK'
      BY <2>1, <2>2 DEF LoginInv, TypeOK
  <2>4. MutexInv' /\ CodesInv' /\ CallInv'
      BY <2>1 DEF LoginInv, MutexInv, CodesInv, StoredOK, HistoryOK, CallInv, Taken
  <2> QED
      BY <2>3, <2>4 DEF LoginInv
<1>2. CASE Restart
  <2>1. ledger \in [Hashes -> LedgerEntry]
      BY DEF LoginInv, TypeOK
  <2>2. ledger' \in [Hashes -> LedgerEntry]
      BY <1>2, <2>1 DEF Restart, LedgerEntry
  <2>3. TypeOK'
      BY <1>2, <2>2 DEF LoginInv, TypeOK, Restart, tables
  <2>4. MutexInv' /\ CallInv'
      BY <1>2, LoginConstants DEF Restart, MutexInv, CallInv
  <2>5. ASSUME NEW h \in Hashes PROVE StoredOK(h)' /\ HistoryOK(h)'
    <3>1. codes'[h] = None /\ HistoryOK(h)
        BY <1>2 DEF Restart, LoginInv, CodesInv
    <3>2. /\ ledger'[h].used <=> ledger[h].used
          /\ ledger'[h].misses = ledger[h].misses
          /\ ledger'[h].matched <=> ledger[h].matched
          /\ ledger'[h].grants = ledger[h].grants
          /\ ledger'[h].created = ledger[h].created
        BY <1>2, <2>1 DEF Restart, LedgerEntry
    <3> QED
        BY <3>1, <3>2 DEF StoredOK, HistoryOK
  <2> QED
      BY <2>3, <2>4, <2>5 DEF LoginInv, CodesInv
<1> QED
    BY <1>1, <1>2 DEF Environment

-----------------------------------------------------------------------------
(* Every step preserves the inductive invariant.                           *)
LEMMA NextLoginInv == LoginInv /\ [Next]_vars => LoginInv'
<1> SUFFICES ASSUME LoginInv, [Next]_vars PROVE LoginInv'
    OBVIOUS
<1>1. ASSUME NEW w \in Workers, SendCodeStep(w) PROVE LoginInv'
  <2>1. ASSUME Delivered(w) \/ DeliveryThrows(w) PROVE LoginInv'
      BY <2>1, QuietLeave DEF Delivered, DeliveryThrows, At
  <2> QED
      BY <1>1, <2>1, SendFixedCodeInv, SendRandomCodeInv, DeliveryFailedInv
      DEF SendCodeStep
<1>2. ASSUME NEW w \in Workers, SignInStep(w) PROVE LoginInv'
  <2>1. ASSUME SignInRefused(w) PROVE LoginInv'
      BY <2>1, QuietLeave DEF SignInRefused, At
  <2>2. ASSUME NEW p \in Phones, NEW h \in Hashes, SignInStale(w, p, h) PROVE LoginInv'
      BY <2>2, SignInReturnsInv, LoginConstants
  <2> QED
      BY <1>2, <2>1, <2>2, SignInReturnsInv, SignInEntersInv, SignInVerifyInv,
         SignInEndsInv, SignInAcceptedInv, SignInLoadInv, SignInPasswordInv
      DEF SignInStep
<1>3. ASSUME NEW w \in Workers, SignUpStep(w) PROVE LoginInv'
  <2>1. ASSUME SignUpLost(w) PROVE LoginInv'
      BY <2>1, QuietLeave DEF SignUpLost, At
  <2>2. ASSUME NEW p \in Phones, NEW h \in Hashes, SignUpStale(w, p, h) PROVE LoginInv'
      BY <2>2, SignInReturnsInv, LoginConstants
  <2> QED
      BY <1>3, <2>1, <2>2, SignUpEntersInv, SignUpConsumeInv, SignUpRecheckInv,
         SignUpCreateInv
      DEF SignUpStep
<1>4. ASSUME NEW w \in Workers, BindStep(w) PROVE LoginInv'
  <2>1. ASSUME BindRefused(w) PROVE LoginInv'
      BY <2>1, QuietLeave DEF BindRefused, At
  <2> QED
      BY <1>4, <2>1, BindInv DEF BindStep
<1>5. ASSUME NEW w \in Workers, DbError(w) PROVE LoginInv'
    BY <1>5, QuietLeave DEF DbError, At
<1>6. CASE UNCHANGED vars
  <2>1. TypeOK' /\ MutexInv' /\ CodesInv'
      BY <1>6 DEF vars, LoginInv, TypeOK, MutexInv, CodesInv, StoredOK, HistoryOK
  <2>2. CallInv'
      BY <1>6 DEF vars, LoginInv, CallInv, Taken
  <2> QED
      BY <2>1, <2>2 DEF LoginInv
<1> QED
    BY <1>1, <1>2, <1>3, <1>4, <1>5, <1>6, EnvironmentInv DEF Next

(* The invariant holds in every reachable state.                           *)
THEOREM LoginInvariant == Spec => []LoginInv
BY InitLoginInv, NextLoginInv, PTL DEF Spec

(* The stores and the running handlers keep their types; in particular a   *)
(* stored code has always fewer than max_attempts failed attempts.         *)
THEOREM TypeCorrect == Spec => []TypeOK
<1>1. LoginInv => TypeOK
    BY DEF LoginInv
<1> QED
    BY <1>1, LoginInvariant, PTL

(* CodeStore::VerifyLogin and ConsumeSignUpVerified hand a code's effect   *)
(* out once: however other processes, errors and restarts interleave with  *)
(* the handlers, one hash logs in at most one session.                     *)
THEOREM OneLogin == Spec => []OneLoginPerCode
<1>1. LoginInv => OneLoginPerCode
    BY DEF LoginInv, CodesInv, HistoryOK, OneLoginPerCode
<1> QED
    BY <1>1, LoginInvariant, PTL

(* A login, and an account made by signUp, rest on a code that VerifyLogin *)
(* accepted for that hash.                                                 *)
THEOREM LoginsProven == Spec => []LoginsAreProven
<1>1. LoginInv => LoginsAreProven
    BY DEF LoginInv, CodesInv, HistoryOK, LoginsAreProven
<1> QED
    BY <1>1, LoginInvariant, PTL

(* The attempt limit of VerifyLogin is never passed, and reaching it kills *)
(* the code for good.                                                      *)
THEOREM AttemptsBounded == Spec => []ExhaustedCodeIsDead
<1>1. ASSUME LoginInv PROVE ExhaustedCodeIsDead
  <2> SUFFICES ASSUME NEW h \in Hashes
               PROVE  /\ ledger[h].misses <= MaxAttempts
                      /\ ledger[h].misses = MaxAttempts =>
                            codes[h] = None /\ ~ledger[h].matched /\ ledger[h].grants = 0
      BY DEF ExhaustedCodeIsDead
  <2>1. HistoryOK(h) /\ ledger[h].grants \in Nat
      BY <1>1 DEF LoginInv, CodesInv, TypeOK, LedgerEntry
  <2> QED
      BY <2>1 DEF HistoryOK
<1> QED
    BY <1>1, LoginInvariant, PTL

-----------------------------------------------------------------------------
(* When no other process writes while a handler runs here.                 *)

(* The worker that is inside a handler after a step, and what it knows.    *)
LEMMA StableAt ==
    ASSUME NEW w \in Workers, NEW c, call'[w] = c,
           \A x \in Workers : x # w => call'[x] = None,
           c.pc \in {"verify", "after", "load"} => owner'[c.phone] = c.before,
           c.pc = "password" => c.user = c.before,
           c.pc = "bind" => c.user = IF ledger'[c.hash].issued = None
                                     THEN ledger'[c.hash].created
                                     ELSE ledger'[c.hash].issued
    PROVE  StableReadsInv'
BY DEF StableReadsInv

(* No handler runs after the step.                                         *)
LEMMA StableIdle ==
    ASSUME call' = [x \in Workers |-> None]
    PROVE  StableReadsInv'
BY DEF StableReadsInv

(* A handler's owner reads stay true while it runs.                        *)
LEMMA StableSignIn ==
    ASSUME AloneInv, NEW w \in Workers, SignInStep(w) PROVE StableReadsInv'
<1>1. LoginInv /\ StableReadsInv
    BY DEF AloneInv
<1>2. ASSUME (call[w] # None /\ Leave(w)) \/ EnterAndLeave PROVE StableReadsInv'
    BY <1>1, <1>2, LeaveEmpties, StableIdle
<1>3. ASSUME NEW p \in Phones, NEW h \in Hashes, NEW c \in Codes, NEW k \in Keys,
             SignIn(w, k, p, h, c)
      PROVE  StableReadsInv'
  <2> DEFINE nc == [NewCall("verify", k, p, h, c) EXCEPT !.before = owner[p]]
  <2>1. nc \in Call
      BY <1>1 DEF NewCall, Call, Pcs, Owner, LoginInv, TypeOK
  <2>2. call'[w] = nc /\ \A x \in Workers : x # w => call'[x] = None
      BY <1>1, <1>3, <2>1, EnterKeeps DEF SignIn
  <2>3. nc.pc = "verify" /\ nc.phone = p /\ nc.before = owner[p] /\ owner' = owner
      BY <1>3 DEF NewCall, SignIn, tables
  <2> HIDE DEF nc
  <2> QED
      BY <2>2, <2>3, StableAt
<1>4. ASSUME NEW c \in Call, call[w] # None, Continue(w, c)
      PROVE  call'[w] = c /\ \A x \in Workers : x # w => call'[x] = None
    BY <1>1, <1>4, ContinueKeeps
<1>5. ASSUME SignInVerify(w) PROVE StableReadsInv'
  <2> DEFINE ok == codes[call[w].hash].code = call[w].code
             nc == [call[w] EXCEPT !.pc = "after", !.accepted = ok]
  <2>1. call[w] # None /\ call[w] \in Call /\ call[w].pc = "verify"
      BY <1>1, <1>5, OnlyHolderRuns DEF SignInVerify, At
  <2>2. nc \in Call
      BY <2>1 DEF Call, Pcs
  <2>3. call'[w] = nc /\ \A x \in Workers : x # w => call'[x] = None
      BY <1>4, <1>5, <2>1, <2>2 DEF SignInVerify
  <2>4. /\ nc.pc = "after" /\ nc.phone = call[w].phone /\ nc.before = call[w].before
        /\ owner' = owner
      BY <1>5, <2>1 DEF Call, SignInVerify, tables
  <2> HIDE DEF nc
  <2>5. owner[call[w].phone] = call[w].before
      BY <1>1, <2>1 DEF StableReadsInv
  <2> QED
      BY <2>3, <2>4, <2>5, StableAt
<1>6. ASSUME SignInAccepted(w) PROVE StableReadsInv'
  <2> DEFINE nc == [call[w] EXCEPT !.pc = "load"]
  <2>1. call[w] # None /\ call[w] \in Call /\ call[w].pc = "after"
      BY <1>1, <1>6, OnlyHolderRuns DEF SignInAccepted, At
  <2>2. nc \in Call
      BY <2>1 DEF Call, Pcs
  <2>3. call'[w] = nc /\ \A x \in Workers : x # w => call'[x] = None
      BY <1>4, <1>6, <2>1, <2>2 DEF SignInAccepted
  <2>4. /\ nc.pc = "load" /\ nc.phone = call[w].phone /\ nc.before = call[w].before
        /\ owner' = owner /\ owner[call[w].phone] = call[w].before
      BY <1>6, <2>1 DEF Call, SignInAccepted, tables
  <2> HIDE DEF nc
  <2> QED
      BY <2>3, <2>4, StableAt
<1>7. ASSUME SignInLoad(w) PROVE StableReadsInv'
  <2> DEFINE u == owner[call[w].phone]
             nc == [call[w] EXCEPT !.pc = "password", !.user = u]
  <2>1. call[w] # None /\ call[w] \in Call /\ call[w].pc = "load"
      BY <1>1, <1>7, OnlyHolderRuns DEF SignInLoad, At
  <2>2. nc \in Call
    <3>1. u \in Owner
        BY <1>1, <2>1 DEF LoginInv, TypeOK, Call
    <3> QED
        BY <2>1, <3>1 DEF Call, Pcs
  <2>3. call'[w] = nc /\ \A x \in Workers : x # w => call'[x] = None
      BY <1>4, <1>7, <2>1, <2>2 DEF SignInLoad
  <2>4. nc.pc = "password" /\ nc.user = u /\ nc.before = call[w].before
      BY <2>1 DEF Call
  <2>5. u = call[w].before
      BY <1>1, <2>1 DEF StableReadsInv
  <2> HIDE DEF nc
  <2> QED
      BY <2>3, <2>4, <2>5, StableAt
<1>8. ASSUME SignInPassword(w) PROVE StableReadsInv'
  <2> DEFINE nc == [call[w] EXCEPT !.pc = "bind", !.pending = password[call[w].user]]
  <2>1. call[w] # None /\ call[w] \in Call /\ call[w].pc = "password"
      BY <1>1, <1>8, OnlyHolderRuns DEF SignInPassword, At
  <2>2. call[w].user \in Users
      BY <1>1, <2>1 DEF LoginInv, CallInv
  <2>3. nc \in Call
      BY <1>1, <2>1, <2>2 DEF Call, Pcs, LoginInv, TypeOK
  <2>4. call'[w] = nc /\ \A x \in Workers : x # w => call'[x] = None
      BY <1>4, <1>8, <2>1, <2>3 DEF SignInPassword
  <2>5. /\ nc.pc = "bind" /\ nc.user = call[w].user /\ nc.hash = call[w].hash
        /\ ledger' = ledger
      BY <1>8, <2>1 DEF Call, SignInPassword
  <2>6. /\ call[w].user = call[w].before /\ call[w].before # None
        /\ ledger[call[w].hash].issued = call[w].before
      BY <1>1, <2>1 DEF StableReadsInv, LoginInv, CallInv
  <2> HIDE DEF nc
  <2> QED
      BY <2>4, <2>5, <2>6, StableAt
<1> QED
    BY <1>2, <1>3, <1>5, <1>6, <1>7, <1>8
    DEF SignInStep, SignInStale, SignInAgain, SignInDrifted, SignInRefused,
        SignInNeedsSignUp, SignInGone, At

(* The same for signUp: the account it binds is the one it created.        *)
LEMMA StableSignUp ==
    ASSUME AloneInv, NEW w \in Workers, SignUpStep(w) PROVE StableReadsInv'
<1>1. LoginInv /\ StableReadsInv
    BY DEF AloneInv
<1>2. ASSUME (call[w] # None /\ Leave(w)) \/ EnterAndLeave PROVE StableReadsInv'
    BY <1>1, <1>2, LeaveEmpties, StableIdle
<1>3. ASSUME NEW p \in Phones, NEW h \in Hashes, NEW k \in Keys, SignUp(w, k, p, h)
      PROVE  StableReadsInv'
  <2> DEFINE nc == NewCall("consume", k, p, h, None)
  <2>1. nc \in Call /\ nc.pc = "consume"
      BY DEF NewCall, Call, Pcs, Owner
  <2>2. call'[w] = nc /\ \A x \in Workers : x # w => call'[x] = None
      BY <1>1, <1>3, <2>1, EnterKeeps DEF SignUp
  <2> HIDE DEF nc
  <2> QED
      BY <2>1, <2>2, StableAt
<1>4. ASSUME NEW pc \in {"recheck", "create"}, call[w] # None,
             Continue(w, [call[w] EXCEPT !.pc = pc])
      PROVE  StableReadsInv'
  <2> DEFINE nc == [call[w] EXCEPT !.pc = pc]
  <2>1. nc \in Call /\ nc.pc = pc
      BY <1>1, <1>4, OnlyHolderRuns DEF Call, Pcs
  <2>2. call'[w] = nc /\ \A x \in Workers : x # w => call'[x] = None
      BY <1>1, <1>4, <2>1, ContinueKeeps
  <2> HIDE DEF nc
  <2> QED
      BY <2>1, <2>2, StableAt
<1>5. ASSUME SignUpCreate(w) PROVE StableReadsInv'
  <2>1. call[w] # None /\ call[w] \in Call /\ call[w].pc = "create"
      BY <1>1, <1>5, OnlyHolderRuns DEF SignUpCreate, At
  <2>2. PICK h \in Hashes : h = call[w].hash
      BY <2>1 DEF Call
  <2>3. PICK u \in Users :
          /\ ledger' = [ledger EXCEPT ![h].created = u]
          /\ Continue(w, [call[w] EXCEPT !.pc = "bind", !.user = u])
      BY <1>5, <2>2 DEF SignUpCreate
  <2> DEFINE nc == [call[w] EXCEPT !.pc = "bind", !.user = u]
  <2>4. nc \in Call /\ nc.pc = "bind" /\ nc.user = u /\ nc.hash = h
      BY <2>1, <2>2 DEF Call, Pcs, Owner
  <2>5. call'[w] = nc /\ \A x \in Workers : x # w => call'[x] = None
      BY <1>1, <2>1, <2>3, <2>4, ContinueKeeps
  <2>6. ledger[h].issued = None /\ ledger[h] \in LedgerEntry
      BY <1>1, <2>1, <2>2 DEF LoginInv, CallInv, TypeOK
  <2>7. ledger'[h].issued = None /\ ledger'[h].created = u
      BY <1>1, <2>3, <2>6 DEF LoginInv, TypeOK, LedgerEntry
  <2> HIDE DEF nc
  <2> QED
      BY <2>4, <2>5, <2>7, StableAt
<1> QED
    BY <1>2, <1>3, <1>4, <1>5
    DEF SignUpStep, SignUpStale, SignUpConsume, SignUpRecheck, SignUpLost, At

(* No other process steps while a handler runs, so a handler's reads stay  *)
(* true until it ends.                                                     *)
LEMMA StableStep ==
    ASSUME ~RacingWriters, AloneInv, Next PROVE StableReadsInv'
<1>1. LoginInv
    BY DEF AloneInv
<1>2. ASSUME NEW w \in Workers, (call[w] # None /\ Leave(w)) \/ EnterAndLeave
      PROVE  StableReadsInv'
    BY <1>1, <1>2, LeaveEmpties, StableIdle
<1>3. ASSUME NEW w \in Workers, SendCodeStep(w) PROVE StableReadsInv'
  <2>1. ASSUME NEW p \in Phones, NEW h \in Hashes, NEW c \in Codes,
               SendRandomCode(w, p, h, c)
        PROVE  StableReadsInv'
    <3> DEFINE nc == NewCall("deliver", None, p, h, None)
    <3>1. nc \in Call /\ nc.pc = "deliver"
        BY DEF NewCall, Call, Pcs, Owner
    <3>2. call'[w] = nc /\ \A x \in Workers : x # w => call'[x] = None
        BY <1>1, <2>1, <3>1, EnterKeeps DEF SendRandomCode
    <3> HIDE DEF nc
    <3> QED
        BY <3>1, <3>2, StableAt
  <2> QED
      BY <1>2, <1>3, <2>1
      DEF SendCodeStep, SendFixedCode, Delivered, DeliveryFailed, DeliveryThrows, At
<1>4. ASSUME NEW w \in Workers, BindStep(w) \/ DbError(w) PROVE StableReadsInv'
    BY <1>2, <1>4 DEF BindStep, Bind, BindRefused, DbError, At
<1>5. ASSUME Environment PROVE StableReadsInv'
  <2>1. CASE Restart
      BY <2>1, StableIdle DEF Restart
  <2>2. CASE ~Restart
    <3>1. db_mutex = None /\ call' = call
        BY <1>5, <2>2 DEF Environment, UpdatePhone, DeleteAccount, ChangePassword, Others
    <3>2. \A x \in Workers : call'[x] = None
        BY <1>1, <3>1, FreeMutexNobodyRuns
    <3> QED
        BY <3>2 DEF StableReadsInv
  <2> QED
      BY <2>1, <2>2
<1> QED
    BY <1>3, <1>4, <1>5, StableSignIn, StableSignUp DEF Next

-----------------------------------------------------------------------------
(* Steps that change neither the logins of a hash nor, once it has one,    *)
(* what they are compared with.                                            *)
LEMMA SameGrants ==
    ASSUME CodeAuthorizesIssuee,
           \A h \in Hashes :
              /\ ledger'[h].grants = ledger[h].grants
              /\ ledger'[h].grantee = ledger[h].grantee
              /\ ledger[h].grants > 0 => /\ ledger'[h].issued = ledger[h].issued
                                         /\ ledger'[h].created = ledger[h].created
    PROVE  CodeAuthorizesIssuee'
BY DEF CodeAuthorizesIssuee

(* No step logs in anyone but the user the code was issued to or made.     *)
LEMMA GrantsStep ==
    ASSUME ~RacingWriters, AloneInv, Next PROVE CodeAuthorizesIssuee'
<1>1. LoginInv /\ StableReadsInv /\ CodeAuthorizesIssuee
    BY DEF AloneInv
<1>2. ledger \in [Hashes -> LedgerEntry] /\ codes \in [Hashes -> PhoneCode \cup {None}]
    BY <1>1 DEF LoginInv, TypeOK
<1>3. ASSUME ledger' = ledger PROVE CodeAuthorizesIssuee'
    BY <1>1, <1>3 DEF CodeAuthorizesIssuee
<1>4. ASSUME NEW h \in Hashes,
             \/ \E b \in BOOLEAN : ledger' = [ledger EXCEPT ![h].promised = b]
             \/ ledger' = [ledger EXCEPT ![h].rejected = TRUE]
      PROVE  CodeAuthorizesIssuee'
    BY <1>1, <1>2, <1>4, SameGrants DEF LedgerEntry
<1>5. ASSUME NEW p \in Phones, NEW h \in Hashes, NEW c \in Codes, Issue(p, h, c)
      PROVE  CodeAuthorizesIssuee'
  <2>1. ledger[h].grants = 0
      BY <1>1, <1>2, <1>5 DEF Issue, LoginInv, CodesInv, HistoryOK, LedgerEntry
  <2>2. ledger' = [ledger EXCEPT ![h].used = TRUE, ![h].issued = owner[p]]
      BY <1>5 DEF Issue
  <2> QED
      BY <1>1, <1>2, <2>1, <2>2, SameGrants DEF LedgerEntry
<1>6. ASSUME NEW w \in Workers, call[w] # None PROVE call[w].hash \in Hashes
    BY <1>1, <1>6, OnlyHolderRuns DEF Call
<1>7. ASSUME NEW w \in Workers, SignInVerify(w) PROVE CodeAuthorizesIssuee'
  <2>1. PICK h \in Hashes : h = call[w].hash
      BY <1>6, <1>7 DEF SignInVerify, At
  <2>2. PICK m, n : ledger' = [ledger EXCEPT ![h].matched = m, ![h].misses = n]
      BY <1>2, <1>7, <2>1 DEF SignInVerify
  <2> QED
      BY <1>1, <1>2, <2>2, SameGrants DEF LedgerEntry
<1>8. ASSUME NEW w \in Workers, SignUpCreate(w) PROVE CodeAuthorizesIssuee'
  <2>1. PICK h \in Hashes : h = call[w].hash
      BY <1>6, <1>8 DEF SignUpCreate, At
  <2>2. ledger[h].grants = 0
      BY <1>1, <1>8, <2>1 DEF SignUpCreate, At, LoginInv, CallInv, Taken
  <2>3. PICK u \in Users : ledger' = [ledger EXCEPT ![h].created = u]
      BY <1>8, <2>1 DEF SignUpCreate
  <2> QED
      BY <1>1, <1>2, <2>2, <2>3, SameGrants DEF LedgerEntry
<1>9. ASSUME NEW w \in Workers, Bind(w) PROVE CodeAuthorizesIssuee'
  <2>1. PICK h \in Hashes : h = call[w].hash
      BY <1>6, <1>9 DEF Bind, At
  <2>2. ledger' = [ledger EXCEPT ![h].grants = @ + 1, ![h].grantee = call[w].user]
      BY <1>9, <2>1 DEF Bind
  <2>3. call[w].user = IF ledger[h].issued = None THEN ledger[h].created
                       ELSE ledger[h].issued
      BY <1>1, <1>9, <2>1 DEF Bind, At, StableReadsInv
  <2>4. /\ ledger'[h].grantee = call[w].user
        /\ ledger'[h].issued = ledger[h].issued
        /\ ledger'[h].created = ledger[h].created
        /\ \A g \in Hashes : g # h => ledger'[g] = ledger[g]
      BY <1>2, <2>2 DEF LedgerEntry
  <2> QED
      BY <1>1, <2>3, <2>4 DEF CodeAuthorizesIssuee
<1>10. ASSUME NEW w \in Workers, SendCodeStep(w) PROVE CodeAuthorizesIssuee'
    BY <1>3, <1>4, <1>5, <1>6, <1>10, LoginConstants
    DEF SendCodeStep, SendFixedCode, SendRandomCode, Delivered, DeliveryFailed,
        DeliveryThrows, At
<1>11. ASSUME NEW w \in Workers, SignInStep(w) PROVE CodeAuthorizesIssuee'
    BY <1>3, <1>4, <1>6, <1>7, <1>11
    DEF SignInStep, SignInStale, SignInAgain, SignIn, SignInDrifted, SignInRefused,
        SignInNeedsSignUp, SignInAccepted, SignInLoad, SignInGone, SignInPassword, At, Del
<1>12. ASSUME NEW w \in Workers, SignUpStep(w) PROVE CodeAuthorizesIssuee'
    BY <1>3, <1>4, <1>6, <1>8, <1>12
    DEF SignUpStep, SignUpStale, SignUp, SignUpConsume, SignUpRecheck, SignUpLost, At, Del
<1>13. ASSUME NEW w \in Workers, BindStep(w) \/ DbError(w) PROVE CodeAuthorizesIssuee'
    BY <1>3, <1>9, <1>13 DEF BindStep, BindRefused, DbError
<1>14. ASSUME Environment PROVE CodeAuthorizesIssuee'
  <2>1. CASE Restart
      BY <1>1, <1>2, <2>1, SameGrants DEF Restart, LedgerEntry
  <2> QED
      BY <1>3, <1>14, <2>1 DEF Environment, UpdatePhone, DeleteAccount, ChangePassword
<1> QED
    BY <1>10, <1>11, <1>12, <1>13, <1>14 DEF Next

-----------------------------------------------------------------------------
(* A step on one hash that keeps its promise, and leaves the others alone. *)
LEMMA PromiseAt ==
    ASSUME SignUpPromiseKept, NEW h \in Hashes,
           ledger'[h].promised => codes'[h] # None /\ codes'[h].verified,
           \A g \in Hashes : g # h => /\ ledger'[g].promised <=> ledger[g].promised
                                      /\ codes'[g] = codes[g]
    PROVE  SignUpPromiseKept'
BY DEF SignUpPromiseKept

(* No step breaks or makes a promise whose record is not in the store.     *)
LEMMA PromiseStep ==
    ASSUME ~RacingWriters, AloneInv, Next PROVE SignUpPromiseKept'
<1>1. LoginInv /\ StableReadsInv /\ SignUpPromiseKept
    BY DEF AloneInv
<1>2. ledger \in [Hashes -> LedgerEntry] /\ codes \in [Hashes -> PhoneCode \cup {None}]
    BY <1>1 DEF LoginInv, TypeOK
<1>3. ASSUME UNCHANGED <<codes, ledger>> PROVE SignUpPromiseKept'
    BY <1>1, <1>3 DEF SignUpPromiseKept
<1>4. ASSUME NEW h \in Hashes, Del(h) PROVE SignUpPromiseKept'
    BY <1>1, <1>2, <1>4, PromiseAt DEF Del, LedgerEntry
<1>5. ASSUME NEW h \in Hashes, codes' = codes, codes[h] # None, codes[h].verified,
             ledger' = [ledger EXCEPT ![h].promised = TRUE]
      PROVE  SignUpPromiseKept'
    BY <1>1, <1>2, <1>5, PromiseAt DEF LedgerEntry
<1>6. ASSUME NEW p \in Phones, NEW h \in Hashes, NEW c \in Codes, Issue(p, h, c)
      PROVE  SignUpPromiseKept'
  <2>1. ~ledger[h].promised
      BY <1>1, <1>6 DEF Issue, LoginInv, CodesInv, HistoryOK, SignUpPromiseKept
  <2>2. ~ledger'[h].promised
      BY <1>2, <1>6, <2>1 DEF Issue, LedgerEntry
  <2>3. \A g \in Hashes : g # h => ledger'[g] = ledger[g] /\ codes'[g] = codes[g]
      BY <1>2, <1>6 DEF Issue
  <2> QED
      BY <1>1, <2>2, <2>3, PromiseAt
<1>7. ASSUME NEW w \in Workers, call[w] # None PROVE call[w].hash \in Hashes
    BY <1>1, <1>7, OnlyHolderRuns DEF Call
<1>8. ASSUME NEW w \in Workers, DeliveryFailed(w)
      PROVE  SignUpPromiseKept'
  <2>1. PICK h \in Hashes : h = call[w].hash
      BY <1>7, <1>8 DEF DeliveryFailed, At
  <2>2. ~codes[h].verified
      BY <1>1, <1>8, <2>1 DEF DeliveryFailed, At, LoginInv, CallInv
  <2>3. ledger' = [ledger EXCEPT ![h].rejected = TRUE]
      BY <1>8, <2>1 DEF DeliveryFailed
  <2>4. ~ledger'[h].promised
      BY <1>1, <1>2, <2>2, <2>3 DEF SignUpPromiseKept, LedgerEntry
  <2>5. \A g \in Hashes : g # h => ledger'[g] = ledger[g] /\ codes'[g] = codes[g]
      BY <1>2, <1>8, <2>1, <2>3 DEF DeliveryFailed
  <2> QED
      BY <1>1, <2>4, <2>5, PromiseAt
<1>9. ASSUME NEW w \in Workers, SignInVerify(w) PROVE SignUpPromiseKept'
  <2>1. PICK h \in Hashes : h = call[w].hash
      BY <1>7, <1>9 DEF SignInVerify, At
  <2>2. ~ledger[h].promised
      BY <1>1, <1>9, <2>1 DEF SignInVerify, At, LoginInv, CallInv, SignUpPromiseKept
  <2>3. PICK m, n : ledger' = [ledger EXCEPT ![h].matched = m, ![h].misses = n]
      BY <1>2, <1>9, <2>1 DEF SignInVerify
  <2>4. ~ledger'[h].promised /\ \A g \in Hashes : g # h => ledger'[g] = ledger[g]
      BY <1>2, <2>2, <2>3 DEF LedgerEntry
  <2>5. \A g \in Hashes : g # h => codes'[g] = codes[g]
      BY <1>2, <1>9, <2>1 DEF SignInVerify
  <2> QED
      BY <1>1, <2>4, <2>5, PromiseAt
<1>10. ASSUME NEW w \in Workers, SignInNeedsSignUp(w) PROVE SignUpPromiseKept'
  <2>1. PICK h \in Hashes : h = call[w].hash
      BY <1>7, <1>10 DEF SignInNeedsSignUp, At
  <2>2. codes[h] # None /\ codes[h].verified
      BY <1>1, <1>10, <2>1 DEF SignInNeedsSignUp, At, LoginInv, CallInv
  <2> QED
      BY <1>5, <1>10, <2>1, <2>2 DEF SignInNeedsSignUp
<1>11. ASSUME NEW w \in Workers PROVE ~SignInGone(w)
    BY <1>1 DEF SignInGone, At, LoginInv, CallInv, StableReadsInv
<1>12. ASSUME NEW w \in Workers, SignUpCreate(w) PROVE SignUpPromiseKept'
  <2>1. PICK h \in Hashes : h = call[w].hash
      BY <1>7, <1>12 DEF SignUpCreate, At
  <2>2. PICK u \in Users : ledger' = [ledger EXCEPT ![h].created = u]
      BY <1>12, <2>1 DEF SignUpCreate
  <2>3. \A g \in Hashes : ledger'[g].promised <=> ledger[g].promised
      BY <1>2, <2>2 DEF LedgerEntry
  <2> QED
      BY <1>1, <1>12, <2>3 DEF SignUpCreate, SignUpPromiseKept
<1>13. ASSUME NEW w \in Workers, Bind(w) PROVE SignUpPromiseKept'
  <2>1. PICK h \in Hashes : h = call[w].hash
      BY <1>7, <1>13 DEF Bind, At
  <2>2. ledger' = [ledger EXCEPT ![h].grants = @ + 1, ![h].grantee = call[w].user]
      BY <1>13, <2>1 DEF Bind
  <2>3. \A g \in Hashes : ledger'[g].promised <=> ledger[g].promised
      BY <1>2, <2>2 DEF LedgerEntry
  <2> QED
      BY <1>1, <1>13, <2>3 DEF Bind, SignUpPromiseKept
<1>14. ASSUME NEW w \in Workers, SendCodeStep(w) PROVE SignUpPromiseKept'
    BY <1>3, <1>6, <1>8, <1>14, LoginConstants
    DEF SendCodeStep, SendFixedCode, SendRandomCode, Delivered, DeliveryThrows
<1>15. ASSUME NEW w \in Workers, SignInStep(w) PROVE SignUpPromiseKept'
    BY <1>3, <1>4, <1>5, <1>7, <1>9, <1>10, <1>11, <1>15
    DEF SignInStep, SignInStale, SignInAgain, SignIn, SignInDrifted, SignInRefused,
        SignInAccepted, SignInLoad, SignInPassword, At, Found
<1>16. ASSUME NEW w \in Workers, SignUpStep(w) PROVE SignUpPromiseKept'
    BY <1>3, <1>4, <1>7, <1>12, <1>16
    DEF SignUpStep, SignUpStale, SignUp, SignUpConsume, SignUpRecheck, SignUpLost, At
<1>17. ASSUME NEW w \in Workers, BindStep(w) \/ DbError(w) PROVE SignUpPromiseKept'
    BY <1>3, <1>13, <1>17 DEF BindStep, BindRefused, DbError
<1>18. ASSUME Environment PROVE SignUpPromiseKept'
  <2>1. CASE Restart
      BY <1>2, <2>1 DEF Restart, LedgerEntry, SignUpPromiseKept
  <2> QED
      BY <1>3, <1>18, <2>1 DEF Environment, UpdatePhone, DeleteAccount, ChangePassword
<1> QED
    BY <1>14, <1>15, <1>16, <1>17, <1>18 DEF Next

(* If this process is the only writer while its handlers run, AloneInv is  *)
(* an inductive invariant.                                                 *)
LEMMA NextAloneInv == ~RacingWriters /\ AloneInv /\ [Next]_vars => AloneInv'
<1> SUFFICES ASSUME ~RacingWriters, AloneInv, [Next]_vars PROVE AloneInv'
    OBVIOUS
<1>1. LoginInv'
    BY NextLoginInv DEF AloneInv
<1>2. CASE Next
    BY <1>1, <1>2, StableStep, GrantsStep, PromiseStep DEF AloneInv
<1>3. CASE UNCHANGED vars
    BY <1>1, <1>3 DEF vars, AloneInv, StableReadsInv, CodeAuthorizesIssuee, SignUpPromiseKept
<1> QED
    BY <1>2, <1>3

(* Nothing is granted or promised at start-up.                             *)
LEMMA InitAloneInv == Init => AloneInv
<1> SUFFICES ASSUME Init PROVE AloneInv
    OBVIOUS
<1>1. LoginInv
    BY InitLoginInv
<1> QED
    BY <1>1 DEF Init, AloneInv, StableReadsInv, CodeAuthorizesIssuee, SignUpPromiseKept, NewEntry

(* While nobody else writes users during a handler, VerifyLoginCode's      *)
(* three owner reads agree, so a code authorizes the owner it was issued   *)
(* to or the account made with it; the racing run shows what is lost.      *)
THEOREM AuthorizesIssuee == ~RacingWriters => (Spec => []CodeAuthorizesIssuee)
<1> SUFFICES ASSUME ~RacingWriters PROVE Spec => []CodeAuthorizesIssuee
    OBVIOUS
<1>1. AloneInv => CodeAuthorizesIssuee
    BY DEF AloneInv
<1>2. AloneInv /\ [Next]_vars => AloneInv'
    BY NextAloneInv
<1> QED
    BY <1>1, <1>2, InitAloneInv, PTL DEF Spec

(* Under the same condition, authorizationSignUpRequired is answered only  *)
(* while the verified record it promises is in the store.                  *)
THEOREM PromiseKept == ~RacingWriters => (Spec => []SignUpPromiseKept)
<1> SUFFICES ASSUME ~RacingWriters PROVE Spec => []SignUpPromiseKept
    OBVIOUS
<1>1. AloneInv => SignUpPromiseKept
    BY DEF AloneInv
<1>2. AloneInv /\ [Next]_vars => AloneInv'
    BY NextAloneInv
<1> QED
    BY <1>1, <1>2, InitAloneInv, PTL DEF Spec

-----------------------------------------------------------------------------
(* What a step does to a ticket, whoever writes the tables meanwhile.      *)

(* Some handler has taken the proof of h out of the store.                 *)
Carried(h) == \E w \in Workers : Carries(w, h)

(* A step on one hash: the handlers before and after it are on that hash.  *)
Focus(h) ==
    /\ \A x \in Workers : call[x] # None => call[x].hash = h
    /\ \A x \in Workers : call'[x] # None => call'[x].hash = h
    /\ \A g \in Hashes : g # h => codes'[g] = codes[g] /\ ledger'[g] = ledger[g]

SameLedger(h) ==
    /\ ledger'[h].used <=> ledger[h].used
    /\ ledger'[h].matched <=> ledger[h].matched
    /\ ledger'[h].grants = ledger[h].grants

SameRejected(h) == ledger'[h].rejected <=> ledger[h].rejected

(* sendCode.                                                               *)
IssueMove(h) ==
    /\ ~ledger[h].used /\ ledger'[h].used
    /\ codes'[h] # None
    /\ ~ledger'[h].matched
    /\ ledger[h].grants = 0 /\ ledger'[h].grants = 0
    /\ SameRejected(h)

(* The handler ends, and with it what it carried; the record may go too.   *)
LeaveMove(h) ==
    /\ SameLedger(h)
    /\ codes'[h] \in {codes[h], None}
    /\ ~Carried(h)'
    /\ \/ SameRejected(h)
       \/ ledger[h].used /\ ~ledger[h].matched /\ codes'[h] = None

(* A record, or a proof taken out of it, is there before and after.        *)
StayMove(h) ==
    /\ SameLedger(h) /\ SameRejected(h)
    /\ codes[h] # None \/ Carried(h)
    /\ codes'[h] # None \/ Carried(h)'
    /\ codes'[h] # None => codes[h] # None

(* VerifyLogin.                                                            *)
VerifyMove(h) ==
    /\ ledger[h].used /\ ledger'[h].used
    /\ ledger[h].grants = 0 /\ ledger'[h].grants = 0
    /\ codes[h] # None /\ ~ledger[h].matched
    /\ SameRejected(h)
    /\ \/ ledger'[h].matched /\ (codes'[h] # None \/ Carried(h)')
       \/ ~ledger'[h].matched /\ ~Carried(h)'

(* Bind.                                                                   *)
UseMove(h) ==
    /\ ledger[h].used /\ ledger'[h].used
    /\ ledger[h].matched
    /\ Carried(h)
    /\ ledger[h].grants = 0 /\ ledger'[h].grants = 1
    /\ codes[h] = None /\ codes'[h] = None
    /\ SameRejected(h)

Moves(h) == IssueMove(h) \/ LeaveMove(h) \/ StayMove(h) \/ VerifyMove(h) \/ UseMove(h)

(* The handler that runs is the only one, so it is on the hash.            *)
LEMMA FocusOn ==
    ASSUME LoginInv, NEW w \in Workers, NEW h \in Hashes,
           call[w] # None => call[w].hash = h, db_mutex \in {None, w},
           \A x \in Workers : x # w => call'[x] = None,
           call'[w] # None => call'[w].hash = h,
           \A g \in Hashes : g # h => codes'[g] = codes[g] /\ ledger'[g] = ledger[g]
    PROVE  Focus(h)
<1>1. \A x \in Workers : call[x] # None => x = w
    BY LoginConstants DEF LoginInv, MutexInv
<1> QED
    BY <1>1 DEF Focus

(* A handler that ends, or returns at once, with the record kept or        *)
(* erased.                                                                 *)
LEMMA LeaveMoves ==
    ASSUME LoginInv, NEW w \in Workers, NEW h \in Hashes,
           (call[w] # None /\ call[w].hash = h /\ Leave(w)) \/ EnterAndLeave,
           codes' \in {codes, [codes EXCEPT ![h] = None]},
           \/ ledger' = ledger
           \/ \E b \in BOOLEAN : ledger' = [ledger EXCEPT ![h].promised = b]
           \/ /\ ledger' = [ledger EXCEPT ![h].rejected = TRUE]
              /\ codes[h] # None /\ ~codes[h].verified /\ codes' = [codes EXCEPT ![h] = None]
    PROVE  Focus(h) /\ Moves(h)
<1>1. call' = [x \in Workers |-> None]
    BY LeaveEmpties
<1>2. ledger \in [Hashes -> LedgerEntry] /\ codes \in [Hashes -> PhoneCode \cup {None}]
    BY DEF LoginInv, TypeOK
<1>3. /\ SameLedger(h)
      /\ codes'[h] \in {codes[h], None}
      /\ \A g \in Hashes : g # h => codes'[g] = codes[g] /\ ledger'[g] = ledger[g]
    BY <1>2 DEF SameLedger, LedgerEntry
<1>4. \/ SameRejected(h)
      \/ ledger[h].used /\ ~ledger[h].matched /\ codes'[h] = None
  <2>1. CASE ledger' = ledger
      BY <2>1 DEF SameRejected
  <2>2. CASE \E b \in BOOLEAN : ledger' = [ledger EXCEPT ![h].promised = b]
      BY <1>2, <2>2 DEF SameRejected, LedgerEntry
  <2>3. CASE codes[h] # None /\ ~codes[h].verified /\ codes' = [codes EXCEPT ![h] = None]
      BY <1>2, <2>3 DEF LoginInv, CodesInv, StoredOK
  <2> QED
      BY <2>1, <2>2, <2>3
<1>5. ~Carried(h)'
    BY <1>1 DEF Carried, Carries
<1>6. Focus(h)
  <2>1. db_mutex \in {None, w} /\ (call[w] # None => call[w].hash = h)
      BY OnlyHolderRuns, FreeMutexNobodyRuns DEF EnterAndLeave
  <2> QED
      BY <1>1, <1>3, <2>1, FocusOn
<1> QED
    BY <1>3, <1>4, <1>5, <1>6 DEF Moves, LeaveMove

(* A handler that enters or goes on while the ticket stays alive, in the   *)
(* store or with the handler.                                              *)
LEMMA StayMoves ==
    ASSUME LoginInv, NEW w \in Workers, NEW h \in Hashes, NEW c \in Call, c.hash = h,
           \/ Enter(w, c)
           \/ call[w] # None /\ call[w].hash = h /\ Continue(w, c),
           codes' \in {codes, [codes EXCEPT ![h] = None]},
           \/ ledger' = ledger
           \/ ledger' = [ledger EXCEPT ![h].promised = FALSE]
           \/ \E u \in Users : ledger' = [ledger EXCEPT ![h].created = u],
           codes[h] # None \/ Carries(w, h),
           codes'[h] # None \/ c.pc \in {"load", "password", "bind", "recheck", "create"}
    PROVE  Focus(h) /\ Moves(h)
<1>1. /\ call'[w] = c /\ \A x \in Workers : x # w => call'[x] = None
    BY EnterKeeps, ContinueKeeps
<1>2. ledger \in [Hashes -> LedgerEntry] /\ codes \in [Hashes -> PhoneCode \cup {None}]
    BY DEF LoginInv, TypeOK
<1>3. /\ SameLedger(h)
      /\ codes'[h] \in {codes[h], None}
      /\ \A g \in Hashes : g # h => codes'[g] = codes[g] /\ ledger'[g] = ledger[g]
    BY <1>2 DEF SameLedger, LedgerEntry
<1>4. SameRejected(h)
    BY <1>2 DEF SameRejected, LedgerEntry
<1>5. codes[h] # None \/ Carried(h)
    BY DEF Carried
<1>6. codes'[h] # None \/ Carried(h)'
  <2>1. c # None
      BY NoneIsNoRecord
  <2> QED
      BY <1>1, <2>1 DEF Carried, Carries
<1>7. Focus(h)
  <2>1. db_mutex \in {None, w} /\ (call[w] # None => call[w].hash = h)
      BY OnlyHolderRuns, FreeMutexNobodyRuns DEF Enter
  <2> QED
      BY <1>1, <1>3, <2>1, FocusOn
<1> QED
    BY <1>3, <1>4, <1>5, <1>6, <1>7 DEF Moves, StayMove

(* sendCode stores the record of a hash that was never used.               *)
LEMMA IssueMoves ==
    ASSUME LoginInv, NEW w \in Workers, NEW p \in Phones, NEW h \in Hashes, NEW c \in Codes,
           Issue(p, h, c), EnterAndLeave \/ Enter(w, NewCall("deliver", None, p, h, None))
    PROVE  Focus(h) /\ Moves(h)
<1>1. \A x \in Workers : call[x] = None
    BY FreeMutexNobodyRuns DEF EnterAndLeave, Enter
<1>2. \A x \in Workers : call'[x] # None => call'[x].hash = h
  <2>1. CASE EnterAndLeave
      BY <1>1, <2>1 DEF EnterAndLeave
  <2>2. CASE Enter(w, NewCall("deliver", None, p, h, None))
    <3>1. PICK nc : nc = NewCall("deliver", None, p, h, None)
        OBVIOUS
    <3>2. nc \in Call /\ nc.hash = h
        BY <3>1 DEF NewCall, Call, Pcs, Owner
    <3>3. Enter(w, nc)
        BY <2>2, <3>1
    <3> QED
        BY <3>2, <3>3, EnterKeeps
  <2> QED
      BY <2>1, <2>2
<1>3. /\ ledger[h] \in LedgerEntry /\ ~ledger[h].used /\ ~ledger[h].matched
      /\ ledger[h].grants = 0
    BY DEF LoginInv, TypeOK, CodesInv, HistoryOK, Issue, LedgerEntry
<1>4. /\ \A g \in Hashes : g # h => codes'[g] = codes[g] /\ ledger'[g] = ledger[g]
      /\ ledger'[h].used /\ ~ledger'[h].matched /\ ledger'[h].grants = 0
      /\ ledger'[h].rejected <=> ledger[h].rejected
    BY <1>3 DEF Issue, LoginInv, TypeOK, LedgerEntry
<1>5. codes'[h] # None
    BY IssueKeeps
<1> QED
    BY <1>1, <1>2, <1>3, <1>4, <1>5 DEF Focus, Moves, IssueMove, SameRejected

(* VerifyLogin: the code matches and the proof is kept or carried, or it   *)
(* does not and the record may be gone.                                    *)
LEMMA VerifyMoves ==
    ASSUME LoginInv, NEW w \in Workers, SignInVerify(w)
    PROVE  \E h \in Hashes : Focus(h) /\ Moves(h)
<1>1. call[w] # None /\ call[w] \in Call /\ call[w].pc = "verify" /\ db_mutex = w
    BY OnlyHolderRuns DEF SignInVerify, At
<1>2. PICK h \in Hashes : h = call[w].hash
    BY <1>1 DEF Call
<1>3. PICK ok \in BOOLEAN : ok <=> codes[h].code = call[w].code
    OBVIOUS
<1>4. PICK nc : nc = [call[w] EXCEPT !.pc = "after", !.accepted = ok]
    OBVIOUS
<1>5. nc \in Call /\ nc.pc = "after" /\ nc.hash = h /\ (nc.accepted <=> ok) /\ nc # None
  <2>1. nc \in Call /\ nc.pc = "after" /\ nc.hash = h /\ (nc.accepted <=> ok)
      BY <1>1, <1>2, <1>4 DEF Call, Pcs
  <2> QED
      BY <2>1, NoneIsNoRecord
<1>6. ok = (codes[h].code = call[w].code)
    BY <1>3
<1>7. /\ Continue(w, nc)
      /\ codes' = [codes EXCEPT ![h] = VerifyLogin(codes[h], call[w].code, call[w].before = None)]
      /\ ledger' = [ledger EXCEPT ![h].matched = ledger[h].matched \/ ok,
                                  ![h].misses = IF ok THEN ledger[h].misses
                                                ELSE ledger[h].misses + 1]
    BY <1>2, <1>4, <1>6 DEF SignInVerify
<1>8. call'[w] = nc /\ \A x \in Workers : x # w => call'[x] = None
    BY <1>1, <1>5, <1>7, ContinueKeeps
<1>9. /\ codes[h] # None /\ ~ledger[h].matched /\ ledger[h].used /\ ledger[h].grants = 0
      /\ ledger[h] \in LedgerEntry
    BY <1>1, <1>2 DEF LoginInv, CallInv, CodesInv, StoredOK, TypeOK
<1>10. /\ ledger'[h].used /\ (ledger'[h].matched <=> ok) /\ ledger'[h].grants = 0
       /\ ledger'[h].rejected <=> ledger[h].rejected
    BY <1>7, <1>9 DEF LoginInv, TypeOK, LedgerEntry
<1>11. \A g \in Hashes : g # h => codes'[g] = codes[g] /\ ledger'[g] = ledger[g]
    BY <1>7 DEF LoginInv, TypeOK
<1>12. ok <=> Carried(h)'
    BY <1>5, <1>8 DEF Carried, Carries
<1>13. Focus(h)
    BY <1>1, <1>2, <1>5, <1>8, <1>11, FocusOn
<1> QED
    BY <1>9, <1>10, <1>12, <1>13 DEF Moves, VerifyMove, SameRejected

(* Bind uses the proof that the handler carries.                           *)
LEMMA BindMoves ==
    ASSUME LoginInv, NEW w \in Workers, Bind(w)
    PROVE  \E h \in Hashes : Focus(h) /\ Moves(h)
<1>1. call[w] # None /\ call[w] \in Call /\ call[w].pc = "bind" /\ db_mutex = w
    BY OnlyHolderRuns DEF Bind, At
<1>2. PICK h \in Hashes : h = call[w].hash
    BY <1>1 DEF Call
<1>3. /\ codes[h] = None /\ ledger[h].matched /\ ledger[h].used /\ ledger[h].grants = 0
      /\ ledger[h] \in LedgerEntry
    BY <1>1, <1>2 DEF LoginInv, CallInv, Taken, TypeOK
<1>4. /\ ledger' = [ledger EXCEPT ![h].grants = ledger[h].grants + 1, ![h].grantee = call[w].user]
      /\ codes' = codes /\ Leave(w)
    BY <1>2 DEF Bind
<1>5. /\ ledger'[h].used /\ ledger'[h].grants = 1 /\ (ledger'[h].rejected <=> ledger[h].rejected)
      /\ \A g \in Hashes : g # h => ledger'[g] = ledger[g]
    BY <1>3, <1>4 DEF LoginInv, TypeOK, LedgerEntry
<1>6. call' = [x \in Workers |-> None]
    BY <1>1, <1>4, LeaveEmpties
<1>7. Carried(h)
    BY <1>1, <1>2 DEF Carried, Carries
<1>8. Focus(h)
    BY <1>1, <1>2, <1>4, <1>5, <1>6, FocusOn
<1> QED
    BY <1>3, <1>4, <1>5, <1>7, <1>8 DEF Moves, UseMove, SameRejected

(* The steps by which a handler goes on with a proof it carries.           *)
LEMMA CarryMoves ==
    ASSUME LoginInv, NEW w \in Workers,
           \/ SignInAccepted(w) \/ SignInLoad(w) \/ SignInPassword(w)
           \/ SignUpConsume(w) \/ SignUpRecheck(w) \/ SignUpCreate(w)
    PROVE  \E h \in Hashes : Focus(h) /\ Moves(h)
<1>1. call[w] # None /\ call[w] \in Call
    BY OnlyHolderRuns DEF SignInAccepted, SignInLoad, SignInPassword,
                          SignUpConsume, SignUpRecheck, SignUpCreate, At
<1>2. PICK h \in Hashes : h = call[w].hash
    BY <1>1 DEF Call
<1>3. CASE SignInAccepted(w)
  <2>1. PICK c : c = [call[w] EXCEPT !.pc = "load"]
      OBVIOUS
  <2>2. c \in Call /\ c.hash = h /\ c.pc = "load"
      BY <1>1, <1>2, <2>1 DEF Call, Pcs
  <2>3. Carries(w, h) /\ Continue(w, c) /\ codes' = codes /\ ledger' = ledger
      BY <1>1, <1>2, <1>3, <2>1 DEF SignInAccepted, At, Carries
  <2> QED
      BY <1>1, <1>2, <2>2, <2>3, StayMoves
<1>4. CASE SignInLoad(w)
  <2>1. PICK c : c = [call[w] EXCEPT !.pc = "password", !.user = owner[call[w].phone]]
      OBVIOUS
  <2>2. c \in Call /\ c.hash = h /\ c.pc = "password"
      BY <1>1, <1>2, <2>1 DEF Call, Pcs, LoginInv, TypeOK
  <2>3. Carries(w, h) /\ Continue(w, c) /\ codes' = codes /\ ledger' = ledger
      BY <1>1, <1>2, <1>4, <2>1 DEF SignInLoad, At, Carries
  <2> QED
      BY <1>1, <1>2, <2>2, <2>3, StayMoves
<1>5. CASE SignInPassword(w)
  <2>1. PICK c : c = [call[w] EXCEPT !.pc = "bind", !.pending = password[call[w].user]]
      OBVIOUS
  <2>2. c \in Call /\ c.hash = h /\ c.pc = "bind"
    <3>1. call[w].user \in Users
        BY <1>1, <1>5 DEF LoginInv, CallInv, SignInPassword, At
    <3> QED
        BY <1>1, <1>2, <2>1, <3>1 DEF Call, Pcs, LoginInv, TypeOK
  <2>3. Carries(w, h) /\ Continue(w, c) /\ codes' = codes /\ ledger' = ledger
      BY <1>1, <1>2, <1>5, <2>1 DEF SignInPassword, At, Carries
  <2> QED
      BY <1>1, <1>2, <2>2, <2>3, StayMoves
<1>6. CASE SignUpConsume(w)
  <2>1. PICK c : c = [call[w] EXCEPT !.pc = "recheck"]
      OBVIOUS
  <2>2. c \in Call /\ c.hash = h /\ c.pc = "recheck"
      BY <1>1, <1>2, <2>1 DEF Call, Pcs
  <2>3. /\ codes[h] # None /\ Continue(w, c) /\ codes' = [codes EXCEPT ![h] = None]
        /\ ledger' = [ledger EXCEPT ![h].promised = FALSE]
      BY <1>1, <1>2, <1>6, <2>1 DEF SignUpConsume, Del, At, LoginInv, CallInv
  <2> QED
      BY <1>1, <1>2, <2>2, <2>3, StayMoves
<1>7. CASE SignUpRecheck(w)
  <2>1. PICK c : c = [call[w] EXCEPT !.pc = "create"]
      OBVIOUS
  <2>2. c \in Call /\ c.hash = h /\ c.pc = "create"
      BY <1>1, <1>2, <2>1 DEF Call, Pcs
  <2>3. Carries(w, h) /\ Continue(w, c) /\ codes' = codes /\ ledger' = ledger
      BY <1>1, <1>2, <1>7, <2>1 DEF SignUpRecheck, At, Carries
  <2> QED
      BY <1>1, <1>2, <2>2, <2>3, StayMoves
<1>8. CASE SignUpCreate(w)
  <2>1. PICK u \in Users : /\ ledger' = [ledger EXCEPT ![h].created = u]
                           /\ Continue(w, [call[w] EXCEPT !.pc = "bind", !.user = u])
      BY <1>2, <1>8 DEF SignUpCreate
  <2>2. PICK c : c = [call[w] EXCEPT !.pc = "bind", !.user = u]
      OBVIOUS
  <2>3. c \in Call /\ c.hash = h /\ c.pc = "bind"
      BY <1>1, <1>2, <2>2 DEF Call, Pcs, Owner
  <2>4. Carries(w, h) /\ Continue(w, c) /\ codes' = codes
      BY <1>1, <1>2, <1>8, <2>1, <2>2 DEF SignUpCreate, At, Carries
  <2> QED
      BY <1>1, <1>2, <2>1, <2>3, <2>4, StayMoves
<1> QED
    BY <1>3, <1>4, <1>5, <1>6, <1>7, <1>8

(* The steps that end a handler without a login.                           *)
LEMMA EndMoves ==
    ASSUME LoginInv, NEW w \in Workers,
           \/ Delivered(w) \/ DeliveryFailed(w) \/ DeliveryThrows(w)
           \/ SignInDrifted(w) \/ SignInRefused(w) \/ SignInNeedsSignUp(w) \/ SignInGone(w)
           \/ BindRefused(w) \/ SignUpLost(w) \/ DbError(w)
    PROVE  \E h \in Hashes : Focus(h) /\ Moves(h)
<1>1. call[w] # None /\ Leave(w)
    BY DEF Delivered, DeliveryFailed, DeliveryThrows, SignInDrifted, SignInRefused,
           SignInNeedsSignUp, SignInGone, BindRefused, SignUpLost, DbError, At
<1>2. call[w] \in Call
    BY <1>1, OnlyHolderRuns
<1>3. PICK h \in Hashes : h = call[w].hash
    BY <1>2 DEF Call
<1>4. CASE Delivered(w) \/ DeliveryThrows(w) \/ SignInRefused(w) \/ BindRefused(w)
           \/ SignUpLost(w) \/ DbError(w)
  <2>1. codes' = codes /\ ledger' = ledger
      BY <1>4 DEF Delivered, DeliveryThrows, SignInRefused, BindRefused, SignUpLost, DbError
  <2> QED
      BY <1>1, <1>3, <2>1, LeaveMoves
<1>5. CASE SignInNeedsSignUp(w) \/ SignInGone(w)
  <2>1. codes' = codes /\ ledger' = [ledger EXCEPT ![h].promised = TRUE]
      BY <1>3, <1>5 DEF SignInNeedsSignUp, SignInGone
  <2> QED
      BY <1>1, <1>3, <2>1, LeaveMoves
<1>6. CASE SignInDrifted(w)
  <2>1. codes' = [codes EXCEPT ![h] = None] /\ ledger' = [ledger EXCEPT ![h].promised = FALSE]
      BY <1>3, <1>6 DEF SignInDrifted, Del
  <2> QED
      BY <1>1, <1>3, <2>1, LeaveMoves
<1>7. CASE DeliveryFailed(w)
  <2>1. codes[h] # None /\ ~codes[h].verified
      BY <1>1, <1>3, <1>7 DEF DeliveryFailed, At, LoginInv, CallInv
  <2>2. codes' = [codes EXCEPT ![h] = None] /\ ledger' = [ledger EXCEPT ![h].rejected = TRUE]
      BY <1>3, <1>7 DEF DeliveryFailed
  <2> QED
      BY <1>1, <1>3, <2>1, <2>2, LeaveMoves
<1> QED
    BY <1>4, <1>5, <1>6, <1>7

(* The steps that enter a handler, or return in the step that entered it.  *)
LEMMA EnterMoves ==
    ASSUME LoginInv, NEW w \in Workers, NEW p \in Phones, NEW h \in Hashes,
           \/ SendFixedCode(w, p, h) \/ SignInStale(w, p, h) \/ SignUpStale(w, p, h)
           \/ \E c \in Codes : \/ SendRandomCode(w, p, h, c) \/ SignInAgain(w, p, h, c)
                               \/ \E k \in Keys : SignIn(w, k, p, h, c)
           \/ \E k \in Keys : SignUp(w, k, p, h)
    PROVE  Focus(h) /\ Moves(h)
<1>1. CASE SendFixedCode(w, p, h)
    BY <1>1, IssueMoves, LoginConstants DEF SendFixedCode
<1>2. CASE SignInStale(w, p, h) \/ SignUpStale(w, p, h)
  <2>1. /\ EnterAndLeave /\ codes' = [codes EXCEPT ![h] = None]
        /\ ledger' = [ledger EXCEPT ![h].promised = FALSE]
      BY <1>2 DEF SignInStale, SignUpStale, Del
  <2> QED
      BY <2>1, LeaveMoves
<1>3. CASE \E c \in Codes : SendRandomCode(w, p, h, c)
    BY <1>3, IssueMoves DEF SendRandomCode
<1>4. CASE \E c \in Codes : SignInAgain(w, p, h, c)
  <2>1. EnterAndLeave /\ codes' = codes /\ ledger' = [ledger EXCEPT ![h].promised = TRUE]
      BY <1>4 DEF SignInAgain
  <2> QED
      BY <2>1, LeaveMoves
<1>5. CASE \E c \in Codes, k \in Keys : SignIn(w, k, p, h, c)
  <2>1. PICK c \in Codes, k \in Keys : SignIn(w, k, p, h, c)
      BY <1>5
  <2>2. PICK nc : nc = [NewCall("verify", k, p, h, c) EXCEPT !.before = owner[p]]
      OBVIOUS
  <2>3. nc \in Call /\ nc.hash = h
      BY <2>2 DEF NewCall, Call, Pcs, Owner, LoginInv, TypeOK
  <2>4. Enter(w, nc) /\ codes[h] # None /\ codes' = codes /\ ledger' = ledger
      BY <2>1, <2>2 DEF SignIn, Found
  <2> QED
      BY <2>3, <2>4, StayMoves
<1>6. CASE \E k \in Keys : SignUp(w, k, p, h)
  <2>1. PICK k \in Keys : SignUp(w, k, p, h)
      BY <1>6
  <2>2. PICK nc : nc = NewCall("consume", k, p, h, None)
      OBVIOUS
  <2>3. nc \in Call /\ nc.hash = h
      BY <2>2 DEF NewCall, Call, Pcs, Owner
  <2>4. Enter(w, nc) /\ codes[h] # None /\ codes' = codes /\ ledger' = ledger
      BY <2>1, <2>2 DEF SignUp, Verified, Found
  <2> QED
      BY <2>3, <2>4, StayMoves
<1> QED
    BY <1>1, <1>2, <1>3, <1>4, <1>5, <1>6

(* Every step restarts the process, moves one ticket, or touches none.     *)
LEMMA StepMoves ==
    ASSUME LoginInv, [Next]_vars
    PROVE  \/ Restart
           \/ codes' = codes /\ ledger' = ledger /\ call' = call
           \/ \E h \in Hashes : Focus(h) /\ Moves(h)
<1>1. CASE UNCHANGED vars
    BY <1>1 DEF vars
<1>2. CASE Environment
    BY <1>2 DEF Environment, UpdatePhone, DeleteAccount, ChangePassword
<1>3. ASSUME NEW w \in Workers,
             SendCodeStep(w) \/ SignInStep(w) \/ SignUpStep(w) \/ BindStep(w) \/ DbError(w)
      PROVE  \E h \in Hashes : Focus(h) /\ Moves(h)
  <2>1. CASE SendCodeStep(w)
      BY <2>1, EnterMoves, EndMoves DEF SendCodeStep
  <2>2. CASE SignInStep(w)
      BY <2>2, EnterMoves, VerifyMoves, CarryMoves, EndMoves DEF SignInStep
  <2>3. CASE SignUpStep(w)
      BY <2>3, EnterMoves, CarryMoves, EndMoves DEF SignUpStep
  <2>4. CASE BindStep(w) \/ DbError(w)
      BY <2>4, BindMoves, EndMoves DEF BindStep
  <2> QED
      BY <1>3, <2>1, <2>2, <2>3, <2>4
<1> QED
    BY <1>1, <1>2, <1>3 DEF Next

-----------------------------------------------------------------------------
(* A refused code left the store before anyone presented it.               *)
RefusedOK ==
    \A h \in Hashes : ledger[h].rejected =>
        codes[h] = None /\ ledger[h].used /\ ~ledger[h].matched

(* Nothing that happens later to a refused hash brings it back.            *)
LEMMA RefusedStep == LoginInv /\ RefusedOK /\ [Next]_vars => RefusedOK'
<1> SUFFICES ASSUME LoginInv, RefusedOK, [Next]_vars, NEW g \in Hashes, ledger'[g].rejected
             PROVE  codes'[g] = None /\ ledger'[g].used /\ ~ledger'[g].matched
    BY DEF RefusedOK
<1>1. CASE Restart
  <2>1. /\ codes'[g] = None
        /\ ledger'[g] = [ledger[g] EXCEPT !.promised = FALSE] /\ ledger[g] \in LedgerEntry
      BY <1>1 DEF Restart, LoginInv, TypeOK
  <2> QED
      BY <2>1 DEF RefusedOK, LedgerEntry
<1>2. CASE codes' = codes /\ ledger' = ledger
    BY <1>2 DEF RefusedOK
<1>3. ASSUME NEW h \in Hashes, Focus(h), Moves(h)
      PROVE  codes'[g] = None /\ ledger'[g].used /\ ~ledger'[g].matched
  <2>1. CASE g # h
      BY <1>3, <2>1 DEF Focus, RefusedOK
  <2>2. CASE g = h
      BY <1>3, <2>2 DEF Moves, IssueMove, LeaveMove, StayMove, VerifyMove, UseMove,
                        SameLedger, SameRejected, RefusedOK
  <2> QED
      BY <2>1, <2>2
<1> QED
    BY <1>1, <1>2, <1>3, StepMoves

(* "A code nobody actually received must not remain guessable/usable":     *)
(* whatever runs between SendCode's Set and the exception of Deliver, the  *)
(* code is deleted unpresented, logs nobody in and makes no account.       *)
THEOREM UndeliveredDead == Spec => []UndeliveredCodeIsDead
<1>1. Init => LoginInv /\ RefusedOK
    BY InitLoginInv DEF Init, RefusedOK, NewEntry
<1>2. LoginInv /\ RefusedOK /\ [Next]_vars => (LoginInv /\ RefusedOK)'
    BY NextLoginInv, RefusedStep
<1>3. LoginInv /\ RefusedOK => UndeliveredCodeIsDead
  <2> SUFFICES ASSUME LoginInv, RefusedOK, NEW h \in Hashes, ledger[h].rejected
               PROVE  codes[h] = None /\ ledger[h].grants = 0 /\ ledger[h].created = None
      BY DEF UndeliveredCodeIsDead
  <2> QED
      BY DEF LoginInv, TypeOK, CodesInv, HistoryOK, RefusedOK, LedgerEntry
<1> QED
    BY <1>1, <1>2, <1>3, PTL DEF Spec

-----------------------------------------------------------------------------
(* The handlers implement LoginTicket.                                     *)

(* A step on one hash leaves the other tickets as they are.                *)
LEMMA OtherTickets ==
    ASSUME NEW h \in Hashes, Focus(h), NEW g \in Hashes, g # h
    PROVE  TicketState(g)' = TicketState(g) /\ ledger'[g].grants = ledger[g].grants
<1>1. codes'[g] = codes[g] /\ ledger'[g] = ledger[g]
    BY DEF Focus
<1>2. \A x \in Workers : ~Carries(x, g) /\ ~Carries(x, g)'
    BY DEF Focus, Carries
<1> QED
    BY <1>1, <1>2 DEF TicketState

(* The ticket a step is about moves as LoginTicket allows, or not at all.  *)
LEMMA TicketMoves ==
    ASSUME LoginInv, LoginInv', NEW h \in Hashes, Moves(h)
    PROVE  \/ /\ TicketState(h) = "unissued" /\ TicketState(h)' = "open"
              /\ ledger'[h].grants = ledger[h].grants
           \/ /\ TicketState(h) = "open" /\ TicketState(h)' = "proven"
              /\ ledger'[h].grants = ledger[h].grants
           \/ /\ TicketState(h) = "proven" /\ TicketState(h)' = "used"
              /\ ledger'[h].grants = ledger[h].grants + 1
           \/ /\ TicketState(h) \in {"open", "proven"} /\ TicketState(h)' = "discarded"
              /\ ledger'[h].grants = ledger[h].grants
           \/ TicketState(h)' = TicketState(h) /\ ledger'[h].grants = ledger[h].grants
<1>1. /\ TicketState(h) = IF ~ledger[h].used THEN "unissued"
                          ELSE IF ledger[h].grants > 0 THEN "used"
                          ELSE IF codes[h] = None /\ ~Carried(h) THEN "discarded"
                          ELSE IF ledger[h].matched THEN "proven" ELSE "open"
      /\ TicketState(h)' = IF ~ledger'[h].used THEN "unissued"
                           ELSE IF ledger'[h].grants > 0 THEN "used"
                           ELSE IF codes'[h] = None /\ ~Carried(h)' THEN "discarded"
                           ELSE IF ledger'[h].matched THEN "proven" ELSE "open"
    BY DEF TicketState, Carried
<1>2. ledger[h].grants \in Nat /\ ledger'[h].grants \in Nat
    BY DEF LoginInv, TypeOK, LedgerEntry
<1>3. CASE IssueMove(h)
    BY <1>1, <1>2, <1>3 DEF IssueMove
<1>4. CASE LeaveMove(h)
    BY <1>1, <1>2, <1>4 DEF LeaveMove, SameLedger
<1>5. CASE StayMove(h)
    BY <1>1, <1>2, <1>5 DEF StayMove, SameLedger
<1>6. CASE VerifyMove(h)
    BY <1>1, <1>2, <1>6 DEF VerifyMove
<1>7. CASE UseMove(h)
    BY <1>1, <1>2, <1>7 DEF UseMove
<1> QED
    BY <1>3, <1>4, <1>5, <1>6, <1>7 DEF Moves

(* A restart discards the tickets that are open or proven.                 *)
LEMMA RestartDiscards ==
    ASSUME LoginInv, Restart, NEW h \in Hashes
    PROVE  /\ TicketState(h)' = IF TicketState(h) \in {"open", "proven"}
                                THEN "discarded" ELSE TicketState(h)
           /\ ledger'[h].grants = ledger[h].grants
<1>1. /\ codes'[h] = None /\ \A x \in Workers : call'[x] = None
      /\ ledger'[h] = [ledger[h] EXCEPT !.promised = FALSE] /\ ledger[h] \in LedgerEntry
    BY DEF Restart, LoginInv, TypeOK
<1>2. \A x \in Workers : ~Carries(x, h)'
    BY <1>1 DEF Carries
<1>3. /\ ledger'[h].used <=> ledger[h].used
      /\ ledger'[h].matched <=> ledger[h].matched
      /\ ledger'[h].grants = ledger[h].grants
    BY <1>1 DEF LedgerEntry
<1> QED
    BY <1>1, <1>2, <1>3 DEF TicketState

(* A step of the handlers is a step of the tickets, or none.               *)
LEMMA TicketStep ==
    ASSUME LoginInv, LoginInv', [Next]_vars
    PROVE  [Ticket!Next]_<<[h \in Hashes |-> TicketState(h)], [h \in Hashes |-> ledger[h].grants]>>
<1>1. PICK t : t = [g \in Hashes |-> TicketState(g)]
    OBVIOUS
<1>2. PICK n : n = [g \in Hashes |-> ledger[g].grants]
    OBVIOUS
<1>3. PICK tt : tt = [g \in Hashes |-> TicketState(g)']
    OBVIOUS
<1>4. PICK nn : nn = [g \in Hashes |-> ledger'[g].grants]
    OBVIOUS
<1>5. CASE Restart
    BY <1>5, RestartDiscards DEF Ticket!Next, Ticket!DiscardAll
<1>6. CASE codes' = codes /\ ledger' = ledger /\ call' = call
  <2>1. \A g \in Hashes : TicketState(g)' = TicketState(g)
      BY <1>6 DEF TicketState, Carries
  <2> QED
      BY <1>6, <2>1
<1>7. ASSUME NEW h \in Hashes, Focus(h), Moves(h)
      PROVE  [Ticket!Next]_<<[g \in Hashes |-> TicketState(g)], [g \in Hashes |-> ledger[g].grants]>>
  <2>1. \A g \in Hashes : g # h => tt[g] = t[g] /\ nn[g] = n[g]
      BY <1>1, <1>2, <1>3, <1>4, <1>7, OtherTickets
  <2>2. \/ t[h] = "unissued" /\ tt[h] = "open" /\ nn[h] = n[h]
        \/ t[h] = "open" /\ tt[h] = "proven" /\ nn[h] = n[h]
        \/ t[h] = "proven" /\ tt[h] = "used" /\ nn[h] = n[h] + 1
        \/ t[h] \in {"open", "proven"} /\ tt[h] = "discarded" /\ nn[h] = n[h]
        \/ tt[h] = t[h] /\ nn[h] = n[h]
      BY <1>1, <1>2, <1>3, <1>4, <1>7, TicketMoves
  <2>3. \/ t[h] \in {"unissued"} /\ tt = [t EXCEPT ![h] = "open"] /\ nn = n
        \/ t[h] \in {"open"} /\ tt = [t EXCEPT ![h] = "proven"] /\ nn = n
        \/ /\ t[h] \in {"proven"} /\ tt = [t EXCEPT ![h] = "used"]
           /\ nn = [n EXCEPT ![h] = n[h] + 1]
        \/ t[h] \in {"open", "proven"} /\ tt = [t EXCEPT ![h] = "discarded"] /\ nn = n
        \/ tt = t /\ nn = n
    <3>1. tt = [t EXCEPT ![h] = tt[h]] /\ nn = [n EXCEPT ![h] = nn[h]]
        BY <1>1, <1>2, <1>3, <1>4, <2>1
    <3>2. nn[h] = n[h] => nn = n
        BY <1>2, <1>4, <2>1
    <3>3. tt[h] = t[h] => tt = t
        BY <1>1, <1>3, <2>1
    <3> QED
        BY <2>2, <3>1, <3>2, <3>3
  <2> QED
      BY <1>1, <1>2, <1>3, <1>4, <2>3
      DEF Ticket!Next, Ticket!Issue, Ticket!Prove, Ticket!Use, Ticket!Discard, Ticket!Move
<1> QED
    BY <1>5, <1>6, <1>7, StepMoves

(* The login handlers, with their store accesses, webhook, errors, racing  *)
(* writers and restarts, implement the ticket: one hash is issued once,    *)
(* proven once, used for at most one login and never comes back.           *)
THEOREM LoginImplementsTicket == Spec => ImplementsTicket
<1>1. Init => Ticket!Init
  <2> SUFFICES ASSUME Init PROVE Ticket!Init
      OBVIOUS
  <2>1. \A h \in Hashes : ledger[h].grants = 0 /\ TicketState(h) = "unissued"
      BY DEF Init, NewEntry, TicketState
  <2> QED
      BY <2>1 DEF Ticket!Init
<1>2. LoginInv /\ LoginInv' /\ [Next]_vars
        => [Ticket!Next]_<<[h \in Hashes |-> TicketState(h)], [h \in Hashes |-> ledger[h].grants]>>
    BY TicketStep
<1> QED
    BY <1>1, <1>2, LoginInvariant, PTL DEF Spec, ImplementsTicket, Ticket!Spec
=============================================================================
