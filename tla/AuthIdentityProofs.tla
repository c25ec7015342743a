------------------------- MODULE AuthIdentityProofs -------------------------
(***************************************************************************)
(* Proofs about AuthIdentity, for any number of transactions, of permanent *)
(* and temporary keys and of users, and any hash of the keys.              *)
(***************************************************************************)
EXTENDS AuthIdentity, FiniteSetTheorems, SequenceTheorems, WellFoundedInduction, TLAPS

-----------------------------------------------------------------------------
(* Sorting.                                                                *)

(* A set of numbers has a least one.                                       *)
LEMMA Least ==
    ASSUME NEW S \in SUBSET Nat, S # {}
    PROVE  \E m \in S : \A n \in S : m <= n
<1>0. IsWellFoundedOn({ss \in Nat \X Nat : ss[1] < ss[2]}, Nat)
    BY NatLessThanWellFounded, Zenon DEF OpToRel
<1>1. PICK m \in S : \A n \in S : <<n, m>> \notin {ss \in Nat \X Nat : ss[1] < ss[2]}
    BY <1>0, WFMin
<1>2. ASSUME NEW n \in S PROVE m <= n
  <2>1. n \in Nat /\ m \in Nat
      OBVIOUS
  <2>2. <<n, m>> \in Nat \X Nat /\ <<n, m>>[1] = n /\ <<n, m>>[2] = m
      BY <2>1
  <2>3. ~ (n < m)
      BY <1>1, <2>2, Zenon
  <2> QED
      BY <2>1, <2>3
<1> QED
    BY <1>2

(* s lists S in ascending order.                                           *)
Lists(s, S, n) ==
    /\ s \in [1 .. n -> S]
    /\ \A x \in S : \E i \in 1 .. n : s[i] = x
    /\ \A i, j \in 1 .. n : i < j => s[i] < s[j]

(* By induction on the cardinality: the least element, then the rest.      *)
LEMMA CanBeListed ==
    ASSUME NEW S \in SUBSET Nat, IsFiniteSet(S)
    PROVE  \E s : Lists(s, S, Cardinality(S))
<1> DEFINE Bad == {n \in Nat : \E T \in SUBSET Nat : /\ IsFiniteSet(T) /\ Cardinality(T) = n
                                                     /\ \A s : ~ Lists(s, T, n)}
<1>1. ASSUME Bad # {} PROVE FALSE
  <2>1. Bad \in SUBSET Nat
      OBVIOUS
  <2>2. PICK n \in Bad : \A m \in Bad : n <= m
      BY <1>1, <2>1, Least
  <2>3. PICK T \in SUBSET Nat : IsFiniteSet(T) /\ Cardinality(T) = n /\ \A s : ~ Lists(s, T, n)
      OBVIOUS
  <2>4. n \in Nat
      OBVIOUS
  <2>5. CASE T = {}
    <3>1. n = 0
        BY <2>3, <2>5, FS_EmptySet
    <3>2. PICK s : s \in [1 .. 0 -> T]
      <4>1. [i \in 1 .. 0 |-> 0] \in [1 .. 0 -> T]
          OBVIOUS
      <4> QED
          BY <4>1
    <3>3. Lists(s, T, n)
        BY <2>5, <3>1, <3>2 DEF Lists
    <3> QED
        BY <2>3, <3>3
  <2>6. CASE T # {}
    <3>1. PICK m \in T : \A x \in T : m <= x
        BY <2>6, Least
    <3>2. PICK R \in SUBSET Nat : R = T \ {m}
        OBVIOUS
    <3>3. IsFiniteSet(R) /\ Cardinality(R) = n - 1 /\ n - 1 \in Nat
        BY <2>3, <2>4, <3>2, FS_RemoveElement, FS_CardinalityType
    <3>4. n - 1 \notin Bad
        BY <2>2, <2>4, <3>3
    <3>5. PICK r : Lists(r, R, n - 1)
        BY <3>3, <3>4
    <3> DEFINE s == [i \in 1 .. n |-> IF i = 1 THEN m ELSE r[i - 1]]
    <3>6. s \in [1 .. n -> T]
      <4> SUFFICES ASSUME NEW i \in 1 .. n, i # 1 PROVE r[i - 1] \in T
          OBVIOUS
      <4>1. i - 1 \in 1 .. n - 1
          BY <2>4
      <4> QED
          BY <3>2, <3>5, <4>1 DEF Lists
    <3>7. ASSUME NEW x \in T PROVE \E i \in 1 .. n : s[i] = x
      <4>1. CASE x = m
        <5>1. 1 \in 1 .. n
            BY <3>3
        <5> QED
            BY <4>1, <5>1
      <4>2. CASE x # m
        <5>1. PICK i \in 1 .. n - 1 : r[i] = x
            BY <3>2, <3>5, <4>2 DEF Lists
        <5>2. i + 1 \in 1 .. n /\ i + 1 # 1 /\ (i + 1) - 1 = i
            BY <2>4
        <5> QED
            BY <5>1, <5>2
      <4> QED
          BY <4>1, <4>2
    <3>8. ASSUME NEW i \in 1 .. n, NEW j \in 1 .. n, i < j PROVE s[i] < s[j]
      <4>1. j # 1 /\ j - 1 \in 1 .. n - 1 /\ s[j] = r[j - 1]
          BY <2>4, <3>8
      <4>2. CASE i = 1
        <5>1. r[j - 1] \in T /\ r[j - 1] # m /\ r[j - 1] \in Nat /\ m \in Nat
            BY <3>2, <3>5, <4>1 DEF Lists
        <5>2. s[i] = m
            BY <4>2
        <5>3. m <= r[j - 1]
            BY <3>1, <5>1
        <5> HIDE DEF s
        <5> QED
            BY <4>1, <5>1, <5>2, <5>3
      <4>3. CASE i # 1
        <5>1. i - 1 \in 1 .. n - 1 /\ s[i] = r[i - 1] /\ i - 1 < j - 1
            BY <2>4, <3>8, <4>3
        <5> QED
            BY <3>5, <4>1, <5>1 DEF Lists
      <4> QED
          BY <4>2, <4>3
    <3>9. Lists(s, T, n)
        BY <3>6, <3>7, <3>8 DEF Lists
    <3> QED
        BY <2>3, <3>9
  <2> QED
      BY <2>5, <2>6
<1>2. Cardinality(S) \in Nat /\ Cardinality(S) \notin Bad
    BY <1>1, FS_CardinalityType
<1> QED
    BY <1>2

(* Ascending lists every element of a finite set of numbers once, in       *)
(* increasing order.                                                       *)
LEMMA AscendingLists ==
    ASSUME NEW S \in SUBSET Nat, IsFiniteSet(S)
    PROVE  /\ Lists(Ascending(S), S, Cardinality(S)) /\ Cardinality(S) \in Nat
           /\ Ascending(S) \in Seq(S) /\ Len(Ascending(S)) = Cardinality(S)
<1>1. Cardinality(S) \in Nat
    BY FS_CardinalityType
<1>2. \E s \in [1 .. Cardinality(S) -> S] :
        /\ \A x \in S : \E i \in 1 .. Cardinality(S) : s[i] = x
        /\ \A i, j \in 1 .. Cardinality(S) : i < j => s[i] < s[j]
    BY CanBeListed DEF Lists
<1>3. Lists(Ascending(S), S, Cardinality(S))
    BY <1>2 DEF Ascending, Lists
<1>4. Ascending(S) \in [1 .. Cardinality(S) -> S]
    BY <1>3 DEF Lists
<1>5. Ascending(S) \in Seq(S)
    BY <1>1, <1>4, IsASeq
<1>6. Len(Ascending(S)) = Cardinality(S)
    BY <1>1, <1>4, <1>5, LenProperties
<1> QED
    BY <1>1, <1>3, <1>5, <1>6
-----------------------------------------------------------------------------
(* Locks, the order in which they are asked for, and who wants which.      *)

Level(l) == CASE l[1] = "user"      -> 0
              [] l[1] = "identity"  -> 1
              [] l[1] = "key"       -> 2
              [] l[1] = "watermark" -> 3
              [] l[1] = "retention" -> 4

(* Rows of keys are locked in any order.                                   *)
Before(a, b) ==
    \/ Level(a) < Level(b)
    \/ a[1] = "identity" /\ b[1] = "identity" /\ a[2] < b[2]
    \/ a[1] = "key" /\ b[1] = "key"

(* The locks that a transaction has asked for by now.                      *)
Wants(x) ==
    CASE x.op = "bind"   -> {<<"user", x.user>>, IdentityLock(x.key), KeyLock(x.key),
                             <<"watermark", x.user>>, <<"retention", x.user>>}
      [] x.op = "save"   -> {IdentityLock(x.perm), KeyLock(x.key), KeyLock(x.perm)}
      [] x.op = "load"   -> {KeyLock(x.key), KeyLock(x.perm)}
      [] x.op = "revoke" -> {IdentityLock(k) : k \in x.targets} \cup {KeyLock(k) : k \in x.targets}
      [] x.op = "prune"  -> {<<"watermark", x.user>>, <<"retention", x.user>>}
      [] x.op = "delete" ->
            {IdentityLock(k) : k \in {x.key} \cap PermKeys}
              \cup {IdentityLock(k) : k \in IF x.bound THEN {x.perm} ELSE {}}
              \cup {KeyLock(x.key)}
              \cup {KeyLock(k) : k \in IF x.bound /\ x.pc # "recheck" THEN {x.perm} ELSE {}}
              \cup {KeyLock(k) : k \in IF x.pc = "commit" THEN x.targets ELSE {}}

InTodo(l, s) == \E i \in 1 .. Len(s) : s[i] = l

(* s, the locks still to take, is a part of the wanted ones, W: none is    *)
(* asked for twice, nor before one of a lower level.                       *)
Planned(s, W) ==
    /\ s \in Seq(Locks)
    /\ \A i, j \in 1 .. Len(s) : i < j => s[i] # s[j]
    /\ \A i \in 1 .. Len(s) : s[i] \in W
    /\ \A i \in 1 .. Len(s), l \in W : (\E j \in i .. Len(s) : s[j] = l) \/ Before(l, s[i])

(* What the assumptions on the constants say of the keys.                  *)
LEMMA KeysFinite ==
    /\ IsFiniteSet(PermKeys) /\ PermKeys \subseteq Nat
    /\ IsFiniteSet(TempKeys) /\ TempKeys \subseteq Nat
    /\ PermKeys \cap TempKeys = {} /\ Keys = PermKeys \cup TempKeys
    /\ \A k \in PermKeys : Hash[k] \in Nat
BY AuthIdentityConstants DEF Keys

(* The locks that the transactions name are locks.                         *)
LEMMA LockTypes ==
    /\ \A k \in PermKeys : IdentityLock(k) \in Locks
    /\ \A k \in Keys : KeyLock(k) \in Locks
    /\ \A u \in Users : <<"user", u>> \in Locks /\ <<"watermark", u>> \in Locks
                          /\ <<"retention", u>> \in Locks
BY DEF Locks, IdentityLock, KeyLock

(* The class and the number of each lock.                                  *)
LEMMA LockParts ==
    /\ \A k : IdentityLock(k)[1] = "identity" /\ IdentityLock(k)[2] = Hash[k]
    /\ \A k : KeyLock(k)[1] = "key" /\ KeyLock(k)[2] = k
    /\ \A u : /\ <<"user", u>>[1] = "user" /\ <<"watermark", u>>[1] = "watermark"
              /\ <<"retention", u>>[1] = "retention"
              /\ <<"user", u>>[2] = u /\ <<"watermark", u>>[2] = u /\ <<"retention", u>>[2] = u
BY DEF IdentityLock, KeyLock

(* The place of each class of locks in the global order.                   *)
LEMMA LockLevels ==
    /\ \A k : Level(IdentityLock(k)) = 1
    /\ \A k : Level(KeyLock(k)) = 2
    /\ \A u : /\ Level(<<"user", u>>) = 0 /\ Level(<<"watermark", u>>) = 3
              /\ Level(<<"retention", u>>) = 4
BY LockParts DEF Level

(* What level a lock has.                                                  *)
Levels(l) ==
    \/ l[1] = "user" /\ Level(l) = 0
    \/ l[1] = "identity" /\ Level(l) = 1
    \/ l[1] = "key" /\ Level(l) = 2
    \/ l[1] = "watermark" /\ Level(l) = 3
    \/ l[1] = "retention" /\ Level(l) = 4

(* Every lock has a level and a number.                                    *)
LEMMA LevelsOfLocks ==
    ASSUME NEW l \in Locks
    PROVE  Levels(l)
<1>1. l[1] \in {"user", "watermark", "retention", "identity", "key"}
    BY DEF Locks
<1> QED
    BY <1>1 DEF Levels, Level

(* s asks for all of W, in order.                                          *)
Orders(s, W) ==
    /\ s \in Seq(Locks)
    /\ \A i \in 1 .. Len(s) : s[i] \in W
    /\ \A l \in W : \E i \in 1 .. Len(s) : s[i] = l
    /\ \A i, j \in 1 .. Len(s) : i < j => s[i] # s[j] /\ Before(s[i], s[j])

(* A list of locks in the global order can be taken from the front.        *)
LEMMA OrdersPlanned ==
    ASSUME NEW s, NEW W, Orders(s, W)
    PROVE  Planned(s, W) /\ \A l \in W : InTodo(l, s)
<1>1. s \in Seq(Locks) /\ Len(s) \in Nat
    BY LenProperties DEF Orders
<1>2. ASSUME NEW i \in 1 .. Len(s), NEW l \in W
      PROVE  (\E j \in i .. Len(s) : s[j] = l) \/ Before(l, s[i])
  <2>1. PICK k \in 1 .. Len(s) : s[k] = l
      BY DEF Orders
  <2>2. CASE i <= k
      BY <1>1, <2>1, <2>2
  <2>3. CASE k < i
      BY <2>1, <2>3 DEF Orders
  <2> QED
      BY <1>1, <2>2, <2>3
<1> QED
    BY <1>1, <1>2 DEF Planned, InTodo, Orders

(* Two ordered lists, the second beyond the first, make an ordered list.   *)
LEMMA ConcatOrders ==
    ASSUME NEW s1, NEW s2, NEW W1, NEW W2, Orders(s1, W1), Orders(s2, W2),
           \A a \in W1, b \in W2 : a # b /\ Before(a, b)
    PROVE  Orders(s1 \o s2, W1 \cup W2)
<1>1. /\ s1 \in Seq(Locks) /\ s2 \in Seq(Locks) /\ Len(s1) \in Nat /\ Len(s2) \in Nat
    BY LenProperties DEF Orders
<1>2. PICK s : s = s1 \o s2
    OBVIOUS
<1>3. /\ s \in Seq(Locks) /\ Len(s) = Len(s1) + Len(s2)
      /\ \A i \in 1 .. Len(s1) + Len(s2) :
            s[i] = IF i <= Len(s1) THEN s1[i] ELSE s2[i - Len(s1)]
    BY <1>1, <1>2, ConcatProperties
<1>4. ASSUME NEW i \in 1 .. Len(s), i <= Len(s1)
      PROVE  i \in 1 .. Len(s1) /\ s[i] = s1[i] /\ s[i] \in W1
    BY <1>1, <1>3, <1>4 DEF Orders
<1>5. ASSUME NEW i \in 1 .. Len(s), i > Len(s1)
      PROVE  i - Len(s1) \in 1 .. Len(s2) /\ s[i] = s2[i - Len(s1)] /\ s[i] \in W2
  <2>1. i - Len(s1) \in 1 .. Len(s2)
      BY <1>1, <1>3, <1>5
  <2>2. s[i] = s2[i - Len(s1)]
      BY <1>1, <1>3, <1>5
  <2> QED
      BY <2>1, <2>2 DEF Orders
<1>6. ASSUME NEW i \in 1 .. Len(s) PROVE s[i] \in W1 \cup W2
    BY <1>1, <1>3, <1>4, <1>5
<1>7. ASSUME NEW l \in W1 \cup W2 PROVE \E i \in 1 .. Len(s) : s[i] = l
  <2>1. CASE l \in W1
    <3>1. PICK i \in 1 .. Len(s1) : s1[i] = l
        BY <2>1 DEF Orders
    <3>2. i \in 1 .. Len(s) /\ s[i] = s1[i]
        BY <1>1, <1>3
    <3> QED
        BY <3>1, <3>2
  <2>2. CASE l \in W2
    <3>1. PICK i \in 1 .. Len(s2) : s2[i] = l
        BY <2>2 DEF Orders
    <3>2. PICK j \in 1 .. Len(s) : j = i + Len(s1)
        BY <1>1, <1>3
    <3>3. j > Len(s1) /\ j - Len(s1) = i
        BY <1>1, <3>2
    <3> QED
        BY <1>5, <3>1, <3>3
  <2> QED
      BY <2>1, <2>2
<1>8. ASSUME NEW i \in 1 .. Len(s), NEW j \in 1 .. Len(s), i < j
      PROVE  s[i] # s[j] /\ Before(s[i], s[j])
  <2>1. CASE j <= Len(s1)
    <3>1. i <= Len(s1)
        BY <1>1, <1>3, <1>8, <2>1
    <3> QED
        BY <1>4, <1>8, <2>1, <3>1 DEF Orders
  <2>2. CASE i <= Len(s1) /\ j > Len(s1)
      BY <1>4, <1>5, <2>2
  <2>3. CASE i > Len(s1)
    <3>1. j > Len(s1) /\ i - Len(s1) < j - Len(s1)
        BY <1>1, <1>3, <1>8, <2>3
    <3> QED
        BY <1>5, <2>3, <3>1 DEF Orders
  <2> QED
      BY <1>1, <1>3, <2>1, <2>2, <2>3
<1> QED
    BY <1>2, <1>3, <1>6, <1>7, <1>8 DEF Orders

(* Short lists in the global order.                                        *)
LEMMA TupleOrders ==
    /\ Orders(<<>>, {})
    /\ \A a \in Locks : Orders(<<a>>, {a})
    /\ \A a, b \in Locks : a # b /\ Before(a, b) => Orders(<<a, b>>, {a, b})
    /\ \A a, b, c \in Locks : /\ a # b /\ a # c /\ b # c
                              /\ Before(a, b) /\ Before(a, c) /\ Before(b, c)
                              => Orders(<<a, b, c>>, {a, b, c})
<1>1. Orders(<<>>, {})
    BY DEF Orders
<1>2. ASSUME NEW a \in Locks PROVE Orders(<<a>>, {a})
    BY DEF Orders
<1>3. ASSUME NEW a \in Locks, NEW b \in Locks, a # b, Before(a, b)
      PROVE  Orders(<<a, b>>, {a, b})
    BY <1>3 DEF Orders
<1>4. ASSUME NEW a \in Locks, NEW b \in Locks, NEW c \in Locks, a # b, a # c, b # c,
             Before(a, b), Before(a, c), Before(b, c)
      PROVE  Orders(<<a, b, c>>, {a, b, c})
    BY <1>4 DEF Orders
<1> QED
    BY <1>1, <1>2, <1>3, <1>4

(* LockPermanentAuthIdentities and LockKeys.                               *)
LEMMA IdentitiesOrdered ==
    ASSUME NEW ks \in SUBSET PermKeys
    PROVE  Orders(LockPermanentAuthIdentities(ks), {IdentityLock(k) : k \in ks})
<1> DEFINE hs == {Hash[k] : k \in ks}
<1>1. IsFiniteSet(ks)
    BY KeysFinite, FS_Subset
<1>2. hs \in SUBSET Nat
    BY KeysFinite
<1>3. IsFiniteSet(hs)
  <2>1. [k \in ks |-> Hash[k]] \in Surjection(ks, hs)
      BY DEF Surjection
  <2> QED
      BY <1>1, <2>1, FS_Surjection
<1>4. PICK a : a = Ascending(hs)
    OBVIOUS
<1>5. PICK n \in Nat : Lists(a, hs, n) /\ Len(a) = n
    BY <1>2, <1>3, <1>4, AscendingLists
<1>6. PICK s : s = [i \in 1 .. n |-> <<"identity", a[i]>>]
    OBVIOUS
<1>7. s = LockPermanentAuthIdentities(ks)
    BY <1>4, <1>5, <1>6 DEF LockPermanentAuthIdentities
<1>8. ASSUME NEW i \in 1 .. n
      PROVE  a[i] \in hs /\ a[i] \in Nat /\ s[i] = <<"identity", a[i]>>
    BY <1>2, <1>5, <1>6, <1>8 DEF Lists
<1>9. ASSUME NEW i \in 1 .. n PROVE \E k \in ks : s[i] = IdentityLock(k)
  <2>1. PICK k \in ks : a[i] = Hash[k]
      BY <1>8
  <2> QED
      BY <1>8, <2>1 DEF IdentityLock
<1>10. ASSUME NEW i \in 1 .. n PROVE s[i] \in Locks
  <2>1. PICK k \in ks : s[i] = IdentityLock(k)
      BY <1>9
  <2> QED
      BY <2>1, LockTypes
<1>11. s \in [1 .. n -> Locks]
    BY <1>6, <1>8, <1>10
<1>12. s \in Seq(Locks) /\ Len(s) = n
    BY <1>11, IsASeq, LenProperties
<1>13. ASSUME NEW k \in ks PROVE \E i \in 1 .. n : s[i] = IdentityLock(k)
  <2>1. PICK i \in 1 .. n : a[i] = Hash[k]
      BY <1>5 DEF Lists
  <2> QED
      BY <1>8, <2>1 DEF IdentityLock
<1>14. ASSUME NEW i \in 1 .. n, NEW j \in 1 .. n, i < j
       PROVE  s[i] # s[j] /\ Before(s[i], s[j])
  <2>1. a[i] < a[j]
      BY <1>5, <1>14 DEF Lists
  <2>2. /\ s[i][1] = "identity" /\ s[j][1] = "identity"
        /\ s[i][2] = a[i] /\ s[j][2] = a[j]
      BY <1>8
  <2>3. a[i] # a[j]
      BY <1>8, <2>1
  <2> QED
      BY <2>1, <2>2, <2>3 DEF Before
<1> QED
    BY <1>7, <1>9, <1>12, <1>13, <1>14 DEF Orders

(* The row locks of permanent keys alone, or of temporary keys alone, are  *)
(* taken in the order of the ids.                                          *)
LEMMA KeysOrdered ==
    ASSUME NEW ks, ks \subseteq PermKeys \/ ks \subseteq TempKeys
    PROVE  Orders(LockKeys(ks), {KeyLock(k) : k \in ks})
<1>1. IsFiniteSet(ks) /\ ks \in SUBSET Nat /\ ks \subseteq Keys
    BY KeysFinite, FS_Subset
<1>4. PICK a : a = Ascending(ks)
    OBVIOUS
<1>5. PICK n \in Nat : Lists(a, ks, n) /\ Len(a) = n
    BY <1>1, <1>4, AscendingLists
<1>6. PICK s : s = [i \in 1 .. n |-> KeyLock(a[i])]
    OBVIOUS
<1>7. s = LockKeys(ks)
    BY <1>4, <1>5, <1>6 DEF LockKeys
<1>8. ASSUME NEW i \in 1 .. n
      PROVE  a[i] \in ks /\ a[i] \in Nat /\ s[i] = KeyLock(a[i]) /\ s[i] \in Locks
    BY <1>1, <1>5, <1>6, <1>8, LockTypes DEF Lists
<1>11. s \in [1 .. n -> Locks]
    BY <1>6, <1>8
<1>12. s \in Seq(Locks) /\ Len(s) = n
    BY <1>11, IsASeq, LenProperties
<1>13. ASSUME NEW k \in ks PROVE \E i \in 1 .. n : s[i] = KeyLock(k)
    BY <1>5, <1>8 DEF Lists
<1>14. ASSUME NEW i \in 1 .. n, NEW j \in 1 .. n, i < j
       PROVE  s[i] # s[j] /\ Before(s[i], s[j])
  <2>1. a[i] < a[j]
      BY <1>5, <1>14 DEF Lists
  <2>2. /\ s[i][1] = "key" /\ s[j][1] = "key" /\ s[i][2] = a[i] /\ s[j][2] = a[j]
      BY <1>8, LockParts
  <2>3. a[i] # a[j]
      BY <1>8, <2>1
  <2> QED
      BY <2>2, <2>3 DEF Before
<1> QED
    BY <1>7, <1>8, <1>12, <1>13, <1>14 DEF Orders
-----------------------------------------------------------------------------
(* The inductive invariant.                                                *)

(* What the fields of a transaction are for its operation and program      *)
(* counter.                                                                *)
Shape(x) ==
    /\ x.op = "bind" => /\ x.key \in PermKeys /\ x.user \in Users
                        /\ x.pc \in {"read", "commit"}
                        /\ x.pc = "commit" => x.todo = <<>>
    /\ x.op \in {"save", "load"} => /\ x.key \in TempKeys /\ x.perm \in PermKeys
                                    /\ x.pc = "commit"
    /\ x.op = "revoke" => x.user \in Users /\ x.pc = "commit" /\ x.targets \subseteq PermKeys
    /\ x.op = "prune" => x.user \in Users /\ x.pc = "commit"
    /\ x.op = "delete" =>
        /\ x.key \in Keys
        /\ x.pc \in {"recheck", "doom", "commit"}
        /\ x.bound => x.key \in TempKeys /\ x.perm \in PermKeys
        /\ x.pc = "commit" => /\ x.targets \subseteq TempKeys
                              /\ x.key \in TempKeys => x.targets = {}
        /\ x.pc # "recheck" =>
            /\ \A i \in 1 .. Len(x.todo) : x.todo[i][1] = "key"
            /\ x.key \in TempKeys /\ ~ x.bound => x.todo = <<>>

Good(x) == x \in Tx /\ Shape(x) /\ Planned(x.todo, Wants(x))

TxInv == \A t \in Txs : tx[t] # None => Good(tx[t])

(* The locks that a transaction holds: it has asked for them, and no       *)
(* longer waits.                                                           *)
Held(x) == {l \in Wants(x) : ~ InTodo(l, x.todo)}

LockInv == \A t \in Txs, l \in Locks : holder[l] = t <=> (tx[t] # None /\ l \in Held(tx[t]))

(* What a transaction that binds has read, and still holds.                *)
BindInv(x) ==
    x.op = "bind" /\ x.pc = "commit" => x.floor = retained[x.user] /\ x.key \in auth_keys

(* What a deletion knows of its key's binding: once seen, it stays until   *)
(* the key is gone; a key seen unbound is in its first attempt, and is     *)
(* unbound once its row is locked; and the temporary keys that the DELETE  *)
(* found are those still bound.                                            *)
DeleteInv(x) ==
    x.op = "delete" =>
        /\ x.bound => x.key \notin auth_keys \/ bindings[x.key] = x.perm
        /\ x.key \in TempKeys /\ ~ x.bound =>
            /\ x.attempt = 1
            /\ x.pc # "recheck" => bindings[x.key] = None
        /\ x.pc = "commit" /\ x.key \in PermKeys => x.targets = BoundTo(x.key)

DataInv == \A t \in Txs : tx[t] # None => BindInv(tx[t]) /\ DeleteInv(tx[t])

IdentityInv ==
    /\ TypeOK /\ TxInv /\ LockInv /\ DataInv
    /\ NoSilentGap /\ DeletionComplete
-----------------------------------------------------------------------------
(* A transaction that starts asks for all its locks, and holds none.       *)

Fresh(y) == Good(y) /\ \A l \in Wants(y) : InTodo(l, y.todo)

(* The locks of BindLocks and HintLocks are asked for in order.            *)
LEMMA BindOrdered ==
    ASSUME NEW k \in PermKeys, NEW u \in Users,
           NEW s, s = <<<<"user", u>>>> \o LockPermanentAuthIdentities({k})
                        \o <<KeyLock(k), <<"watermark", u>>, <<"retention", u>>>>
    PROVE  Orders(s, {<<"user", u>>, IdentityLock(k), KeyLock(k),
                      <<"watermark", u>>, <<"retention", u>>})
<1>1. PICK a \in Locks : a = <<"user", u>> /\ Level(a) = 0 /\ a[1] = "user"
    BY LockTypes, LockLevels, LockParts
<1>2. PICK b \in Locks : b = IdentityLock(k) /\ Level(b) = 1 /\ b[1] = "identity"
    BY LockTypes, LockLevels, LockParts
<1>3. PICK c \in Locks : c = KeyLock(k) /\ Level(c) = 2 /\ c[1] = "key"
    BY LockTypes, LockLevels, LockParts, KeysFinite
<1>4. PICK d \in Locks : d = <<"watermark", u>> /\ Level(d) = 3 /\ d[1] = "watermark"
    BY LockTypes, LockLevels, LockParts
<1>5. PICK e \in Locks : e = <<"retention", u>> /\ Level(e) = 4 /\ e[1] = "retention"
    BY LockTypes, LockLevels, LockParts
<1>6. PICK p : p = LockPermanentAuthIdentities({k}) /\ Orders(p, {b})
  <2>1. {IdentityLock(j) : j \in {k}} = {b}
      BY <1>2
  <2> QED
      BY <2>1, IdentitiesOrdered
<1>7. /\ a # b /\ a # c /\ a # d /\ a # e /\ b # c /\ b # d /\ b # e
      /\ c # d /\ c # e /\ d # e
    BY <1>1, <1>2, <1>3, <1>4, <1>5
<1>8. /\ Before(a, b) /\ Before(a, c) /\ Before(a, d) /\ Before(a, e) /\ Before(b, c)
      /\ Before(b, d) /\ Before(b, e) /\ Before(c, d) /\ Before(c, e) /\ Before(d, e)
    BY <1>1, <1>2, <1>3, <1>4, <1>5 DEF Before
<1>9. Orders(<<a>>, {a}) /\ Orders(<<c, d, e>>, {c, d, e})
    BY <1>7, <1>8, TupleOrders
<1>10. PICK q : q = <<a>> \o p /\ Orders(q, {a} \cup {b})
    BY <1>6, <1>7, <1>8, <1>9, ConcatOrders
<1>11. Orders(q \o <<c, d, e>>, ({a} \cup {b}) \cup {c, d, e})
    BY <1>7, <1>8, <1>9, <1>10, ConcatOrders
<1>12. ({a} \cup {b}) \cup {c, d, e} = {a, b, c, d, e}
    OBVIOUS
<1>13. s = q \o <<c, d, e>>
    BY <1>1, <1>3, <1>4, <1>5, <1>6, <1>10
<1> QED
    BY <1>1, <1>2, <1>3, <1>4, <1>5, <1>11, <1>12, <1>13

(* A transaction that asks for all it wants, in order, is a fresh one.     *)
LEMMA FreshIfOrdered ==
    ASSUME NEW y \in Tx, Shape(y), Orders(y.todo, Wants(y))
    PROVE  Fresh(y)
BY OrdersPlanned DEF Fresh, Good

(* Bind plans the locks of its user, identity, key, watermark and          *)
(* retention.                                                              *)
LEMMA StartedBind ==
    ASSUME NEW x \in Tx, x.op = "bind", x.key \in PermKeys, x.user \in Users
    PROVE  Fresh(Started(x)) /\ Started(x).op = "bind" /\ Started(x).pc = "read"
<1>1. PICK s : s = BindLocks(x)
    OBVIOUS
<1>2. PICK k \in PermKeys : k = x.key
    OBVIOUS
<1>3. PICK u \in Users : u = x.user
    OBVIOUS
<1>4. PICK W : W = {<<"user", u>>, IdentityLock(k), KeyLock(k),
                    <<"watermark", u>>, <<"retention", u>>}
    OBVIOUS
<1>5. Orders(s, W)
    BY <1>1, <1>2, <1>3, <1>4, BindOrdered DEF BindLocks
<1>6. s \in Seq(Locks)
    BY <1>5 DEF Orders
<1>7. PICK y : y = [x EXCEPT !.pc = "read", !.todo = s]
    OBVIOUS
<1>8. /\ y \in Tx /\ y.op = "bind" /\ y.pc = "read" /\ y.todo = s /\ y.key = k /\ y.user = u
    BY <1>2, <1>3, <1>6, <1>7 DEF Tx
<1>9. y = Started(x)
    BY <1>1, <1>7 DEF Started
<1>10. Wants(y) = W
    BY <1>4, <1>8 DEF Wants
<1>11. Shape(y)
    BY <1>8 DEF Shape
<1> QED
    BY <1>5, <1>8, <1>9, <1>10, <1>11, FreshIfOrdered

(* SaveWithState plans the identity lock and both row locks.               *)
LEMMA StartedSave ==
    ASSUME NEW x \in Tx, x.op = "save", x.key \in TempKeys, x.perm \in PermKeys
    PROVE  Fresh(Started(x)) /\ Started(x).op = "save"
<1>1. PICK k \in TempKeys : k = x.key
    OBVIOUS
<1>2. PICK p \in PermKeys : p = x.perm
    OBVIOUS
<1>3. PICK a \in Locks : a = IdentityLock(p) /\ Level(a) = 1 /\ a[1] = "identity"
    BY LockTypes, LockLevels, LockParts
<1>4. PICK b \in Locks : b = KeyLock(k) /\ Level(b) = 2 /\ b[1] = "key" /\ b[2] = k
    BY LockTypes, LockLevels, LockParts, KeysFinite
<1>5. PICK c \in Locks : c = KeyLock(p) /\ Level(c) = 2 /\ c[1] = "key" /\ c[2] = p
    BY LockTypes, LockLevels, LockParts, KeysFinite
<1>6. a # b /\ a # c /\ b # c
    BY <1>3, <1>4, <1>5, KeysFinite
<1>7. Before(a, b) /\ Before(a, c) /\ Before(b, c)
    BY <1>3, <1>4, <1>5 DEF Before
<1>8. PICK s : s = <<a, b, c>> /\ Orders(s, {a, b, c})
    BY <1>6, <1>7, TupleOrders
<1>9. s = SaveLocks(x) /\ s \in Seq(Locks)
    BY <1>1, <1>2, <1>3, <1>4, <1>5, <1>8 DEF SaveLocks, Orders
<1>10. PICK y : y = [x EXCEPT !.pc = "commit", !.todo = s]
    OBVIOUS
<1>11. /\ y \in Tx /\ y.op = "save" /\ y.pc = "commit" /\ y.todo = s /\ y.key = k /\ y.perm = p
    BY <1>1, <1>2, <1>9, <1>10 DEF Tx
<1>12. y = Started(x)
    BY <1>9, <1>10 DEF Started
<1>13. Wants(y) = {a, b, c}
    BY <1>3, <1>4, <1>5, <1>11 DEF Wants
<1>14. Shape(y)
    BY <1>11 DEF Shape
<1> QED
    BY <1>8, <1>11, <1>12, <1>13, <1>14, FreshIfOrdered

(* A revocation plans the identity locks of the sessions it found, and     *)
(* ends at once when it found none.                                        *)
LEMMA StartedRevoke ==
    ASSUME NEW x \in Tx, x.op = "revoke", x.user \in Users
    PROVE  Started(x) = None \/ (Fresh(Started(x)) /\ Started(x).op = "revoke")
<1>1. CASE Selected(x) = {}
    BY <1>1 DEF Started
<1>2. CASE Selected(x) # {}
  <2>1. PICK ks \in SUBSET PermKeys : ks = Selected(x)
      BY DEF Selected
  <2>2. PICK W1 : W1 = {IdentityLock(k) : k \in ks}
      OBVIOUS
  <2>3. PICK W2 : W2 = {KeyLock(k) : k \in ks}
      OBVIOUS
  <2>4. PICK s1 : s1 = LockPermanentAuthIdentities(ks) /\ Orders(s1, W1)
      BY <2>2, IdentitiesOrdered
  <2>5. PICK s2 : s2 = LockKeys(ks) /\ Orders(s2, W2)
      BY <2>3, KeysOrdered
  <2>6. ASSUME NEW a \in W1, NEW b \in W2 PROVE a # b /\ Before(a, b)
    <3>1. Level(a) = 1 /\ Level(b) = 2
        BY <2>2, <2>3, LockLevels
    <3>2. a # b
        BY <3>1
    <3> QED
        BY <3>1, <3>2 DEF Before
  <2>7. PICK s : s = s1 \o s2 /\ Orders(s, W1 \cup W2)
      BY <2>4, <2>5, <2>6, ConcatOrders
  <2>8. s \in Seq(Locks)
      BY <2>7 DEF Orders
  <2>9. PICK y : y = [x EXCEPT !.pc = "commit", !.targets = ks, !.todo = s]
      OBVIOUS
  <2>10. /\ y \in Tx /\ y.op = "revoke" /\ y.pc = "commit" /\ y.todo = s /\ y.targets = ks
         /\ y.user = x.user
      BY <2>8, <2>9, KeysFinite DEF Tx
  <2>11. y = Started(x)
      BY <1>2, <2>1, <2>4, <2>5, <2>7, <2>9 DEF Started
  <2>12. Wants(y) = W1 \cup W2
      BY <2>2, <2>3, <2>10 DEF Wants
  <2>13. Shape(y)
      BY <2>10 DEF Shape
  <2> QED
      BY <2>7, <2>10, <2>11, <2>12, <2>13, FreshIfOrdered
<1> QED
    BY <1>1, <1>2

(* The hint of a deletion: bound and perm are what the binding is now.     *)
LEMMA StartedDelete ==
    ASSUME TypeOK, NEW x \in Tx, x.op = "delete", x.key \in auth_keys
    PROVE  /\ Fresh(Started(x)) /\ Started(x).op = "delete" /\ Started(x).pc = "recheck"
           /\ Started(x).key = x.key /\ Started(x).attempt = x.attempt
           /\ Started(x).bound <=> IsBound(x.key)
           /\ IsBound(x.key) => Started(x).perm = bindings[x.key]
<1>1. PICK k \in Keys : k = x.key /\ k \in auth_keys
    BY DEF TypeOK
<1>2. PICK c \in Locks : c = KeyLock(k) /\ Level(c) = 2 /\ c[1] = "key"
    BY LockTypes, LockLevels, LockParts
<1>3. PICK p : p = IF IsBound(k) THEN bindings[k] ELSE None
    OBVIOUS
<1>4. /\ p \in PermKeys \cup {None}
      /\ IsBound(k) => k \in TempKeys /\ p \in PermKeys /\ p = bindings[k]
    BY <1>3 DEF IsBound, TypeOK
<1>5. PICK b \in BOOLEAN : b <=> IsBound(k)
    OBVIOUS
<1>6. PICK y : y = Started(x)
    OBVIOUS
<1>7. y = [x EXCEPT !.pc = "recheck", !.todo = HintLocks(k), !.bound = IsBound(k), !.perm = p]
    BY <1>1, <1>3, <1>6 DEF Started
<1>8. IsBound(k) \in BOOLEAN
    BY DEF IsBound
<1>9. PICK W1 : W1 = {IdentityLock(j) : j \in {k} \cap PermKeys}
                        \cup {IdentityLock(j) : j \in IF IsBound(k) THEN {p} ELSE {}}
    OBVIOUS
<1>10. PICK s1 : s1 = IF k \in PermKeys THEN <<IdentityLock(k)>>
                      ELSE IF IsBound(k) THEN <<IdentityLock(bindings[k])>> ELSE <<>>
    OBVIOUS
<1>11. Orders(s1, W1)
  <2>1. CASE k \in PermKeys
    <3>1. ~ IsBound(k)
        BY <2>1, KeysFinite DEF IsBound
    <3>2. W1 = {IdentityLock(k)} /\ s1 = <<IdentityLock(k)>>
        BY <1>9, <1>10, <2>1, <3>1
    <3> QED
        BY <2>1, <3>2, LockTypes, TupleOrders
  <2>2. CASE k \notin PermKeys /\ IsBound(k)
    <3>1. W1 = {IdentityLock(p)} /\ s1 = <<IdentityLock(p)>> /\ p \in PermKeys
        BY <1>4, <1>9, <1>10, <2>2
    <3> QED
        BY <3>1, LockTypes, TupleOrders
  <2>3. CASE k \notin PermKeys /\ ~ IsBound(k)
    <3>1. W1 = {} /\ s1 = <<>>
        BY <1>9, <1>10, <2>3
    <3> QED
        BY <3>1, TupleOrders
  <2> QED
      BY <2>1, <2>2, <2>3
<1>12. ASSUME NEW l \in W1 PROVE l # c /\ Before(l, c)
  <2>1. Level(l) = 1
      BY <1>9, LockLevels
  <2> QED
      BY <1>2, <2>1 DEF Before
<1>13. Orders(<<c>>, {c})
    BY TupleOrders
<1>14. PICK s : s = s1 \o <<c>> /\ Orders(s, W1 \cup {c})
    BY <1>11, <1>12, <1>13, ConcatOrders
<1>15. s = HintLocks(k) /\ s \in Seq(Locks)
    BY <1>2, <1>10, <1>14 DEF HintLocks, Orders
<1>16. /\ y.op = "delete" /\ y.pc = "recheck" /\ y.todo = s /\ y.key = k /\ y.perm = p
       /\ y.attempt = x.attempt
    BY <1>1, <1>7, <1>15 DEF Tx
<1>17. y.bound = IsBound(k)
    BY <1>7 DEF Tx
<1>18. y \in Tx
  <2>1. [x EXCEPT !.pc = "recheck", !.todo = s, !.bound = b, !.perm = p] \in Tx
      BY <1>4, <1>15 DEF Tx
  <2>2. b = IsBound(k)
      BY <1>5, <1>8
  <2> QED
      BY <1>7, <1>15, <2>1, <2>2
<1>19. Wants(y) = W1 \cup {c}
  <2>1. Wants(y) = {IdentityLock(j) : j \in {k} \cap PermKeys}
              \cup {IdentityLock(j) : j \in IF IsBound(k) THEN {p} ELSE {}}
              \cup {KeyLock(k)} \cup {KeyLock(j) : j \in {}} \cup {KeyLock(j) : j \in {}}
      BY <1>16, <1>17 DEF Wants
  <2>2. {KeyLock(j) : j \in {}} = {}
      OBVIOUS
  <2> QED
      BY <1>2, <1>9, <2>1, <2>2
<1>20. Shape(y)
    BY <1>4, <1>16, <1>17 DEF Shape
<1>21. Fresh(y)
    BY <1>14, <1>16, <1>18, <1>19, <1>20, FreshIfOrdered
<1> QED
    BY <1>1, <1>4, <1>6, <1>16, <1>17, <1>21

(* The initial values of a transaction have their types.                   *)
LEMMA NewTxFields ==
    /\ <<>> \in Seq(Locks) /\ 0 \in 0 .. MaxPts /\ 1 \in 1 .. MaxAttempts
BY AuthIdentityConstants

(* A new transaction is one, with the arguments it was given.              *)
LEMMA NewTxTyped ==
    ASSUME NEW op \in IdentityOps \cup {"load", "prune"}, NEW pc \in {"start", "commit"},
           NEW todo \in Seq(Locks),
           NEW key \in Keys \cup {None}, NEW perm \in PermKeys \cup {None},
           NEW user \in Users \cup {None}
    PROVE  /\ NewTx(op, pc, todo, key, perm, user) \in Tx
           /\ NewTx(op, pc, todo, key, perm, user).op = op
           /\ NewTx(op, pc, todo, key, perm, user).pc = pc
           /\ NewTx(op, pc, todo, key, perm, user).todo = todo
           /\ NewTx(op, pc, todo, key, perm, user).key = key
           /\ NewTx(op, pc, todo, key, perm, user).perm = perm
           /\ NewTx(op, pc, todo, key, perm, user).user = user
           /\ NewTx(op, pc, todo, key, perm, user).attempt = 1
BY NewTxFields DEF NewTx, Tx

(* LoadBindingKeys plans two row locks, in whichever order the query meets *)
(* them.                                                                   *)
LEMMA NewLoad ==
    ASSUME NEW k \in TempKeys, NEW p \in PermKeys,
           NEW todo \in {<<KeyLock(k), KeyLock(p)>>, <<KeyLock(p), KeyLock(k)>>}
    PROVE  /\ Fresh(NewTx("load", "commit", todo, k, p, None))
           /\ NewTx("load", "commit", todo, k, p, None).op = "load"
<1>1. PICK b \in Locks : b = KeyLock(k) /\ b[1] = "key" /\ b[2] = k
    BY LockTypes, LockParts, KeysFinite
<1>2. PICK c \in Locks : c = KeyLock(p) /\ c[1] = "key" /\ c[2] = p
    BY LockTypes, LockParts, KeysFinite
<1>3. b # c /\ Before(b, c) /\ Before(c, b)
    BY <1>1, <1>2, KeysFinite DEF Before
<1>4. Orders(<<b, c>>, {b, c}) /\ Orders(<<c, b>>, {c, b})
    BY <1>3, TupleOrders
<1>5. {c, b} = {b, c}
    OBVIOUS
<1>6. Orders(todo, {b, c}) /\ todo \in Seq(Locks)
  <2>1. Orders(todo, {b, c})
      BY <1>1, <1>2, <1>4, <1>5, Zenon
  <2> QED
      BY <2>1 DEF Orders
<1>7. PICK y : y = NewTx("load", "commit", todo, k, p, None)
    OBVIOUS
<1>8. /\ y \in Tx /\ y.op = "load" /\ y.pc = "commit" /\ y.todo = todo /\ y.key = k
      /\ y.perm = p
  <2>1. /\ "load" \in IdentityOps \cup {"load", "prune"}
        /\ "commit" \in {"start", "commit"}
        /\ k \in Keys \cup {None} /\ p \in PermKeys \cup {None}
        /\ None \in Users \cup {None}
      BY KeysFinite
  <2>2. /\ NewTx("load", "commit", todo, k, p, None) \in Tx
        /\ NewTx("load", "commit", todo, k, p, None).op = "load"
        /\ NewTx("load", "commit", todo, k, p, None).pc = "commit"
        /\ NewTx("load", "commit", todo, k, p, None).todo = todo
        /\ NewTx("load", "commit", todo, k, p, None).key = k
        /\ NewTx("load", "commit", todo, k, p, None).perm = p
      BY <1>6, <2>1, NewTxFields DEF NewTx, Tx
  <2> QED
      BY <1>7, <2>2, Zenon
<1>9. Wants(y) = {b, c}
    BY <1>1, <1>2, <1>8 DEF Wants
<1>10. Shape(y)
    BY <1>8 DEF Shape
<1> QED
    BY <1>6, <1>7, <1>8, <1>9, <1>10, FreshIfOrdered

(* The pruner plans the watermark and the retention lock.                  *)
LEMMA NewPrune ==
    ASSUME NEW u \in Users
    PROVE  /\ Fresh(NewTx("prune", "commit", <<<<"watermark", u>>, <<"retention", u>>>>,
                          None, None, u))
           /\ NewTx("prune", "commit", <<<<"watermark", u>>, <<"retention", u>>>>,
                    None, None, u).op = "prune"
<1>1. PICK d \in Locks : d = <<"watermark", u>> /\ Level(d) = 3
    BY LockTypes, LockLevels
<1>2. PICK e \in Locks : e = <<"retention", u>> /\ Level(e) = 4
    BY LockTypes, LockLevels
<1>3. d # e /\ Before(d, e)
    BY <1>1, <1>2 DEF Before
<1>4. PICK s : s = <<d, e>> /\ Orders(s, {d, e})
    BY <1>3, TupleOrders
<1>5. s \in Seq(Locks)
    BY <1>4 DEF Orders
<1>6. PICK y : y = NewTx("prune", "commit", s, None, None, u)
    OBVIOUS
<1>7. y \in Tx /\ y.op = "prune" /\ y.pc = "commit" /\ y.todo = s /\ y.user = u
  <2>1. /\ "prune" \in IdentityOps \cup {"load", "prune"}
        /\ "commit" \in {"start", "commit"}
        /\ None \in Keys \cup {None} /\ None \in PermKeys \cup {None}
        /\ u \in Users \cup {None}
      OBVIOUS
  <2>2. /\ NewTx("prune", "commit", s, None, None, u) \in Tx
        /\ NewTx("prune", "commit", s, None, None, u).op = "prune"
        /\ NewTx("prune", "commit", s, None, None, u).pc = "commit"
        /\ NewTx("prune", "commit", s, None, None, u).todo = s
        /\ NewTx("prune", "commit", s, None, None, u).user = u
      BY <1>5, <2>1, NewTxFields DEF NewTx, Tx
  <2> QED
      BY <1>6, <2>2, Zenon
<1>8. Wants(y) = {d, e}
    BY <1>1, <1>2, <1>7 DEF Wants
<1>9. Shape(y)
    BY <1>7 DEF Shape
<1> QED
    BY <1>1, <1>2, <1>4, <1>6, <1>7, <1>8, <1>9, FreshIfOrdered
-----------------------------------------------------------------------------
(* What the steps of a transaction do to the locks.                        *)

(* A wanted lock is one there is.                                          *)
LEMMA WantsLocks ==
    ASSUME NEW x, Good(x)
    PROVE  Wants(x) \subseteq Locks
<1>1. /\ x.op \in IdentityOps \cup {"load", "prune"} /\ Shape(x)
    BY DEF Good, Tx
<1>2. CASE x.op = "bind"
    BY <1>1, <1>2, LockTypes, KeysFinite DEF Wants, Shape
<1>3. CASE x.op = "save"
    BY <1>1, <1>3, LockTypes, KeysFinite DEF Wants, Shape
<1>4. CASE x.op = "load"
    BY <1>1, <1>4, LockTypes, KeysFinite DEF Wants, Shape
<1>5. CASE x.op = "revoke"
    BY <1>1, <1>5, LockTypes, KeysFinite DEF Wants, Shape
<1>6. CASE x.op = "prune"
    BY <1>1, <1>6, LockTypes, KeysFinite DEF Wants, Shape
<1>7. CASE x.op = "delete"
    BY <1>1, <1>7, LockTypes, KeysFinite DEF Wants, Shape
<1> QED
    BY <1>1, <1>2, <1>3, <1>4, <1>5, <1>6, <1>7 DEF IdentityOps

(* The transaction ends, or starts again.                                  *)
LEMMA EndLocks ==
    ASSUME TypeOK, TxInv, LockInv, NEW t \in Txs, Release(t),
           NEW y, y = None \/ Fresh(y), tx' = [tx EXCEPT ![t] = y]
    PROVE  TxInv' /\ LockInv' /\ holder' \in [Locks -> Txs \cup {None}]
           /\ tx' \in [Txs -> Tx \cup {None}]
<1>1. /\ tx'[t] = y /\ \A s \in Txs \ {t} : tx'[s] = tx[s]
      /\ tx' \in [Txs -> Tx \cup {None}]
    BY DEF TypeOK, Fresh, Good
<1>2. /\ \A l \in Locks : holder'[l] = IF holder[l] = t THEN None ELSE holder[l]
      /\ holder' \in [Locks -> Txs \cup {None}]
    BY DEF Release, TypeOK
<1>3. TxInv'
    BY <1>1 DEF TxInv, Fresh
<1>4. ASSUME NEW s \in Txs, NEW l \in Locks
      PROVE  holder'[l] = s <=> (tx'[s] # None /\ l \in Held(tx'[s]))
  <2>1. None \notin Txs
      BY AuthIdentityConstants
  <2>2. CASE s = t
    <3>1. holder'[l] # s
        BY <1>2, <2>1, <2>2
    <3>2. y # None => l \notin Held(y)
        BY DEF Fresh, Held
    <3> QED
        BY <1>1, <2>2, <3>1, <3>2
  <2>3. CASE s # t
    <3>1. holder'[l] = s <=> holder[l] = s
        BY <1>2, <2>1, <2>3
    <3> QED
        BY <1>1, <2>3, <3>1 DEF LockInv
  <2> QED
      BY <2>2, <2>3
<1> QED
    BY <1>1, <1>2, <1>3, <1>4 DEF LockInv

(* It begins, or goes on with the locks it holds.                          *)
LEMMA GotoLocks ==
    ASSUME TypeOK, TxInv, LockInv, NEW t \in Txs, UNCHANGED holder,
           NEW y, Good(y), tx' = [tx EXCEPT ![t] = y],
           IF tx[t] = None THEN Held(y) = {} ELSE Held(y) = Held(tx[t])
    PROVE  TxInv' /\ LockInv' /\ tx' \in [Txs -> Tx \cup {None}]
<1>1. /\ tx'[t] = y /\ \A s \in Txs \ {t} : tx'[s] = tx[s]
      /\ tx' \in [Txs -> Tx \cup {None}]
    BY DEF TypeOK, Good
<1>2. TxInv'
    BY <1>1 DEF TxInv
<1>3. ASSUME NEW s \in Txs, NEW l \in Locks
      PROVE  holder'[l] = s <=> (tx'[s] # None /\ l \in Held(tx'[s]))
  <2>1. y # None
      BY NoneIsNoRecord DEF Good
  <2> QED
      BY <1>1, <2>1 DEF LockInv
<1> QED
    BY <1>1, <1>2, <1>3 DEF LockInv

(* It takes the next lock it asked for, which was free.                    *)
LEMMA AcquireLocks ==
    ASSUME TypeOK, TxInv, LockInv, NEW t \in Txs, Acquire(t)
    PROVE  /\ TxInv' /\ LockInv' /\ holder' \in [Locks -> Txs \cup {None}]
           /\ tx' \in [Txs -> Tx \cup {None}]
           /\ \E s \in Seq(Locks) : tx' = [tx EXCEPT ![t] = [tx[t] EXCEPT !.todo = s]]
<1>1. PICK x : x = tx[t] /\ x # None /\ x.todo # <<>> /\ Good(x)
    BY DEF TxInv, Acquire, Waiting
<1>2. PICK todo \in Seq(Locks) : todo = x.todo /\ todo # <<>> /\ Len(todo) \in Nat /\ Len(todo) > 0
    BY <1>1, EmptySeq, LenProperties DEF Good, Planned
<1>3. PICK w \in Locks : w = Head(todo) /\ w = todo[1]
  <2>1. 1 \in 1 .. Len(todo)
      BY <1>2
  <2> QED
      BY <1>2, <2>1, ElementOfSeq
<1>4. PICK s \in Seq(Locks) : /\ s = Tail(todo) /\ Len(s) = Len(todo) - 1
                              /\ \A i \in 1 .. Len(s) : s[i] = todo[i + 1]
    BY <1>2, HeadTailProperties
<1>5. PICK y : y = [x EXCEPT !.todo = s]
    OBVIOUS
<1>6. /\ y \in Tx /\ y.op = x.op /\ y.pc = x.pc /\ y.todo = s /\ y.key = x.key
      /\ y.perm = x.perm /\ y.user = x.user /\ y.targets = x.targets /\ y.bound = x.bound
    BY <1>1, <1>5 DEF Good, Tx
<1>7. tx' = [tx EXCEPT ![t] = y]
  <2>1. tx' = [tx EXCEPT ![t].todo = Tail(@)]
      BY DEF Acquire
  <2> QED
      BY <1>1, <1>2, <1>4, <1>5, <2>1 DEF TypeOK
<1>8. holder' = [holder EXCEPT ![w] = t] /\ holder[w] \in {None, t}
    BY <1>1, <1>2, <1>3 DEF Acquire
<1>9. Wants(y) = Wants(x)
    BY <1>6 DEF Wants
<1>10. ASSUME NEW i \in 1 .. Len(s)
       PROVE  i + 1 \in 1 .. Len(todo) /\ s[i] = todo[i + 1] /\ i + 1 # 1 /\ s[i] # w
  <2>1. i + 1 \in 1 .. Len(todo) /\ 1 \in 1 .. Len(todo) /\ 1 < i + 1
      BY <1>2, <1>4
  <2>2. todo[1] # todo[i + 1]
      BY <1>1, <1>2, <2>1 DEF Good, Planned
  <2> QED
      BY <1>3, <1>4, <2>1, <2>2
<1>11. Planned(s, Wants(y))
  <2>1. ASSUME NEW i \in 1 .. Len(s), NEW j \in 1 .. Len(s), i < j PROVE s[i] # s[j]
    <3>1. i + 1 < j + 1
        BY <2>1
    <3> QED
        BY <1>1, <1>2, <1>10, <3>1 DEF Good, Planned
  <2>2. ASSUME NEW i \in 1 .. Len(s) PROVE s[i] \in Wants(y)
      BY <1>1, <1>2, <1>9, <1>10 DEF Good, Planned
  <2>3. ASSUME NEW i \in 1 .. Len(s), NEW l \in Wants(y)
        PROVE  (\E j \in i .. Len(s) : s[j] = l) \/ Before(l, s[i])
    <3>1. CASE Before(l, todo[i + 1])
        BY <1>10, <3>1
    <3>2. CASE \E j \in i + 1 .. Len(todo) : todo[j] = l
      <4>1. PICK j \in i + 1 .. Len(todo) : todo[j] = l
          BY <3>2
      <4>2. j - 1 \in i .. Len(s) /\ j - 1 \in 1 .. Len(s) /\ (j - 1) + 1 = j
          BY <1>2, <1>4
      <4>3. s[j - 1] = todo[j]
          BY <1>4, <4>2
      <4> QED
          BY <4>1, <4>2, <4>3
    <3> QED
        BY <1>1, <1>2, <1>9, <1>10, <3>1, <3>2 DEF Good, Planned
  <2> QED
      BY <2>1, <2>2, <2>3 DEF Planned
<1>12. Shape(y)
  <2>1. todo # <<>> => (x.op = "bind" => x.pc # "commit")
      BY <1>1, <1>2 DEF Good, Shape
  <2>2. x.op = "delete" /\ x.pc # "recheck" => \A i \in 1 .. Len(s) : s[i][1] = "key"
      BY <1>1, <1>2, <1>10 DEF Good, Shape
  <2>3. x.op = "delete" /\ x.pc # "recheck" => ~ (x.key \in TempKeys /\ ~ x.bound)
      BY <1>1, <1>2 DEF Good, Shape
  <2> QED
      BY <1>1, <1>2, <1>6, <2>1, <2>2, <2>3 DEF Good, Shape
<1>13. Good(y)
    BY <1>6, <1>11, <1>12 DEF Good
<1>14. w \in Wants(x) /\ w \in Held(y)
  <2>1. 1 \in 1 .. Len(todo)
      BY <1>2
  <2>2. w \in Wants(x)
      BY <1>1, <1>2, <1>3, <2>1 DEF Good, Planned
  <2> QED
      BY <1>6, <1>9, <1>10, <2>2 DEF Held, InTodo
<1>15. ASSUME NEW l, l # w PROVE l \in Held(y) <=> l \in Held(x)
  <2>1. InTodo(l, s) => InTodo(l, todo)
      BY <1>10 DEF InTodo
  <2>2. ASSUME InTodo(l, todo) PROVE InTodo(l, s)
    <3>1. PICK i \in 1 .. Len(todo) : todo[i] = l
        BY <2>2 DEF InTodo
    <3>2. i # 1
        BY <1>3, <1>15, <3>1
    <3>3. i - 1 \in 1 .. Len(s) /\ (i - 1) + 1 = i
        BY <1>2, <1>4, <3>2
    <3>4. s[i - 1] = l
        BY <1>4, <3>1, <3>3
    <3> QED
        BY <3>3, <3>4 DEF InTodo
  <2> QED
      BY <1>2, <1>6, <1>9, <2>1, <2>2 DEF Held
<1>16. /\ tx'[t] = y /\ \A r \in Txs \ {t} : tx'[r] = tx[r]
       /\ tx' \in [Txs -> Tx \cup {None}] /\ y # None
    BY <1>6, <1>7, NoneIsNoRecord DEF TypeOK
<1>17. TxInv'
    BY <1>13, <1>16 DEF TxInv
<1>18. /\ holder'[w] = t /\ \A l \in Locks \ {w} : holder'[l] = holder[l]
       /\ holder' \in [Locks -> Txs \cup {None}]
    BY <1>8 DEF TypeOK
<1>19. ASSUME NEW r \in Txs, NEW l \in Locks
       PROVE  holder'[l] = r <=> (tx'[r] # None /\ l \in Held(tx'[r]))
  <2>1. CASE r = t /\ l = w
      BY <1>14, <1>16, <1>18, <2>1
  <2>2. CASE r = t /\ l # w
      BY <1>1, <1>15, <1>16, <1>18, <2>2 DEF LockInv
  <2>3. CASE r # t /\ l = w
    <3>1. holder[w] # r
        BY <1>8, <2>3, AuthIdentityConstants
    <3> QED
        BY <1>16, <1>18, <2>3, <3>1 DEF LockInv
  <2>4. CASE r # t /\ l # w
      BY <1>16, <1>18, <2>4 DEF LockInv
  <2> QED
      BY <2>1, <2>2, <2>3, <2>4
<1> QED
    BY <1>1, <1>5, <1>7, <1>16, <1>17, <1>18, <1>19 DEF LockInv

(* A transaction that holds V, and asks for W besides.                     *)
LEMMA AddedPlan ==
    ASSUME NEW y, NEW V, NEW W, NEW s, Orders(s, W), y.todo = s, Wants(y) = V \cup W,
           \A l \in V, w \in W : l # w /\ Before(l, w)
    PROVE  Planned(s, Wants(y)) /\ Held(y) = V
<1>1. Planned(s, W) /\ \A l \in W : InTodo(l, s)
    BY OrdersPlanned
<1>2. \A i \in 1 .. Len(s) : s[i] \in W
    BY DEF Orders
<1>3. Planned(s, V \cup W)
  <2>1. ASSUME NEW i \in 1 .. Len(s), NEW l \in V \cup W
        PROVE  (\E j \in i .. Len(s) : s[j] = l) \/ Before(l, s[i])
    <3>1. CASE l \in W
        BY <1>1, <3>1 DEF Planned
    <3>2. CASE l \in V
        BY <1>2, <3>2
    <3> QED
        BY <3>1, <3>2
  <2> QED
      BY <1>1, <1>2, <2>1 DEF Planned
<1>4. \A l \in V : ~ InTodo(l, s)
    BY <1>2 DEF InTodo
<1> QED
    BY <1>1, <1>3, <1>4 DEF Held

(* A transaction that waits for nothing holds all it wants.                *)
LEMMA HoldsAll ==
    ASSUME TypeOK, TxInv, LockInv, NEW t \in Txs, tx[t] # None, tx[t].todo = <<>>
    PROVE  \A l \in Wants(tx[t]) : l \in Locks /\ holder[l] = t
<1>1. Good(tx[t])
    BY DEF TxInv
<1>2. ASSUME NEW l \in Wants(tx[t]) PROVE l \in Held(tx[t])
    BY DEF Held, InTodo
<1> QED
    BY <1>1, <1>2, WantsLocks DEF LockInv

(* A deletion under its row lock holds the identity of a permanent key, and *)
(* the row of an unbound temporary one.                                    *)
LEMMA DeleteHolds ==
    ASSUME TypeOK, TxInv, LockInv, NEW t \in Txs, tx[t] # None,
           tx[t].op = "delete", tx[t].pc # "recheck"
    PROVE  /\ tx[t].key \in PermKeys => holder[IdentityLock(tx[t].key)] = t
           /\ tx[t].key \in TempKeys /\ ~ tx[t].bound => holder[KeyLock(tx[t].key)] = t
<1>1. PICK x : x = tx[t] /\ Good(x)
    BY DEF TxInv
<1>2. ASSUME x.key \in PermKeys PROVE holder[IdentityLock(x.key)] = t
  <2>1. IdentityLock(x.key) \in Wants(x)
      BY <1>1, <1>2 DEF Wants
  <2>2. ~ InTodo(IdentityLock(x.key), x.todo)
      BY <1>1, LockParts DEF Good, Shape, InTodo
  <2> QED
      BY <1>1, <2>1, <2>2, WantsLocks DEF LockInv, Held
<1>3. ASSUME x.key \in TempKeys, ~ x.bound PROVE holder[KeyLock(x.key)] = t
  <2>1. KeyLock(x.key) \in Wants(x)
      BY <1>1, <1>3 DEF Wants
  <2>2. x.todo = <<>>
      BY <1>1, <1>3 DEF Good, Shape
  <2> QED
      BY <1>1, <2>1, <2>2, HoldsAll
<1> QED
    BY <1>1, <1>2, <1>3

(* A Bind that commits holds its key and the baseline.                     *)
LEMMA BindHolds ==
    ASSUME TypeOK, TxInv, LockInv, NEW t \in Txs, tx[t] # None,
           tx[t].op = "bind", tx[t].pc = "commit"
    PROVE  /\ holder[KeyLock(tx[t].key)] = t
           /\ holder[<<"retention", tx[t].user>>] = t
<1>1. tx[t].todo = <<>>
    BY DEF TxInv, Good, Shape
<1>2. KeyLock(tx[t].key) \in Wants(tx[t]) /\ <<"retention", tx[t].user>> \in Wants(tx[t])
    BY DEF Wants
<1> QED
    BY <1>1, <1>2, HoldsAll

(* A step of t that writes no row keeps what the others rely on.           *)
LEMMA SameRows ==
    ASSUME IdentityInv, UNCHANGED rows, NEW t \in Txs, NEW y, tx' = [tx EXCEPT ![t] = y],
           y # None => BindInv(y) /\ DeleteInv(y),
           failed' \subseteq {"deadlock"} \cup failed, confirmed' \subseteq TempKeys \X PermKeys, opened' \in 0 .. MaxTxs,
           holder' \in [Locks -> Txs \cup {None}], tx' \in [Txs -> Tx \cup {None}],
           TxInv', LockInv'
    PROVE  IdentityInv'
<1>1. TypeOK'
    BY DEF IdentityInv, TypeOK, rows
<1>2. /\ auth_keys' = auth_keys /\ bindings' = bindings /\ authorizations' = authorizations
      /\ update_states' = update_states /\ contiguous_pts' = contiguous_pts
      /\ retained' = retained
    BY DEF rows
<1>3. NoSilentGap' /\ DeletionComplete'
    BY <1>2 DEF IdentityInv, NoSilentGap, DeletionComplete
<1>4. ASSUME NEW r \in Txs, tx'[r] # None PROVE (BindInv(tx[r]) /\ DeleteInv(tx[r]))'
  <2>1. CASE r = t
    <3>1. tx'[r] = y
        BY <2>1 DEF IdentityInv, TypeOK
    <3> QED
        BY <1>2, <1>4, <3>1 DEF BindInv, DeleteInv, BoundTo
  <2>2. CASE r # t
    <3>1. tx'[r] = tx[r]
        BY <2>2 DEF IdentityInv, TypeOK
    <3>2. BindInv(tx[r]) /\ DeleteInv(tx[r])
        BY <1>4, <3>1 DEF IdentityInv, DataInv
    <3> QED
        BY <1>2, <3>1, <3>2 DEF BindInv, DeleteInv, BoundTo
  <2> QED
      BY <2>1, <2>2
<1> QED
    BY <1>1, <1>3, <1>4 DEF IdentityInv, DataInv
(* A step that is no answer to a bind, and no refusal.                     *)
LEMMA HistoryKept ==
    ASSUME IdentityInv, UNCHANGED history
    PROVE  failed' = failed /\ confirmed' = confirmed /\ confirmed' \subseteq TempKeys \X PermKeys
BY DEF history, IdentityInv, TypeOK
-----------------------------------------------------------------------------
(* The steps that write no row.                                            *)

LEMMA InvInit ==
    Init => IdentityInv
<1> SUFFICES ASSUME Init PROVE IdentityInv
    OBVIOUS
<1>1. None \notin Txs /\ None \notin Users /\ MaxPts \in Nat /\ MaxTxs \in Nat
    BY AuthIdentityConstants
<1>2. 0 \in 0 .. MaxPts /\ 0 \in 0 .. MaxTxs
    BY <1>1
<1>3. ASSUME NEW k \in PermKeys, authorizations[k] # None
      PROVE  /\ update_states[k] = [user |-> authorizations[k], observed |-> 0]
             /\ update_states[k] \in Cursor /\ update_states[k] # None
             /\ authorizations[k] \in Users
    BY <1>2, <1>3, NoneIsNoRecord DEF Init, Cursor
<1>4. update_states \in [PermKeys -> Cursor \cup {None}]
  <2>1. ASSUME NEW k \in PermKeys
        PROVE  (IF authorizations[k] = None THEN None
                ELSE [user |-> authorizations[k], observed |-> 0]) \in Cursor \cup {None}
      BY <1>2 DEF Init, Cursor
  <2> QED
      BY <2>1 DEF Init
<1>5. TypeOK
    BY <1>2, <1>4 DEF Init, TypeOK
<1>6. TxInv /\ LockInv /\ DataInv
    BY <1>1 DEF Init, TxInv, LockInv, DataInv
<1>7. NoSilentGap
  <2>1. ASSUME NEW k \in PermKeys, authorizations[k] # None
        PROVE  /\ update_states[k] # None
               /\ update_states[k].user = authorizations[k]
               /\ retained[authorizations[k]] <= update_states[k].observed
    <3>1. PICK u \in Users : /\ u = authorizations[k] /\ update_states[k] # None
                             /\ update_states[k] = [user |-> u, observed |-> 0]
        BY <1>3, <2>1
    <3>2. update_states[k].user = u /\ update_states[k].observed = 0
      <4>1. \A c : c = [user |-> u, observed |-> 0] => c.user = u /\ c.observed = 0
          OBVIOUS
      <4> QED
          BY <3>1, <4>1, Zenon
    <3>3. retained[u] = 0
        BY DEF Init
    <3> QED
        BY <3>1, <3>2, <3>3
  <2> QED
      BY <2>1 DEF NoSilentGap
<1>8. DeletionComplete
    BY KeysFinite DEF Init, DeletionComplete
<1> QED
    BY <1>5, <1>6, <1>7, <1>8 DEF IdentityInv

(* A transaction that has taken nothing may begin beside any others.       *)
LEMMA OpenStep ==
    ASSUME IdentityInv, NEW t \in Txs, NEW y, Open(t, y),
           Fresh(y), BindInv(y), DeleteInv(y)
    PROVE  IdentityInv'
<1>1. /\ UNCHANGED rows /\ UNCHANGED holder /\ UNCHANGED history
      /\ tx' = [tx EXCEPT ![t] = y] /\ tx[t] = None
    BY DEF Open
<1>2. opened' \in 0 .. MaxTxs
    BY AuthIdentityConstants DEF Open, IdentityInv, TypeOK
<1>3. Good(y) /\ Held(y) = {}
    BY DEF Fresh, Held
<1>4. TxInv' /\ LockInv' /\ tx' \in [Txs -> Tx \cup {None}]
    BY <1>1, <1>3, GotoLocks DEF IdentityInv
<1>5. holder' \in [Locks -> Txs \cup {None}]
    BY <1>1 DEF IdentityInv, TypeOK
<1> QED
    BY <1>1, <1>2, <1>4, <1>5, SameRows, HistoryKept

(* Bind, RevokeByHash, RevokeByUserExcept, Delete, LoadBindingKeys, Prune. *)
LEMMA BeginStep ==
    ASSUME IdentityInv, NEW t \in Txs, Begin(t)
    PROVE  IdentityInv'
<1>0. TypeOK
    BY DEF IdentityInv
<1>1. \A s : s = <<>> => s \in Seq(Locks)
    OBVIOUS
<1>2. ASSUME NEW k \in PermKeys, NEW u \in Users, Bind(t, k, u) PROVE IdentityInv'
  <2>in. k \in Keys \cup {None} /\ u \in Users \cup {None} /\ None \in PermKeys \cup {None}
      BY DEF Keys
  <2>new. PICK x : x = NewTx("bind", "start", <<>>, k, None, u)
      OBVIOUS
  <2>1. x \in Tx /\ x.op = "bind" /\ x.key = k /\ x.user = u
      BY <2>in, <2>new, NewTxFields DEF NewTx, Tx, IdentityOps
  <2>2. PICK y : y = Started(x) /\ Fresh(y) /\ y.op = "bind" /\ y.pc = "read"
      BY <2>1, StartedBind
  <2>3. BindInv(y) /\ DeleteInv(y)
      BY <2>2 DEF BindInv, DeleteInv
  <2>4. Open(t, y)
      BY <1>2, <2>new, <2>2 DEF Bind
  <2> QED
      BY <2>2, <2>3, <2>4, OpenStep
<1>3. ASSUME NEW key \in PermKeys \cup {None}, NEW perm \in PermKeys \cup {None}, NEW u \in Users,
             Open(t, Started(NewTx("revoke", "start", <<>>, key, perm, u)))
      PROVE IdentityInv'
  <2>in. key \in Keys \cup {None} /\ u \in Users \cup {None}
      BY DEF Keys
  <2>new. PICK x : x = NewTx("revoke", "start", <<>>, key, perm, u)
      OBVIOUS
  <2>1. x \in Tx /\ x.op = "revoke" /\ x.user = u
      BY <2>in, <2>new, NewTxFields DEF NewTx, Tx, IdentityOps
  <2>2. PICK y : y = Started(x) /\ (y = None \/ (Fresh(y) /\ y.op = "revoke"))
      BY <2>1, StartedRevoke
  <2>3. Open(t, y)
      BY <1>3, <2>2, <2>new
  <2>4. y # None
      BY <2>3 DEF Open
  <2>5. BindInv(y) /\ DeleteInv(y)
      BY <2>2, <2>4 DEF BindInv, DeleteInv
  <2> QED
      BY <2>2, <2>3, <2>4, <2>5, OpenStep
<1>4. ASSUME NEW k \in Keys, Delete(t, k) PROVE IdentityInv'
  <2>1. PICK x \in Tx : /\ x = NewTx("delete", "start", <<>>, k, None, None)
                        /\ x.op = "delete" /\ x.key = k /\ x.attempt = 1
      BY <1>1, NewTxTyped DEF IdentityOps
  <2>2. PICK y : y = Started(x)
      OBVIOUS
  <2>3. Open(t, y)
      BY <1>4, <2>1, <2>2 DEF Delete
  <2>4. y # None
      BY <2>3 DEF Open
  <2>5. k \in auth_keys
      BY <2>1, <2>2, <2>4 DEF Started
  <2>6. /\ Fresh(y) /\ y.op = "delete" /\ y.pc = "recheck" /\ y.key = k /\ y.attempt = 1
        /\ y.bound <=> IsBound(k)
        /\ IsBound(k) => y.perm = bindings[k]
      BY <1>0, <2>1, <2>2, <2>5, StartedDelete
  <2>7. BindInv(y) /\ DeleteInv(y)
      BY <2>6 DEF BindInv, DeleteInv
  <2> QED
      BY <2>3, <2>6, <2>7, OpenStep
<1>5. ASSUME NEW temp \in TempKeys, NEW perm \in PermKeys, LoadBindingKeys(t, temp, perm)
      PROVE  IdentityInv'
  <2>1. PICK todo \in {<<KeyLock(temp), KeyLock(perm)>>, <<KeyLock(perm), KeyLock(temp)>>} :
            Open(t, NewTx("load", "commit", todo, temp, perm, None))
      BY <1>5 DEF LoadBindingKeys
  <2>2. PICK y : y = NewTx("load", "commit", todo, temp, perm, None) /\ Fresh(y) /\ y.op = "load"
      BY NewLoad
  <2>3. BindInv(y) /\ DeleteInv(y)
      BY <2>2 DEF BindInv, DeleteInv
  <2> QED
      BY <2>1, <2>2, <2>3, OpenStep
<1>6. ASSUME NEW u \in Users, Prune(t, u) PROVE IdentityInv'
  <2>1. PICK y : /\ y = NewTx("prune", "commit", <<<<"watermark", u>>, <<"retention", u>>>>,
                              None, None, u)
                 /\ Fresh(y) /\ y.op = "prune"
      BY NewPrune
  <2>2. BindInv(y) /\ DeleteInv(y)
      BY <2>1 DEF BindInv, DeleteInv
  <2>3. /\ UNCHANGED rows /\ UNCHANGED holder /\ UNCHANGED history /\ UNCHANGED opened
        /\ tx' = [tx EXCEPT ![t] = y] /\ tx[t] = None
      BY <1>6, <2>1 DEF Prune, Goto
  <2>4. Good(y) /\ Held(y) = {}
      BY <2>1 DEF Fresh, Held
  <2>5. TxInv' /\ LockInv' /\ tx' \in [Txs -> Tx \cup {None}]
      BY <2>3, <2>4, GotoLocks DEF IdentityInv
  <2>6. holder' \in [Locks -> Txs \cup {None}] /\ opened' \in 0 .. MaxTxs
      BY <2>3 DEF IdentityInv, TypeOK
  <2> QED
      BY <2>2, <2>3, <2>5, <2>6, SameRows, HistoryKept
<1> QED
    BY <1>2, <1>3, <1>4, <1>5, <1>6 DEF Begin, RevokeByHash, RevokeByUserExcept

(* Taking a lock nobody holds: the next one of the plan.                   *)
LEMMA AcquireStep ==
    ASSUME IdentityInv, NEW t \in Txs, Acquire(t)
    PROVE  IdentityInv'
<1>1. PICK s \in Seq(Locks) : tx' = [tx EXCEPT ![t] = [tx[t] EXCEPT !.todo = s]]
    BY AcquireLocks DEF IdentityInv
<1>2. PICK x \in Tx : x = tx[t] /\ x # None /\ BindInv(x) /\ DeleteInv(x)
    BY DEF IdentityInv, TypeOK, DataInv, Acquire, Waiting
<1>3. PICK y : y = [x EXCEPT !.todo = s]
    OBVIOUS
<1>4. /\ y.op = x.op /\ y.pc = x.pc /\ y.key = x.key /\ y.perm = x.perm /\ y.user = x.user
      /\ y.targets = x.targets /\ y.bound = x.bound /\ y.floor = x.floor
      /\ y.attempt = x.attempt
    BY <1>3 DEF Tx
<1>5. BindInv(y) /\ DeleteInv(y)
    BY <1>2, <1>4 DEF BindInv, DeleteInv
<1>6. UNCHANGED rows /\ UNCHANGED history /\ opened' \in 0 .. MaxTxs
    BY DEF Acquire, IdentityInv, TypeOK
<1> QED
    BY <1>1, <1>2, <1>3, <1>5, <1>6, AcquireLocks, SameRows, HistoryKept DEF IdentityInv

(* A transaction ends having written nothing.                              *)
LEMMA EndStep ==
    ASSUME IdentityInv, NEW t \in Txs, End(t), UNCHANGED rows,
           failed' \subseteq {"deadlock"} \cup failed, confirmed' \subseteq TempKeys \X PermKeys
    PROVE  IdentityInv'
<1>1. Release(t) /\ tx' = [tx EXCEPT ![t] = None] /\ UNCHANGED opened
    BY DEF End
<1>2. /\ TxInv' /\ LockInv' /\ holder' \in [Locks -> Txs \cup {None}]
      /\ tx' \in [Txs -> Tx \cup {None}]
    BY <1>1, EndLocks DEF IdentityInv
<1>3. opened' \in 0 .. MaxTxs
    BY <1>1 DEF IdentityInv, TypeOK
<1> QED
    BY <1>1, <1>2, <1>3, SameRows

(* A binding is refused for its layer.                                     *)
LEMMA SaveRefusedStep ==
    ASSUME IdentityInv, NEW t \in Txs, SaveRefused(t)
    PROVE  IdentityInv'
<1>1. End(t) /\ UNCHANGED rows /\ UNCHANGED history
    BY DEF SaveRefused
<1> QED
    BY <1>1, HistoryKept, EndStep

(* WithAuthIdentityTx tries again; an unbound temporary key was bound      *)
(* meanwhile.                                                              *)
LEMMA RetryStep ==
    ASSUME IdentityInv, NEW t \in Txs, tx[t] # None, tx[t].op \in IdentityOps,
           NEW why, Retry(t, why), why = "deadlock" \/ tx[t].attempt < MaxAttempts,
           tx[t].op = "delete" /\ tx[t].key \in TempKeys /\ ~ tx[t].bound => IsBound(tx[t].key)
    PROVE  IdentityInv'
<1>0. TypeOK
    BY DEF IdentityInv
<1>1. PICK x \in Tx : x = tx[t] /\ Good(x) /\ DeleteInv(x)
    BY DEF IdentityInv, TypeOK, TxInv, DataInv
<1>2. CASE ~ (x.attempt < MaxAttempts)
  <2>1. Fail(t, "deadlock")
      BY <1>1, <1>2 DEF Retry
  <2> QED
      BY <2>1, EndStep DEF Fail, IdentityInv, TypeOK
<1>3. CASE x.attempt < MaxAttempts
  <2>1. PICK x1 : x1 = [x EXCEPT !.attempt = @ + 1, !.targets = {}]
      OBVIOUS
  <2>2. x.attempt + 1 \in 1 .. MaxAttempts
      BY <1>3, AuthIdentityConstants DEF Tx
  <2>3. /\ x1 \in Tx /\ x1.op = x.op /\ x1.key = x.key /\ x1.perm = x.perm /\ x1.user = x.user
      BY <2>1, <2>2 DEF Tx
  <2>4. PICK y : y = Started(x1)
      OBVIOUS
  <2>5. tx' = [tx EXCEPT ![t] = y] /\ Release(t) /\ UNCHANGED <<rows, opened, history>>
      BY <1>1, <1>3, <2>1, <2>4 DEF Retry
  <2>6. y = None \/ (Fresh(y) /\ BindInv(y) /\ DeleteInv(y))
    <3>1. CASE x.op = "bind"
        BY <1>1, <2>3, <2>4, <3>1, StartedBind DEF Good, Shape, BindInv, DeleteInv
    <3>2. CASE x.op = "save"
        BY <1>1, <2>3, <2>4, <3>2, StartedSave DEF Good, Shape, BindInv, DeleteInv
    <3>3. CASE x.op = "revoke"
        BY <1>1, <2>3, <2>4, <3>3, StartedRevoke DEF Good, Shape, BindInv, DeleteInv
    <3>4. CASE x.op = "delete" /\ x.key \notin auth_keys
        BY <2>3, <2>4, <3>4 DEF Started
    <3>5. CASE x.op = "delete" /\ x.key \in auth_keys
      <4>1. /\ Fresh(y) /\ y.op = "delete" /\ y.pc = "recheck" /\ y.key = x.key
            /\ y.bound <=> IsBound(x.key)
            /\ IsBound(x.key) => y.perm = bindings[x.key]
          BY <1>0, <2>3, <2>4, <3>5, StartedDelete
      <4>2. ASSUME x.key \in TempKeys PROVE IsBound(x.key)
        <5>1. CASE ~ x.bound
            BY <1>1, <3>5, <4>2, <5>1
        <5>2. CASE x.bound
          <6>1. bindings[x.key] = x.perm /\ x.perm \in PermKeys
              BY <1>1, <3>5, <5>2 DEF DeleteInv, Good, Shape
          <6> QED
              BY <4>2, <6>1, AuthIdentityConstants DEF IsBound, Keys
        <5> QED
            BY <5>1, <5>2
      <4> QED
          BY <4>1, <4>2 DEF BindInv, DeleteInv
    <3> QED
        BY <1>1, <3>1, <3>2, <3>3, <3>4, <3>5 DEF IdentityOps
  <2>7. /\ TxInv' /\ LockInv' /\ holder' \in [Locks -> Txs \cup {None}]
        /\ tx' \in [Txs -> Tx \cup {None}]
      BY <2>5, <2>6, EndLocks DEF IdentityInv
  <2>8. opened' \in 0 .. MaxTxs
      BY <2>5 DEF IdentityInv, TypeOK
  <2> QED
      BY <2>5, <2>6, <2>7, <2>8, SameRows, HistoryKept
<1> QED
    BY <1>2, <1>3

(* A deadlock: a deletion that saw its key unbound holds nothing while it   *)
(* waits, and so is on no cycle.                                           *)
LEMMA DeadlockStep ==
    ASSUME IdentityInv, NEW t \in Txs, DeadlockDetected(t)
    PROVE  IdentityInv'
<1>1. PICK S \in SUBSET Txs : /\ t \in S /\ Stuck(S)
                              /\ S = {holder[Head(tx[u].todo)] : u \in S}
    BY DEF DeadlockDetected
<1>2. PICK u \in S : t = holder[Head(tx[u].todo)]
    BY <1>1
<1>3. \A r \in S : tx[r] # None /\ tx[r].todo # <<>> /\ Good(tx[r])
    BY <1>1 DEF Stuck, Waiting, IdentityInv, TxInv
<1>4. ASSUME NEW r \in S PROVE /\ Head(tx[r].todo) \in Locks
                               /\ Head(tx[r].todo) \in Wants(tx[r])
                               /\ InTodo(Head(tx[r].todo), tx[r].todo)
  <2>1. PICK s \in Seq(Locks) : s = tx[r].todo /\ s # <<>> /\ Len(s) \in Nat /\ Len(s) > 0
      BY <1>3, EmptySeq, LenProperties DEF Good, Planned
  <2>2. 1 \in 1 .. Len(s) /\ Head(s) = s[1]
      BY <2>1
  <2> QED
      BY <1>3, <2>1, <2>2, ElementOfSeq DEF Good, Planned, InTodo
<1>5. PICK x : x = tx[t] /\ x # None /\ Good(x) /\ x.todo # <<>>
    BY <1>1, <1>3
<1>6. PICK l \in Locks : l \in Held(x)
    BY <1>1, <1>2, <1>4, <1>5 DEF IdentityInv, LockInv
<1>7. ~ (x.op = "delete" /\ x.key \in TempKeys /\ ~ x.bound)
  <2> SUFFICES ASSUME x.op = "delete", x.key \in TempKeys, ~ x.bound PROVE FALSE
      OBVIOUS
  <2>1. x.pc = "recheck" /\ x.key \notin PermKeys
      BY <1>5, KeysFinite DEF Good, Shape
  <2>2. Wants(x) \subseteq {KeyLock(x.key)}
      BY <2>1 DEF Wants
  <2>3. InTodo(KeyLock(x.key), x.todo)
      BY <1>1, <1>4, <1>5, <2>2
  <2> QED
      BY <1>6, <2>2, <2>3 DEF Held
<1>8. CASE x.op \in IdentityOps
  <2>1. Retry(t, "deadlock")
      BY <1>5, <1>8 DEF DeadlockDetected
  <2> QED
      BY <1>5, <1>7, <1>8, <2>1, RetryStep
<1>9. CASE x.op \notin IdentityOps
  <2>1. Fail(t, "deadlock")
      BY <1>5, <1>9 DEF DeadlockDetected
  <2> QED
      BY <2>1, EndStep DEF Fail, IdentityInv, TypeOK
<1> QED
    BY <1>8, <1>9

(* Bind reads the floor under the retention lock, so it is the current     *)
(* one.                                                                    *)
LEMMA BindReadStep ==
    ASSUME IdentityInv, NEW t \in Txs, BindRead(t)
    PROVE  IdentityInv'
<1>1. PICK x \in Tx : /\ x = tx[t] /\ x # None /\ Good(x) /\ x.op = "bind" /\ x.pc = "read"
                      /\ x.todo = <<>>
    BY DEF BindRead, At, IdentityInv, TypeOK, TxInv
<1>2. CASE x.key \notin auth_keys
  <2>1. End(t) /\ UNCHANGED rows /\ UNCHANGED history
      BY <1>1, <1>2 DEF BindRead
  <2> QED
      BY <2>1, EndStep, HistoryKept
<1>3. CASE x.key \in auth_keys
  <2>1. PICK f \in 0 .. MaxPts : f = retained[x.user]
      BY <1>1 DEF IdentityInv, TypeOK, Good, Shape
  <2>2. PICK y : y = [x EXCEPT !.pc = "commit", !.floor = f]
      OBVIOUS
  <2>3. /\ tx' = [tx EXCEPT ![t] = y] /\ UNCHANGED rows /\ UNCHANGED holder
        /\ UNCHANGED opened /\ UNCHANGED history
      BY <1>1, <1>3, <2>1, <2>2 DEF BindRead, Goto
  <2>4. /\ y \in Tx /\ y.op = "bind" /\ y.pc = "commit" /\ y.key = x.key /\ y.user = x.user
        /\ y.todo = x.todo /\ y.floor = f
      BY <1>1, <2>2 DEF Tx
  <2>5. Wants(y) = Wants(x)
      BY <1>1, <2>4 DEF Wants
  <2>6. Shape(y)
      BY <1>1, <2>4 DEF Good, Shape
  <2>7. Good(y) /\ Held(y) = Held(x)
      BY <1>1, <2>4, <2>5, <2>6 DEF Good, Held
  <2>8. TxInv' /\ LockInv' /\ tx' \in [Txs -> Tx \cup {None}]
      BY <1>1, <2>3, <2>7, GotoLocks DEF IdentityInv
  <2>9. BindInv(y) /\ DeleteInv(y)
      BY <1>3, <2>1, <2>4 DEF BindInv, DeleteInv
  <2>10. holder' \in [Locks -> Txs \cup {None}] /\ opened' \in 0 .. MaxTxs
      BY <2>3 DEF IdentityInv, TypeOK
  <2> QED
      BY <2>3, <2>8, <2>9, <2>10, SameRows, HistoryKept
<1> QED
    BY <1>2, <1>3

(* LoadBindingKeys only reads.                                             *)
LEMMA LoadCommitStep ==
    ASSUME IdentityInv, NEW t \in Txs, LoadCommit(t)
    PROVE  IdentityInv'
<1>1. PICK x \in Tx : /\ x = tx[t] /\ x.key \in TempKeys /\ x.perm \in PermKeys
    BY DEF LoadCommit, At, IdentityInv, TypeOK, TxInv, Good, Shape
<1>2. PICK y : y = IF {x.key, x.perm} \subseteq auth_keys
                   THEN Started(NewTx("save", "start", <<>>, x.key, x.perm, None)) ELSE None
    OBVIOUS
<1>3. tx' = [tx EXCEPT ![t] = y] /\ Release(t) /\ UNCHANGED <<rows, opened, history>>
    BY <1>1, <1>2 DEF LoadCommit
<1>4. y = None \/ (Fresh(y) /\ y.op = "save")
  <2>1. x.key \in Keys \cup {None} /\ None \in Users \cup {None} /\ <<>> \in Seq(Locks)
      BY <1>1 DEF Keys
  <2>new. PICK z : z = NewTx("save", "start", <<>>, x.key, x.perm, None)
      OBVIOUS
  <2>2. z \in Tx /\ z.op = "save" /\ z.key = x.key /\ z.perm = x.perm
      BY <1>1, <2>1, <2>new, NewTxFields DEF NewTx, Tx, IdentityOps
  <2> QED
      BY <1>1, <1>2, <2>2, <2>new, StartedSave
<1>5. /\ TxInv' /\ LockInv' /\ holder' \in [Locks -> Txs \cup {None}]
      /\ tx' \in [Txs -> Tx \cup {None}]
    BY <1>3, <1>4, EndLocks DEF IdentityInv
<1>6. y # None => BindInv(y) /\ DeleteInv(y)
    BY <1>4 DEF BindInv, DeleteInv
<1>7. opened' \in 0 .. MaxTxs
    BY <1>3 DEF IdentityInv, TypeOK
<1> QED
    BY <1>3, <1>5, <1>6, <1>7, SameRows, HistoryKept

(* A deletion compares its hint under the row lock: it ends, starts over,  *)
(* or plans the lock of the permanent row.                                 *)
LEMMA DeleteRecheckStep ==
    ASSUME IdentityInv, NEW t \in Txs, DeleteRecheck(t)
    PROVE  IdentityInv'
<1>1. PICK x \in Tx : /\ x = tx[t] /\ x # None /\ Good(x) /\ DeleteInv(x)
                      /\ x.op = "delete" /\ x.pc = "recheck" /\ x.todo = <<>>
    BY DEF DeleteRecheck, At, IdentityInv, TypeOK, TxInv, DataInv
<1>2. PICK k \in Keys : k = x.key
    BY <1>1 DEF Good, Shape
<1>3. x.bound \in BOOLEAN /\ IsBound(k) \in BOOLEAN
    BY DEF Tx, IsBound
<1>4. x.bound => k \in TempKeys /\ x.perm \in PermKeys /\ (k \in auth_keys => IsBound(k))
  <2> SUFFICES ASSUME x.bound
               PROVE  k \in TempKeys /\ x.perm \in PermKeys /\ (k \in auth_keys => IsBound(k))
      OBVIOUS
  <2>1. k \in TempKeys /\ x.perm \in PermKeys
      BY <1>1, <1>2 DEF Good, Shape
  <2>2. k \in auth_keys => bindings[k] = x.perm
      BY <1>1, <1>2 DEF DeleteInv
  <2> QED
      BY <2>1, <2>2, AuthIdentityConstants DEF IsBound, Keys
<1>5. CASE k \notin auth_keys
  <2>1. End(t) /\ UNCHANGED rows /\ UNCHANGED history
      BY <1>1, <1>2, <1>5 DEF DeleteRecheck
  <2> QED
      BY <2>1, EndStep, HistoryKept
<1>6. CASE k \in auth_keys /\ IsBound(k) # x.bound
  <2>1. Retry(t, "unstable")
      BY <1>1, <1>2, <1>6 DEF DeleteRecheck
  <2>2. ~ x.bound /\ IsBound(k)
      BY <1>3, <1>4, <1>6
  <2>3. k \in TempKeys
      BY <2>2 DEF IsBound
  <2>4. x.attempt = 1
      BY <1>1, <1>2, <2>2, <2>3 DEF DeleteInv
  <2>5. x.attempt < MaxAttempts
      BY <2>4, AuthIdentityConstants
  <2>6. x.op \in IdentityOps
      BY <1>1 DEF IdentityOps
  <2> QED
      BY <1>1, <1>2, <2>1, <2>2, <2>5, <2>6, RetryStep
<1>7. CASE k \in auth_keys /\ IsBound(k) = x.bound
  <2>1. PICK s : s = IF x.bound THEN <<KeyLock(x.perm)>> ELSE <<>>
      OBVIOUS
  <2>2. PICK y : y = [x EXCEPT !.pc = "doom", !.todo = s]
      OBVIOUS
  <2>3. /\ tx' = [tx EXCEPT ![t] = y] /\ UNCHANGED rows /\ UNCHANGED holder
        /\ UNCHANGED opened /\ UNCHANGED history
      BY <1>1, <1>2, <1>7, <2>1, <2>2 DEF DeleteRecheck, Goto
  <2>4. PICK W : W = IF x.bound THEN {KeyLock(x.perm)} ELSE {}
      OBVIOUS
  <2>5. Orders(s, W)
      BY <1>4, <2>1, <2>4, TupleOrders, LockTypes, KeysFinite
  <2>6. s \in Seq(Locks)
      BY <2>5 DEF Orders
  <2>7. /\ y \in Tx /\ y.op = "delete" /\ y.pc = "doom" /\ y.key = k /\ y.perm = x.perm
        /\ y.todo = s /\ y.bound = x.bound /\ y.attempt = x.attempt /\ y.targets = x.targets
      BY <1>1, <1>2, <2>2, <2>6 DEF Tx
  <2>8. Wants(y) = Wants(x) \cup W
    <3>1. Wants(x) = {IdentityLock(j) : j \in {k} \cap PermKeys}
              \cup {IdentityLock(j) : j \in IF x.bound THEN {x.perm} ELSE {}} \cup {KeyLock(k)}
        BY <1>1, <1>2 DEF Wants
    <3>2. Wants(y) = {IdentityLock(j) : j \in {k} \cap PermKeys}
              \cup {IdentityLock(j) : j \in IF x.bound THEN {x.perm} ELSE {}} \cup {KeyLock(k)}
              \cup {KeyLock(j) : j \in IF x.bound THEN {x.perm} ELSE {}}
        BY <1>2, <2>7 DEF Wants
    <3>3. W = {KeyLock(j) : j \in IF x.bound THEN {x.perm} ELSE {}}
        BY <2>4
    <3> QED
        BY <3>1, <3>2, <3>3
  <2>9. ASSUME NEW l \in Wants(x), NEW w \in W PROVE l # w /\ Before(l, w)
    <3>1. x.bound /\ w = KeyLock(x.perm) /\ k # x.perm
        BY <1>4, <2>4, KeysFinite
    <3>2. w[1] = "key" /\ w[2] = x.perm /\ Level(w) = 2
        BY <3>1, LockParts, LockLevels
    <3>3. CASE l = KeyLock(k)
      <4>1. l[1] = "key" /\ l[2] = k
          BY <3>3, LockParts
      <4> QED
          BY <3>1, <3>2, <4>1 DEF Before
    <3>4. CASE l # KeyLock(k)
      <4>1. \E j : l = IdentityLock(j)
          BY <1>1, <1>2, <3>4 DEF Wants
      <4>2. l[1] = "identity" /\ Level(l) = 1
          BY <4>1, LockParts, LockLevels
      <4> QED
          BY <3>2, <4>2 DEF Before
    <3> QED
        BY <3>3, <3>4
  <2>10. Planned(s, Wants(y)) /\ Held(y) = Wants(x)
      BY <2>5, <2>7, <2>8, <2>9, AddedPlan
  <2>11. Held(x) = Wants(x)
      BY <1>1 DEF Held, InTodo
  <2>12. Shape(y)
    <3>1. \A i \in 1 .. Len(s) : s[i][1] = "key"
        BY <2>1, LockParts
    <3> QED
        BY <1>2, <1>4, <2>1, <2>7, <3>1 DEF Shape
  <2>13. Good(y)
      BY <2>7, <2>10, <2>12 DEF Good
  <2>14. TxInv' /\ LockInv' /\ tx' \in [Txs -> Tx \cup {None}]
      BY <1>1, <2>3, <2>10, <2>11, <2>13, GotoLocks DEF IdentityInv
  <2>15. BindInv(y) /\ DeleteInv(y)
      BY <1>1, <1>2, <1>7, <2>7 DEF BindInv, DeleteInv, IsBound
  <2>16. holder' \in [Locks -> Txs \cup {None}] /\ opened' \in 0 .. MaxTxs
      BY <2>3 DEF IdentityInv, TypeOK
  <2> QED
      BY <2>3, <2>14, <2>15, <2>16, SameRows, HistoryKept
<1> QED
    BY <1>3, <1>5, <1>6, <1>7

(* A deletion plans the row locks of the temporary keys bound to its key.  *)
LEMMA DeleteDoomStep ==
    ASSUME IdentityInv, NEW t \in Txs, DeleteDoom(t)
    PROVE  IdentityInv'
<1>1. PICK x \in Tx : /\ x = tx[t] /\ x # None /\ Good(x) /\ DeleteInv(x)
                      /\ x.op = "delete" /\ x.pc = "doom" /\ x.todo = <<>>
    BY DEF DeleteDoom, At, IdentityInv, TypeOK, TxInv, DataInv
<1>2. PICK k \in Keys : k = x.key
    BY <1>1 DEF Good, Shape
<1>3. PICK ks \in SUBSET TempKeys : ks = BoundTo(k)
    BY DEF BoundTo
<1>4. PICK s : s = LockKeys(ks)
    OBVIOUS
<1>5. PICK y : y = [x EXCEPT !.pc = "commit", !.targets = ks, !.todo = s]
    OBVIOUS
<1>6. /\ tx' = [tx EXCEPT ![t] = y] /\ UNCHANGED rows /\ UNCHANGED holder
      /\ UNCHANGED opened /\ UNCHANGED history
    BY <1>1, <1>2, <1>3, <1>4, <1>5 DEF DeleteDoom, Goto
<1>7. PICK W : W = {KeyLock(j) : j \in ks}
    OBVIOUS
<1>8. Orders(s, W)
    BY <1>4, <1>7, KeysOrdered
<1>9. s \in Seq(Locks)
    BY <1>8 DEF Orders
<1>10. /\ y \in Tx /\ y.op = "delete" /\ y.pc = "commit" /\ y.key = k /\ y.perm = x.perm
       /\ y.todo = s /\ y.bound = x.bound /\ y.attempt = x.attempt /\ y.targets = ks
    BY <1>1, <1>2, <1>5, <1>9, KeysFinite DEF Tx
<1>11. k \in TempKeys => ks = {}
  <2>1. k \in TempKeys => k \notin PermKeys /\ k # None
      BY AuthIdentityConstants DEF Keys
  <2>2. \A j \in TempKeys : bindings[j] \in PermKeys \cup {None}
      BY DEF IdentityInv, TypeOK
  <2> QED
      BY <1>3, <2>1, <2>2 DEF BoundTo
<1>12. Wants(y) = Wants(x) \cup W
  <2>1. Wants(x) = {IdentityLock(j) : j \in {k} \cap PermKeys}
            \cup {IdentityLock(j) : j \in IF x.bound THEN {x.perm} ELSE {}} \cup {KeyLock(k)}
            \cup {KeyLock(j) : j \in IF x.bound THEN {x.perm} ELSE {}}
      BY <1>1, <1>2 DEF Wants
  <2>2. Wants(y) = {IdentityLock(j) : j \in {k} \cap PermKeys}
            \cup {IdentityLock(j) : j \in IF x.bound THEN {x.perm} ELSE {}} \cup {KeyLock(k)}
            \cup {KeyLock(j) : j \in IF x.bound THEN {x.perm} ELSE {}}
            \cup {KeyLock(j) : j \in ks}
      BY <1>2, <1>10 DEF Wants
  <2> QED
      BY <1>7, <2>1, <2>2
<1>13. ASSUME NEW l \in Wants(x), NEW w \in W PROVE l # w /\ Before(l, w)
  <2>1. PICK j \in ks : w = KeyLock(j)
      BY <1>7
  <2>2. w[1] = "key" /\ w[2] = j /\ Level(w) = 2 /\ j \in TempKeys /\ k \in PermKeys /\ j # k
      BY <1>11, <2>1, LockParts, LockLevels, KeysFinite
  <2>3. ~ x.bound
      BY <1>1, <1>2, <2>2, KeysFinite DEF Good, Shape
  <2>4. CASE l = KeyLock(k)
    <3>1. l[1] = "key" /\ l[2] = k
        BY <2>4, LockParts
    <3> QED
        BY <2>2, <3>1 DEF Before
  <2>5. CASE l # KeyLock(k)
    <3>1. \E i : l = IdentityLock(i)
        BY <1>1, <1>2, <2>3, <2>5 DEF Wants
    <3>2. l[1] = "identity" /\ Level(l) = 1
        BY <3>1, LockParts, LockLevels
    <3> QED
        BY <2>2, <3>2 DEF Before
  <2> QED
      BY <2>4, <2>5
<1>14. Planned(s, Wants(y)) /\ Held(y) = Wants(x)
    BY <1>8, <1>10, <1>12, <1>13, AddedPlan
<1>15. Held(x) = Wants(x)
    BY <1>1 DEF Held, InTodo
<1>16. Shape(y)
  <2>1. \A i \in 1 .. Len(s) : s[i][1] = "key"
      BY <1>7, <1>8, LockParts DEF Orders
  <2>2. k \in TempKeys => s = <<>>
    <3>1. ASSUME k \in TempKeys PROVE Len(s) = 0
      <4>1. W = {} /\ Len(s) \in Nat
          BY <1>7, <1>9, <1>11, <3>1, LenProperties
      <4>2. \A i \in 1 .. Len(s) : FALSE
          BY <1>8, <4>1 DEF Orders
      <4> QED
          BY <4>1, <4>2
    <3> QED
        BY <1>9, <3>1, EmptySeq
  <2>3. x.bound => k \in TempKeys /\ x.perm \in PermKeys
      BY <1>1, <1>2 DEF Good, Shape
  <2> QED
      BY <1>10, <1>11, <2>1, <2>2, <2>3 DEF Shape
<1>17. Good(y)
    BY <1>10, <1>14, <1>16 DEF Good
<1>18. TxInv' /\ LockInv' /\ tx' \in [Txs -> Tx \cup {None}]
    BY <1>1, <1>6, <1>14, <1>15, <1>17, GotoLocks DEF IdentityInv
<1>19. BindInv(y) /\ DeleteInv(y)
    BY <1>1, <1>2, <1>3, <1>10 DEF BindInv, DeleteInv
<1>20. holder' \in [Locks -> Txs \cup {None}] /\ opened' \in 0 .. MaxTxs
    BY <1>6 DEF IdentityInv, TypeOK
<1> QED
    BY <1>6, <1>18, <1>19, <1>20, SameRows, HistoryKept
-----------------------------------------------------------------------------
(* The steps that write.                                                   *)

LEMMA NoneIsNoKey ==
    /\ None \notin PermKeys /\ None \notin TempKeys /\ None \notin Keys
    /\ None \notin Users /\ None \notin Txs
BY AuthIdentityConstants DEF Keys

(* What the end of a transaction does, besides its writes.                 *)
LEMMA Ended ==
    ASSUME IdentityInv, NEW t \in Txs, End(t)
    PROVE  /\ TxInv' /\ LockInv' /\ holder' \in [Locks -> Txs \cup {None}]
           /\ tx' \in [Txs -> Tx \cup {None}] /\ opened' \in 0 .. MaxTxs
           /\ \A r \in Txs : tx'[r] # None => r # t /\ tx'[r] = tx[r]
<1>1. Release(t) /\ tx' = [tx EXCEPT ![t] = None] /\ UNCHANGED opened
    BY DEF End
<1>2. /\ TxInv' /\ LockInv' /\ holder' \in [Locks -> Txs \cup {None}]
      /\ tx' \in [Txs -> Tx \cup {None}]
    BY <1>1, EndLocks DEF IdentityInv
<1>3. opened' \in 0 .. MaxTxs
    BY <1>1 DEF IdentityInv, TypeOK
<1>4. \A r \in Txs : tx'[r] # None => r # t /\ tx'[r] = tx[r]
    BY <1>1 DEF IdentityInv, TypeOK
<1> QED
    BY <1>2, <1>3, <1>4

(* Keys, bindings and the floor as they were: so is what others rely on.   *)
LEMMA SameKeys ==
    ASSUME DataInv, UNCHANGED <<auth_keys, bindings, retained>>,
           \A r \in Txs : tx'[r] # None => tx'[r] = tx[r]
    PROVE  DataInv'
<1>1. ASSUME NEW r \in Txs, tx'[r] # None PROVE (BindInv(tx[r]) /\ DeleteInv(tx[r]))'
  <2>1. tx'[r] = tx[r] /\ BindInv(tx[r]) /\ DeleteInv(tx[r])
      BY <1>1 DEF DataInv
  <2> QED
      BY <2>1 DEF BindInv, DeleteInv, BoundTo
<1> QED
    BY <1>1 DEF DataInv

(* Bind writes the authorization with a cursor that the update log still   *)
(* covers.                                                                 *)
LEMMA BindCommitStep ==
    ASSUME IdentityInv, NEW t \in Txs, BindCommit(t)
    PROVE  IdentityInv'
<1>1. PICK x \in Tx : /\ x = tx[t] /\ x # None /\ Good(x) /\ BindInv(x)
                      /\ x.op = "bind" /\ x.pc = "commit"
    BY DEF BindCommit, At, IdentityInv, TypeOK, TxInv, DataInv
<1>2. PICK k \in PermKeys : k = x.key
    BY <1>1 DEF Good, Shape
<1>3. PICK u \in Users : u = x.user
    BY <1>1 DEF Good, Shape
<1>4. PICK f \in 0 .. MaxPts : f = x.floor /\ f = retained[u] /\ k \in auth_keys
    BY <1>1, <1>2, <1>3 DEF BindInv, Tx
<1>5. PICK old \in Cursor \cup {None} : old = update_states[k]
    BY DEF IdentityInv, TypeOK
<1>6. PICK obs : obs = IF old # None /\ old.user = u /\ old.observed > f
                       THEN old.observed ELSE f
    OBVIOUS
<1>7. obs \in 0 .. MaxPts /\ f <= obs
  <2>1. CASE old # None /\ old.user = u /\ old.observed > f
    <3>1. old.observed \in 0 .. MaxPts
        BY <2>1 DEF Cursor
    <3> QED
        BY <1>6, <2>1, <3>1, AuthIdentityConstants
  <2>2. CASE ~ (old # None /\ old.user = u /\ old.observed > f)
      BY <1>6, <2>2, AuthIdentityConstants
  <2> QED
      BY <2>1, <2>2
<1>c. PICK c : c = [user |-> u, observed |-> obs]
    OBVIOUS
<1>8. c \in Cursor /\ c.user = u /\ c.observed = obs
    BY <1>7, <1>c DEF Cursor
<1>9. /\ update_states' = [update_states EXCEPT ![k] = c]
      /\ authorizations' = [authorizations EXCEPT ![k] = u]
      /\ UNCHANGED <<auth_keys, bindings, contiguous_pts, retained, history>>
      /\ End(t)
    BY <1>1, <1>2, <1>3, <1>4, <1>5, <1>6, <1>c DEF BindCommit
<1>10. TypeOK'
    BY <1>8, <1>9, Ended, HistoryKept DEF IdentityInv, TypeOK
<1>11. DataInv'
    BY <1>9, Ended, SameKeys DEF IdentityInv
<1>12. NoSilentGap'
  <2>1. ASSUME NEW j \in PermKeys, authorizations'[j] # None
        PROVE  /\ update_states'[j] # None
               /\ update_states'[j].user = authorizations'[j]
               /\ retained'[authorizations'[j]] <= update_states'[j].observed
    <3>1. CASE j = k
      <4>1. update_states'[j] = c /\ authorizations'[j] = u /\ retained' = retained
          BY <1>9, <3>1 DEF IdentityInv, TypeOK
      <4>2. c # None
          BY <1>8, NoneIsNoRecord
      <4> QED
          BY <1>4, <1>7, <1>8, <4>1, <4>2
    <3>2. CASE j # k
      <4>1. /\ update_states'[j] = update_states[j] /\ authorizations'[j] = authorizations[j]
            /\ retained' = retained
          BY <1>9, <3>2 DEF IdentityInv, TypeOK
      <4> QED
          BY <2>1, <4>1 DEF IdentityInv, NoSilentGap
    <3> QED
        BY <3>1, <3>2
  <2> QED
      BY <2>1 DEF NoSilentGap
<1>13. DeletionComplete'
    BY <1>4, <1>9, HistoryKept DEF IdentityInv, TypeOK, DeletionComplete
<1> QED
    BY <1>9, <1>10, <1>11, <1>12, <1>13, Ended DEF IdentityInv

(* Authorizations are deleted, and the cursors of some of their keys.      *)
LEMMA FewerAuthorizations ==
    ASSUME IdentityInv, NEW ks, NEW cs, cs \subseteq ks,
           authorizations' = [k \in PermKeys |-> IF k \in ks THEN None ELSE authorizations[k]],
           update_states' = [k \in PermKeys |-> IF k \in cs THEN None ELSE update_states[k]],
           UNCHANGED <<auth_keys, bindings, contiguous_pts, retained, history>>,
           opened' \in 0 .. MaxTxs,
           TxInv', LockInv', holder' \in [Locks -> Txs \cup {None}],
           tx' \in [Txs -> Tx \cup {None}],
           \A r \in Txs : tx'[r] # None => tx'[r] = tx[r]
    PROVE  IdentityInv'
<1>1. TypeOK'
    BY HistoryKept DEF IdentityInv, TypeOK
<1>2. DataInv'
    BY SameKeys DEF IdentityInv
<1>3. ASSUME NEW k \in PermKeys, authorizations'[k] # None
      PROVE  authorizations'[k] = authorizations[k] /\ update_states'[k] = update_states[k]
    BY <1>3
<1>4. NoSilentGap' /\ DeletionComplete'
    BY <1>3, HistoryKept DEF IdentityInv, NoSilentGap, DeletionComplete
<1> QED
    BY <1>1, <1>2, <1>4 DEF IdentityInv

(* A revocation deletes rows that are still of its own user.               *)
LEMMA RevokeCommitStep ==
    ASSUME IdentityInv, NEW t \in Txs, RevokeCommit(t)
    PROVE  IdentityInv'
<1>1. PICK ks : /\ ks = Revalidated(tx[t])
                /\ update_states' = [k \in PermKeys |-> IF k \in ks THEN None ELSE update_states[k]]
                /\ authorizations' = [k \in PermKeys |-> IF k \in ks THEN None ELSE authorizations[k]]
    BY DEF RevokeCommit
<1>2. End(t) /\ UNCHANGED <<auth_keys, bindings, contiguous_pts, retained, history>>
    BY DEF RevokeCommit
<1> QED
    BY <1>1, <1>2, Ended, FewerAuthorizations

(* Fewer authorizations break nothing.                                     *)
LEMMA DeleteAuthorizationsStep ==
    ASSUME IdentityInv, NEW ks, DeleteAuthorizations(ks)
    PROVE  IdentityInv'
<1>1. /\ authorizations' = [k \in PermKeys |-> IF k \in ks THEN None ELSE authorizations[k]]
      /\ UNCHANGED <<auth_keys, bindings, update_states, contiguous_pts, retained, holder, tx, history>>
    BY DEF DeleteAuthorizations
<1>cs. PICK cs : cs = {}
    OBVIOUS
<1>2. update_states' = [k \in PermKeys |-> IF k \in cs THEN None ELSE update_states[k]]
    BY <1>1, <1>cs DEF IdentityInv, TypeOK
<1>3. opened' \in 0 .. MaxTxs
    BY AuthIdentityConstants DEF DeleteAuthorizations, IdentityInv, TypeOK
<1>4. /\ TxInv' /\ LockInv' /\ holder' \in [Locks -> Txs \cup {None}]
      /\ tx' \in [Txs -> Tx \cup {None}]
    BY <1>1 DEF IdentityInv, TxInv, LockInv, TypeOK
<1> QED
    BY <1>1, <1>cs, <1>2, <1>3, <1>4, FewerAuthorizations

(* A new update lies beyond every cursor and every floor.                  *)
LEMMA PublishStep ==
    ASSUME IdentityInv, NEW u \in Users, Publish(u)
    PROVE  IdentityInv'
<1>1. /\ contiguous_pts' = [contiguous_pts EXCEPT ![u] = contiguous_pts[u] + 1]
      /\ contiguous_pts[u] < MaxPts
      /\ UNCHANGED <<auth_keys, bindings, authorizations, update_states, retained,
                     holder, tx, opened, history>>
    BY DEF Publish
<1>2. contiguous_pts[u] + 1 \in 0 .. MaxPts
    BY <1>1, AuthIdentityConstants DEF IdentityInv, TypeOK
<1>3. TypeOK'
    BY <1>1, <1>2, HistoryKept DEF IdentityInv, TypeOK
<1>4. TxInv' /\ LockInv'
    BY <1>1 DEF IdentityInv, TxInv, LockInv
<1>5. DataInv'
    BY <1>1, SameKeys DEF IdentityInv
<1>6. NoSilentGap' /\ DeletionComplete'
    BY <1>1, HistoryKept DEF IdentityInv, NoSilentGap, DeletionComplete
<1> QED
    BY <1>3, <1>4, <1>5, <1>6 DEF IdentityInv

(* A device confirms what it has received.                                 *)
LEMMA ObserveStep ==
    ASSUME IdentityInv, NEW k \in PermKeys, Observe(k)
    PROVE  IdentityInv'
<1>1. PICK u \in Users : /\ u = authorizations[k] /\ update_states[k] # None
                         /\ update_states[k].user = u
                         /\ update_states[k].observed < contiguous_pts[u]
    BY DEF Observe, IdentityInv, TypeOK
<1>2. PICK old \in Cursor : old = update_states[k] /\ old.user = u
    BY <1>1 DEF IdentityInv, TypeOK
<1>3. PICK c : c = [old EXCEPT !.observed = old.observed + 1]
    OBVIOUS
<1>4. old.observed \in 0 .. MaxPts /\ contiguous_pts[u] \in 0 .. MaxPts
    BY DEF IdentityInv, TypeOK, Cursor
<1>5. old.observed + 1 \in 0 .. MaxPts
    BY <1>1, <1>2, <1>4, AuthIdentityConstants
<1>6. c \in Cursor /\ c.user = u /\ c.observed = old.observed + 1
    BY <1>2, <1>3, <1>5 DEF Cursor
<1>7. /\ update_states' = [update_states EXCEPT ![k] = c]
      /\ UNCHANGED <<auth_keys, bindings, authorizations, contiguous_pts, retained,
                     holder, tx, opened, history>>
    BY <1>2, <1>3 DEF Observe, IdentityInv, TypeOK
<1>8. TypeOK'
    BY <1>6, <1>7, HistoryKept DEF IdentityInv, TypeOK
<1>9. TxInv' /\ LockInv'
    BY <1>7 DEF IdentityInv, TxInv, LockInv
<1>10. DataInv'
    BY <1>7, SameKeys DEF IdentityInv
<1>11. NoSilentGap'
  <2>1. ASSUME NEW j \in PermKeys, authorizations'[j] # None
        PROVE  /\ update_states'[j] # None
               /\ update_states'[j].user = authorizations'[j]
               /\ retained'[authorizations'[j]] <= update_states'[j].observed
    <3>1. CASE j = k
      <4>1. update_states'[j] = c /\ authorizations'[j] = u /\ retained' = retained
          BY <1>1, <1>7, <3>1 DEF IdentityInv, TypeOK
      <4>2. c # None
          BY <1>6, NoneIsNoRecord
      <4>3. retained[u] <= old.observed /\ retained[u] \in 0 .. MaxPts /\ u # None
          BY <1>1, <1>2, NoneIsNoKey DEF IdentityInv, TypeOK, NoSilentGap
      <4>4. retained[u] <= c.observed
          BY <1>4, <1>6, <4>3
      <4> QED
          BY <1>6, <4>1, <4>2, <4>4
    <3>2. CASE j # k
      <4>1. /\ update_states'[j] = update_states[j] /\ authorizations'[j] = authorizations[j]
            /\ retained' = retained
          BY <1>7, <3>2 DEF IdentityInv, TypeOK
      <4> QED
          BY <2>1, <4>1 DEF IdentityInv, NoSilentGap
    <3> QED
        BY <3>1, <3>2
  <2> QED
      BY <2>1 DEF NoSilentGap
<1>12. DeletionComplete'
    BY <1>7, HistoryKept DEF IdentityInv, DeletionComplete
<1> QED
    BY <1>8, <1>9, <1>10, <1>11, <1>12 DEF IdentityInv

(* The pruner: the cursors of the user's devices are beyond the new floor,  *)
(* and no Bind of that user has read the old one, for it would hold the    *)
(* lock.                                                                   *)
LEMMA PruneCommitStep ==
    ASSUME IdentityInv, NEW t \in Txs, PruneCommit(t)
    PROVE  IdentityInv'
<1>1. PICK x \in Tx : x = tx[t] /\ x # None /\ Good(x) /\ x.op = "prune" /\ x.todo = <<>>
    BY DEF PruneCommit, At, IdentityInv, TypeOK, TxInv
<1>2. PICK u \in Users : u = x.user
    BY <1>1 DEF Good, Shape
<1>3. PICK pts \in retained[u] .. contiguous_pts[u] :
        /\ \A k \in PermKeys : authorizations[k] = u => update_states[k].observed >= pts
        /\ retained' = [retained EXCEPT ![u] = pts]
    BY <1>1, <1>2 DEF PruneCommit
<1>4. End(t) /\ UNCHANGED <<auth_keys, bindings, authorizations, update_states, contiguous_pts, history>>
    BY DEF PruneCommit
<1>5. pts \in 0 .. MaxPts
  <2>1. PICK a \in 0 .. MaxPts : a = retained[u]
      BY DEF IdentityInv, TypeOK
  <2>2. PICK b \in 0 .. MaxPts : b = contiguous_pts[u]
      BY DEF IdentityInv, TypeOK
  <2>3. pts \in a .. b
      BY <2>1, <2>2
  <2> QED
      BY <2>3, AuthIdentityConstants
<1>6. TypeOK'
    BY <1>3, <1>4, <1>5, Ended, HistoryKept DEF IdentityInv, TypeOK
<1>7. holder[<<"retention", u>>] = t
  <2>1. <<"retention", u>> \in Wants(x)
      BY <1>1, <1>2 DEF Wants
  <2> QED
      BY <1>1, <2>1, HoldsAll DEF IdentityInv
<1>8. ASSUME NEW r \in Txs, tx'[r] # None PROVE (BindInv(tx[r]) /\ DeleteInv(tx[r]))'
  <2>1. r # t /\ tx'[r] = tx[r] /\ tx[r] # None /\ BindInv(tx[r]) /\ DeleteInv(tx[r])
      BY <1>4, <1>8, Ended DEF IdentityInv, DataInv
  <2>2. DeleteInv(tx[r])'
      BY <1>4, <2>1 DEF DeleteInv, BoundTo
  <2>3. tx[r].op = "bind" /\ tx[r].pc = "commit" => tx[r].user # u
      BY <1>7, <2>1, BindHolds DEF IdentityInv
  <2>4. tx[r].op = "bind" /\ tx[r].pc = "commit" => retained'[tx[r].user] = retained[tx[r].user]
    <3>1. tx[r].op = "bind" => tx[r].user \in Users
        BY <2>1 DEF IdentityInv, TxInv, Good, Shape
    <3> QED
        BY <1>3, <2>3, <3>1 DEF IdentityInv, TypeOK
  <2>5. BindInv(tx[r])'
      BY <1>4, <2>1, <2>4 DEF BindInv
  <2> QED
      BY <2>2, <2>5
<1>9. DataInv'
    BY <1>8 DEF DataInv
<1>10. NoSilentGap'
  <2>1. ASSUME NEW k \in PermKeys, authorizations[k] # None
        PROVE  retained'[authorizations[k]] <= update_states[k].observed
    <3>1. CASE authorizations[k] = u
      <4>1. update_states[k] \in Cursor
          BY <2>1 DEF IdentityInv, TypeOK, NoSilentGap
      <4>2. update_states[k].observed >= pts /\ update_states[k].observed \in 0 .. MaxPts
          BY <1>3, <3>1, <4>1 DEF Cursor
      <4>3. retained'[u] = pts
          BY <1>3 DEF IdentityInv, TypeOK
      <4> QED
          BY <1>5, <3>1, <4>2, <4>3
    <3>2. CASE authorizations[k] # u
      <4>1. authorizations[k] \in Users
          BY <2>1 DEF IdentityInv, TypeOK
      <4>2. retained'[authorizations[k]] = retained[authorizations[k]]
          BY <1>3, <3>2, <4>1 DEF IdentityInv, TypeOK
      <4> QED
          BY <2>1, <4>2 DEF IdentityInv, NoSilentGap
    <3> QED
        BY <3>1, <3>2
  <2> QED
      BY <1>4, <2>1 DEF IdentityInv, NoSilentGap
<1>11. DeletionComplete'
    BY <1>4, HistoryKept DEF IdentityInv, DeletionComplete
<1> QED
    BY <1>4, <1>6, <1>9, <1>10, <1>11, Ended DEF IdentityInv

(* A binding is made under the identity lock of the permanent key and the  *)
(* row lock of the temporary one.                                          *)
LEMMA SaveCommitStep ==
    ASSUME IdentityInv, NEW t \in Txs, SaveCommit(t)
    PROVE  IdentityInv'
<1>1. PICK x \in Tx : x = tx[t] /\ x # None /\ Good(x) /\ x.op = "save" /\ x.todo = <<>>
    BY DEF SaveCommit, At, IdentityInv, TypeOK, TxInv
<1>2. PICK k \in TempKeys : k = x.key
    BY <1>1 DEF Good, Shape
<1>3. PICK p \in PermKeys : p = x.perm
    BY <1>1 DEF Good, Shape
<1>4. End(t) /\ UNCHANGED <<auth_keys, authorizations, update_states, contiguous_pts, retained, failed>>
    BY DEF SaveCommit
<1>0. /\ bindings' = IF BindStatus(k, p) = "ok" THEN [bindings EXCEPT ![k] = p] ELSE bindings
      /\ confirmed' = confirmed \/ confirmed' = confirmed \cup {<<k, p>>}
    BY <1>1, <1>2, <1>3 DEF SaveCommit
<1>c. confirmed' \subseteq TempKeys \X PermKeys
    BY <1>0 DEF IdentityInv, TypeOK
<1>5. holder[IdentityLock(p)] = t /\ holder[KeyLock(k)] = t
  <2>1. IdentityLock(p) \in Wants(x) /\ KeyLock(k) \in Wants(x)
      BY <1>1, <1>2, <1>3 DEF Wants
  <2> QED
      BY <1>1, <2>1, HoldsAll DEF IdentityInv
<1>6. CASE ~ ({k, p} \subseteq auth_keys /\ bindings[k] = None)
  <2>1. bindings' = bindings
      BY <1>0, <1>6 DEF BindStatus, IdentityInv, TypeOK
  <2>2. UNCHANGED rows /\ failed' = failed
      BY <1>4, <2>1 DEF rows
  <2> QED
      BY <1>4, <1>c, <2>2, EndStep
<1>7. CASE k \in auth_keys /\ p \in auth_keys /\ bindings[k] = None
  <2>1. bindings' = [bindings EXCEPT ![k] = p]
      BY <1>0, <1>7 DEF BindStatus
  <2>2. bindings'[k] = p /\ \A j \in TempKeys \ {k} : bindings'[j] = bindings[j]
      BY <2>1 DEF IdentityInv, TypeOK
  <2>3. TypeOK'
      BY <1>4, <1>c, <2>1, Ended DEF IdentityInv, TypeOK
  <2>4. ASSUME NEW r \in Txs, tx'[r] # None PROVE (BindInv(tx[r]) /\ DeleteInv(tx[r]))'
    <3>1. PICK y : y = tx[r] /\ r # t /\ tx'[r] = y /\ y # None
                    /\ BindInv(y) /\ DeleteInv(y) /\ Good(y)
        BY <1>4, <2>4, Ended DEF IdentityInv, DataInv, TxInv
    <3>2. BindInv(tx[r])'
        BY <1>4, <3>1 DEF BindInv
    <3>3. ASSUME y.op = "delete", y.bound, y.key \in auth_keys
          PROVE  bindings'[y.key] = y.perm
      <4>1. bindings[y.key] = y.perm /\ y.perm \in PermKeys /\ y.key \in TempKeys
          BY <3>1, <3>3 DEF DeleteInv, Good, Shape
      <4>2. y.key # k
          BY <1>7, <4>1, NoneIsNoKey
      <4> QED
          BY <2>2, <4>1, <4>2
    <3>4. ASSUME y.op = "delete", y.key \in TempKeys, ~ y.bound, y.pc # "recheck"
          PROVE  bindings'[y.key] = None
      <4>1. bindings[y.key] = None
          BY <3>1, <3>4 DEF DeleteInv
      <4>2. holder[KeyLock(y.key)] = r
          BY <3>1, <3>4, DeleteHolds DEF IdentityInv
      <4>3. y.key # k
          BY <1>5, <3>1, <4>2
      <4> QED
          BY <2>2, <3>4, <4>1, <4>3
    <3>5. ASSUME y.op = "delete", y.key \in PermKeys, y.pc = "commit"
          PROVE  BoundTo(y.key)' = y.targets
      <4>1. BoundTo(y.key) = y.targets
          BY <3>1, <3>5 DEF DeleteInv
      <4>2. holder[IdentityLock(y.key)] = r
          BY <3>1, <3>5, DeleteHolds DEF IdentityInv
      <4>3. y.key # p /\ y.key # None
          BY <1>5, <3>1, <3>5, <4>2, NoneIsNoKey
      <4>4. \A j \in TempKeys : bindings'[j] = y.key <=> bindings[j] = y.key
          BY <1>7, <2>2, <4>3
      <4> QED
          BY <4>1, <4>4 DEF BoundTo
    <3>6. DeleteInv(tx[r])'
      <4>1. y.op = "delete" /\ y.key \in TempKeys /\ ~ y.bound => y.attempt = 1
          BY <3>1 DEF DeleteInv
      <4> QED
          BY <1>4, <3>1, <3>3, <3>4, <3>5, <4>1 DEF DeleteInv, BoundTo
    <3> QED
        BY <3>2, <3>6
  <2>5. DataInv'
      BY <2>4 DEF DataInv
  <2>6. NoSilentGap'
      BY <1>4 DEF IdentityInv, NoSilentGap
  <2>7. DeletionComplete'
    <3>1. ASSUME NEW j \in TempKeys, bindings'[j] # None
          PROVE  {j, bindings'[j]} \subseteq auth_keys'
        BY <1>4, <1>7, <2>2, <3>1 DEF IdentityInv, DeletionComplete
    <3> QED
        BY <1>4, <3>1 DEF IdentityInv, DeletionComplete
  <2> QED
      BY <1>4, <2>3, <2>5, <2>6, <2>7, Ended DEF IdentityInv
<1> QED
    BY <1>6, <1>7

(* A key is deleted, with its temporary keys, under the identity and row   *)
(* locks: all its bindings are among those it found, and nobody who has    *)
(* read a row of them still holds it.                                      *)
LEMMA DeleteCommitStep ==
    ASSUME IdentityInv, NEW t \in Txs, DeleteCommit(t)
    PROVE  IdentityInv'
<1>1. PICK x \in Tx : /\ x = tx[t] /\ x # None /\ Good(x) /\ DeleteInv(x)
                      /\ x.op = "delete" /\ x.pc = "commit" /\ x.todo = <<>>
    BY DEF DeleteCommit, At, IdentityInv, TypeOK, TxInv, DataInv
<1>2. PICK k \in Keys : k = x.key
    BY <1>1 DEF Good, Shape
<1>3. PICK ks \in SUBSET TempKeys : /\ ks = x.targets /\ (k \in TempKeys => ks = {})
                                    /\ (k \in PermKeys => ks = BoundTo(k))
    BY <1>1, <1>2 DEF Good, Shape, DeleteInv
<1>4. PICK doomed \in SUBSET Keys : doomed = {k} \cup ks
    BY KeysFinite
<1>5. \A j \in TempKeys : bindings[j] \in PermKeys \cup {None}
    BY DEF IdentityInv, TypeOK
<1>6. k \in PermKeys \/ (k \in TempKeys /\ k \notin PermKeys)
    BY KeysFinite
<1>7. \A j \in TempKeys : bindings[j] = k => j \in ks
    BY <1>3, <1>5, <1>6, NoneIsNoKey DEF BoundTo
<1>8. /\ auth_keys' = auth_keys \ doomed
      /\ bindings' = [j \in TempKeys |-> IF j \in doomed THEN None ELSE bindings[j]]
      /\ authorizations' = [j \in PermKeys |-> IF j \in doomed THEN None ELSE authorizations[j]]
      /\ update_states' = [j \in PermKeys |-> IF j \in doomed THEN None ELSE update_states[j]]
      /\ End(t)
      /\ UNCHANGED <<contiguous_pts, retained, history>>
    BY <1>1, <1>2, <1>3, <1>4, <1>7 DEF DeleteCommit
<1>9. TypeOK'
    BY <1>8, Ended, HistoryKept DEF IdentityInv, TypeOK
<1>10. \A j \in doomed : holder[KeyLock(j)] = t
  <2>1. KeyLock(k) \in Wants(x) /\ \A j \in ks : KeyLock(j) \in Wants(x)
      BY <1>1, <1>2, <1>3 DEF Wants
  <2> QED
      BY <1>1, <1>4, <2>1, HoldsAll DEF IdentityInv
<1>11. ASSUME NEW j \in TempKeys, j \in doomed, bindings[j] # None
       PROVE  bindings[j] \in PermKeys /\ holder[IdentityLock(bindings[j])] = t
  <2>1. bindings[j] \in PermKeys /\ j \in auth_keys
      BY <1>5, <1>11 DEF IdentityInv, DeletionComplete
  <2>2. CASE k \in PermKeys
    <3>1. j # k
        BY <2>2, KeysFinite
    <3>2. bindings[j] = k
        BY <1>3, <1>4, <1>11, <2>2, <3>1 DEF BoundTo
    <3>3. IdentityLock(k) \in Wants(x)
        BY <1>1, <1>2, <2>2 DEF Wants
    <3> QED
        BY <1>1, <2>1, <3>2, <3>3, HoldsAll DEF IdentityInv
  <2>3. CASE k \in TempKeys
    <3>1. j = k
        BY <1>3, <1>4, <1>11, <2>3
    <3>2. x.bound /\ bindings[k] = x.perm
        BY <1>1, <1>2, <1>11, <2>1, <2>3, <3>1 DEF DeleteInv
    <3>3. IdentityLock(x.perm) \in Wants(x)
        BY <1>1, <3>2 DEF Wants
    <3> QED
        BY <1>1, <2>1, <3>1, <3>2, <3>3, HoldsAll DEF IdentityInv
  <2> QED
      BY <1>6, <2>2, <2>3
<1>12. ASSUME NEW r \in Txs, tx'[r] # None PROVE (BindInv(tx[r]) /\ DeleteInv(tx[r]))'
  <2>1. PICK y : y = tx[r] /\ r # t /\ tx'[r] = y /\ y # None
                  /\ BindInv(y) /\ DeleteInv(y) /\ Good(y)
      BY <1>8, <1>12, Ended DEF IdentityInv, DataInv, TxInv
  <2>2. ASSUME y.op = "bind", y.pc = "commit"
        PROVE  y.floor = retained[y.user] /\ y.key \in auth_keys'
    <3>1. y.floor = retained[y.user] /\ y.key \in auth_keys
        BY <2>1, <2>2 DEF BindInv
    <3>2. holder[KeyLock(y.key)] = r
        BY <2>1, <2>2, BindHolds DEF IdentityInv
    <3>3. y.key \notin doomed
        BY <1>10, <2>1, <3>2
    <3> QED
        BY <1>8, <3>1, <3>3
  <2>3. BindInv(tx[r])'
      BY <1>8, <2>1, <2>2 DEF BindInv
  <2>4. ASSUME y.op = "delete", y.bound, y.key \in auth_keys'
        PROVE  bindings'[y.key] = y.perm
    <3>1. y.key \in TempKeys /\ y.key \in auth_keys /\ y.key \notin doomed
        BY <1>8, <2>1, <2>4 DEF Good, Shape
    <3>2. bindings[y.key] = y.perm
        BY <2>1, <2>4, <3>1 DEF DeleteInv
    <3> QED
        BY <1>8, <3>1, <3>2
  <2>5. ASSUME y.op = "delete", y.key \in TempKeys, ~ y.bound, y.pc # "recheck"
        PROVE  bindings'[y.key] = None
    <3>1. bindings[y.key] = None
        BY <2>1, <2>5 DEF DeleteInv
    <3> QED
        BY <1>8, <2>5, <3>1
  <2>6. ASSUME y.op = "delete", y.key \in PermKeys, y.pc = "commit"
        PROVE  BoundTo(y.key)' = y.targets
    <3>1. BoundTo(y.key) = y.targets
        BY <2>1, <2>6 DEF DeleteInv
    <3>2. holder[IdentityLock(y.key)] = r
        BY <2>1, <2>6, DeleteHolds DEF IdentityInv
    <3>3. ASSUME NEW j \in TempKeys PROVE bindings'[j] = y.key <=> bindings[j] = y.key
      <4>1. y.key # None
          BY <2>6, NoneIsNoKey
      <4>2. CASE j \in doomed
        <5>1. bindings'[j] = None
            BY <1>8, <4>2
        <5>2. bindings[j] # y.key
            BY <1>11, <2>1, <3>2, <4>1, <4>2
        <5> QED
            BY <4>1, <5>1, <5>2
      <4>3. CASE j \notin doomed
          BY <1>8, <4>3
      <4> QED
          BY <4>2, <4>3
    <3> QED
        BY <3>1, <3>3 DEF BoundTo
  <2>7. DeleteInv(tx[r])'
    <3>1. y.op = "delete" /\ y.key \in TempKeys /\ ~ y.bound => y.attempt = 1
        BY <2>1 DEF DeleteInv
    <3> QED
        BY <2>1, <2>4, <2>5, <2>6, <3>1 DEF DeleteInv, BoundTo
  <2> QED
      BY <2>3, <2>7
<1>13. DataInv'
    BY <1>12 DEF DataInv
<1>14. ASSUME NEW j \in PermKeys, authorizations'[j] # None
       PROVE  /\ j \notin doomed /\ authorizations'[j] = authorizations[j]
              /\ update_states'[j] = update_states[j]
    BY <1>8, <1>14
<1>15. NoSilentGap'
    BY <1>8, <1>14 DEF IdentityInv, NoSilentGap
<1>16. DeletionComplete'
  <2>1. ASSUME NEW j \in TempKeys, bindings'[j] # None
        PROVE  {j, bindings'[j]} \subseteq auth_keys'
    <3>1. j \notin doomed /\ bindings'[j] = bindings[j]
        BY <1>8, <2>1
    <3>2. j \in auth_keys /\ bindings[j] \in auth_keys /\ bindings[j] \in PermKeys
        BY <1>5, <2>1, <3>1 DEF IdentityInv, DeletionComplete
    <3>3. bindings[j] \notin doomed
        BY <1>3, <1>4, <1>7, <3>1, <3>2, KeysFinite
    <3> QED
        BY <1>8, <3>1, <3>2, <3>3
  <2>2. \A j \in PermKeys : authorizations'[j] # None => j \in auth_keys'
      BY <1>8, <1>14 DEF IdentityInv, DeletionComplete
  <2> QED
      BY <1>8, <2>1, <2>2, HistoryKept DEF IdentityInv, DeletionComplete
<1> QED
    BY <1>8, <1>9, <1>13, <1>15, <1>16, Ended DEF IdentityInv

(* Every step keeps the invariant.                                         *)
LEMMA InvNext ==
    IdentityInv /\ [Next]_vars => IdentityInv'
<1> SUFFICES ASSUME IdentityInv, [Next]_vars PROVE IdentityInv'
    OBVIOUS
<1>1. ASSUME NEW t \in Txs, Progress(t) PROVE IdentityInv'
    BY <1>1, AcquireStep, DeadlockStep, BindReadStep, BindCommitStep, RevokeCommitStep,
       DeleteRecheckStep, DeleteDoomStep, DeleteCommitStep, LoadCommitStep, SaveCommitStep,
       SaveRefusedStep, PruneCommitStep DEF Progress
<1>2. ASSUME NEW k \in PermKeys, NEW u \in Users,
             Logout(k) \/ DeleteByHash(k, u) \/ DeleteByUserExcept(k, u)
      PROVE  IdentityInv'
    BY <1>2, DeleteAuthorizationsStep DEF Logout, DeleteByHash, DeleteByUserExcept
<1>3. ASSUME NEW k \in PermKeys, Logout(k) PROVE IdentityInv'
    BY <1>3, DeleteAuthorizationsStep DEF Logout
<1>4. ASSUME UNCHANGED vars PROVE IdentityInv'
    BY <1>4 DEF vars, IdentityInv, TypeOK, TxInv, LockInv, DataInv, BindInv, DeleteInv, BoundTo,
                NoSilentGap, DeletionComplete
<1> QED
    BY <1>1, <1>2, <1>3, <1>4, BeginStep, ObserveStep, PublishStep DEF Next, Quiet

(* The inductive invariant holds.                                          *)
THEOREM Invariance == Spec => []IdentityInv
BY InvInit, InvNext, PTL DEF Spec

(* The store stays well-formed: what the transactions write has the type    *)
(* of its column.                                                          *)
THEOREM TypeCorrect == Spec => []TypeOK
<1>1. IdentityInv => TypeOK
    BY DEF IdentityInv
<1> QED
    BY <1>1, Invariance, PTL

(* For any interleaving of logins, revocations, deletions and the pruner,  *)
(* a device that is logged in has a cursor of its user, and no update      *)
(* after it was deleted.                                                   *)
THEOREM NoSilentGapEver == Spec => []NoSilentGap
<1>1. IdentityInv => NoSilentGap
    BY DEF IdentityInv
<1> QED
    BY <1>1, Invariance, PTL

(* Deletion of a key never fails on a binding made meanwhile nor gives up   *)
(* because the identity changed, and leaves no binding or authorization.   *)
THEOREM DeletionsComplete == Spec => []DeletionComplete
<1>1. IdentityInv => DeletionComplete
    BY DEF IdentityInv
<1> QED
    BY <1>1, Invariance, PTL

(* A revocation deletes no authorization of another user, whoever it found *)
(* before it had to wait.                                                  *)
THEOREM RevocationsOwnOnly == Spec => RevokesOwnOnly
<1>1. ASSUME TypeOK, Next, NEW t \in Txs, NEW k \in PermKeys,
             At(t, {"revoke"}, "commit"), tx'[t] = None,
             authorizations[k] # None, authorizations'[k] = None
      PROVE  authorizations[k] = tx[t].user
  <2>1. tx[t] # None /\ tx[t].op = "revoke" /\ tx[t].todo = <<>>
      BY <1>1 DEF At
  <2>2. tx' # tx /\ authorizations' # authorizations
      BY <1>1, <2>1
  <2>3. PICK r \in Txs : Progress(r)
    <3>1. ASSUME NEW r \in Txs, Begin(r) PROVE authorizations' = authorizations
        BY <3>1 DEF Begin, Bind, RevokeByHash, RevokeByUserExcept, Delete, LoadBindingKeys,
                    Prune, Open, Goto, rows
    <3>2. ASSUME NEW j \in PermKeys, NEW u \in Users,
                 DeleteByHash(j, u) \/ DeleteByUserExcept(j, u)
          PROVE  tx' = tx
        BY <3>2 DEF DeleteByHash, DeleteByUserExcept, DeleteAuthorizations
    <3>3. ASSUME NEW j \in PermKeys, Logout(j) \/ Observe(j) PROVE tx' = tx
        BY <3>3 DEF Logout, DeleteAuthorizations, Observe
    <3>4. ASSUME NEW u \in Users, Publish(u) PROVE tx' = tx
        BY <3>4 DEF Publish
    <3>5. Quiet => tx' = tx
        BY DEF Quiet, vars
    <3> QED
        BY <1>1, <2>2, <3>1, <3>2, <3>3, <3>4, <3>5 DEF Next
  <2>4. ~ Acquire(r) /\ ~ DeadlockDetected(r)
      BY <2>2 DEF Acquire, DeadlockDetected, Retry, Fail, rows
  <2>5. r = t
    <3>1. \E y : tx' = [tx EXCEPT ![r] = y]
        BY <2>3, <2>4 DEF Progress, BindRead, BindCommit, RevokeCommit, DeleteRecheck, DeleteDoom,
              DeleteCommit, LoadCommit, SaveCommit, SaveRefused, PruneCommit, Goto, End, Fail, Retry
    <3> QED
        BY <1>1, <2>1, <3>1 DEF TypeOK
  <2>6. RevokeCommit(t)
      BY <2>1, <2>3, <2>4, <2>5 DEF Progress, BindRead, BindCommit, DeleteRecheck, DeleteDoom,
            DeleteCommit, LoadCommit, SaveCommit, SaveRefused, PruneCommit, At
  <2>7. k \in Revalidated(tx[t])
      BY <1>1, <2>6 DEF RevokeCommit
  <2> QED
      BY <2>7 DEF Revalidated, Selected
<1>2. TypeOK /\ [Next]_vars =>
        [\A t \in Txs, k \in PermKeys :
           At(t, {"revoke"}, "commit") /\ tx'[t] = None /\ authorizations[k] # None
              /\ authorizations'[k] = None => authorizations[k] = tx[t].user]_vars
    BY <1>1
<1> QED
    BY <1>2, TypeCorrect, PTL DEF Spec, RevokesOwnOnly
-----------------------------------------------------------------------------
(* A repeated bind.                                                        *)

(* What a step may do to the keys and their bindings, unless it binds:     *)
(* keys go, never to return, and a key that stays keeps its binding.       *)
BindingsKept ==
    /\ auth_keys' \subseteq auth_keys /\ confirmed' = confirmed
    /\ \A temp \in TempKeys : temp \in auth_keys' => bindings'[temp] = bindings[temp]

(* Nothing but a binding and a deletion changes them.                      *)
LEMMA RowsKeepBindings ==
    ASSUME auth_keys' = auth_keys, bindings' = bindings, confirmed' = confirmed
    PROVE  BindingsKept
BY DEF BindingsKept

(* Ending, or trying again, with the rows as they are.                     *)
LEMMA RetryKeepsBindings ==
    ASSUME NEW t \in Txs, NEW why, Fail(t, why) \/ Retry(t, why)
    PROVE  BindingsKept
BY RowsKeepBindings DEF Fail, Retry, rows, history

(* A deleted temporary key loses its binding with its row.                 *)
LEMMA DeleteKeepsBindings ==
    ASSUME NEW t \in Txs, DeleteCommit(t)
    PROVE  BindingsKept
<1>1. CASE Fail(t, "restricted")
    BY <1>1, RetryKeepsBindings
<1>2. CASE ~ Fail(t, "restricted")
    BY <1>2 DEF DeleteCommit, BindingsKept, history
<1> QED
    BY <1>1, <1>2

(* Every step but that of SaveWithState keeps the bindings.                *)
LEMMA NextKeepsBindings ==
    ASSUME Next, \A t \in Txs : ~ SaveCommit(t)
    PROVE  BindingsKept
<1>1. ASSUME NEW t \in Txs, Begin(t) PROVE BindingsKept
    BY <1>1, RowsKeepBindings DEF Begin, Bind, RevokeByHash, RevokeByUserExcept, Delete,
       LoadBindingKeys, Prune, Open, Goto, rows, history
<1>2. ASSUME NEW t \in Txs, Progress(t) PROVE BindingsKept
  <2>1. CASE Acquire(t) \/ LoadCommit(t) \/ SaveRefused(t) \/ DeleteDoom(t)
      BY <2>1, RowsKeepBindings DEF Acquire, LoadCommit, SaveRefused, DeleteDoom, Goto, rows, history
  <2>2. CASE DeadlockDetected(t)
      BY <2>2, RetryKeepsBindings DEF DeadlockDetected
  <2>3. CASE BindRead(t) \/ BindCommit(t) \/ RevokeCommit(t) \/ PruneCommit(t)
      BY <2>3, RowsKeepBindings
         DEF BindRead, BindCommit, RevokeCommit, PruneCommit, Goto, rows, history
  <2>4. CASE DeleteRecheck(t)
      BY <2>4, RowsKeepBindings, RetryKeepsBindings DEF DeleteRecheck, Goto, rows, history
  <2> QED
      BY <1>2, <2>1, <2>2, <2>3, <2>4, DeleteKeepsBindings DEF Progress
<1>3. ASSUME NEW ks, DeleteAuthorizations(ks) PROVE BindingsKept
    BY <1>3, RowsKeepBindings DEF DeleteAuthorizations, history
<1>4. ASSUME NEW k \in PermKeys, Logout(k) \/ Observe(k) PROVE BindingsKept
    BY <1>3, <1>4, RowsKeepBindings DEF Logout, Observe, history
<1>5. ASSUME NEW k \in PermKeys, NEW u \in Users, DeleteByHash(k, u) \/ DeleteByUserExcept(k, u)
      PROVE  BindingsKept
    BY <1>3, <1>5 DEF DeleteByHash, DeleteByUserExcept
<1>6. ASSUME NEW u \in Users, Publish(u) PROVE BindingsKept
    BY <1>6, RowsKeepBindings DEF Publish, history
<1>7. Quiet => BindingsKept
    BY RowsKeepBindings DEF Quiet, vars
<1> QED
    BY <1>1, <1>2, <1>4, <1>5, <1>6, <1>7 DEF Next

(* A binding that was confirmed stands while its keys are there.           *)
ConfirmedInv ==
    \A temp \in TempKeys, perm \in PermKeys :
        <<temp, perm>> \in confirmed /\ {temp, perm} \subseteq auth_keys => bindings[temp] = perm

(* A bind that is answered ok has made the binding, or found it made.      *)
LEMMA SaveKeepsConfirmed ==
    ASSUME IdentityInv, ConfirmedInv, NEW t \in Txs, SaveCommit(t)
    PROVE  ConfirmedInv'
<1>1. PICK k \in TempKeys, p \in PermKeys : k = tx[t].key /\ p = tx[t].perm
  <2>1. Good(tx[t]) /\ tx[t].op = "save"
      BY DEF SaveCommit, At, IdentityInv, TxInv
  <2> QED
      BY <2>1 DEF Good, Shape
<1>2. bindings \in [TempKeys -> PermKeys \cup {None}] /\ auth_keys' = auth_keys
    BY DEF SaveCommit, IdentityInv, TypeOK
<1>3. CASE BindStatus(k, p) = "ok"
  <2>1. bindings' = [bindings EXCEPT ![k] = p] /\ confirmed' = confirmed \cup {<<k, p>>}
      BY <1>1, <1>3 DEF SaveCommit, Succeeds
  <2>2. bindings[k] \in {None, p} /\ p # None
      BY <1>3, NoneIsNoKey DEF BindStatus
  <2>3. ASSUME NEW temp \in TempKeys, NEW perm \in PermKeys, <<temp, perm>> \in confirmed',
               {temp, perm} \subseteq auth_keys
        PROVE  bindings'[temp] = perm
    <3>1. CASE <<temp, perm>> = <<k, p>>
        BY <1>2, <2>1, <3>1
    <3>2. CASE <<temp, perm>> \in confirmed
      <4>1. bindings[temp] = perm /\ perm # None
          BY <2>3, <3>2, NoneIsNoKey DEF ConfirmedInv
      <4> QED
          BY <1>2, <2>1, <2>2, <4>1
    <3> QED
        BY <2>1, <2>3, <3>1, <3>2
  <2> QED
      BY <1>2, <2>3 DEF ConfirmedInv
<1>4. CASE BindStatus(k, p) # "ok"
  <2>1. bindings' = bindings /\ confirmed' = confirmed
      BY <1>1, <1>4 DEF SaveCommit, Succeeds
  <2> QED
      BY <1>2, <2>1 DEF ConfirmedInv
<1> QED
    BY <1>3, <1>4

(* A client that was answered ok is answered ok again when it repeats the   *)
(* call, as long as both keys are there, whatever others do meanwhile.     *)
THEOREM RepeatedBindsAccepted == Spec => []RepeatedBindAccepted
<1>1. Init => ConfirmedInv
    BY DEF Init, ConfirmedInv
<1>2. IdentityInv /\ ConfirmedInv /\ [Next]_vars => ConfirmedInv'
  <2> SUFFICES ASSUME IdentityInv, ConfirmedInv, [Next]_vars PROVE ConfirmedInv'
      OBVIOUS
  <2>1. CASE UNCHANGED vars
      BY <2>1 DEF vars, ConfirmedInv
  <2>2. CASE Next /\ \A t \in Txs : ~ SaveCommit(t)
    <3>1. BindingsKept
        BY <2>2, NextKeepsBindings
    <3> QED
        BY <3>1 DEF BindingsKept, ConfirmedInv
  <2> QED
      BY <2>1, <2>2, SaveKeepsConfirmed
<1>3. ConfirmedInv => RepeatedBindAccepted
    BY DEF ConfirmedInv, RepeatedBindAccepted, BindStatus, Succeeds
<1> QED
    BY <1>1, <1>2, <1>3, Invariance, PTL DEF Spec
-----------------------------------------------------------------------------
(* No deadlock among the transactions of WithAuthIdentityTx.               *)

(* A transaction that waits holds only locks before the one it waits for,  *)
(* and all it wants of a lower level.                                      *)
LEMMA WaitsInOrder ==
    ASSUME IdentityInv, NEW t \in Txs, Waiting(t)
    PROVE  /\ Head(tx[t].todo) \in Wants(tx[t]) /\ Head(tx[t].todo) \in Locks
           /\ holder[Head(tx[t].todo)] # t
           /\ \A l \in Locks : holder[l] = t => l \in Wants(tx[t]) /\ Before(l, Head(tx[t].todo))
           /\ \A l \in Wants(tx[t]) : Level(l) < Level(Head(tx[t].todo)) => holder[l] = t
<1>1. PICK x : x = tx[t] /\ x # None /\ x.todo # <<>> /\ Good(x)
    BY DEF Waiting, IdentityInv, TxInv
<1>2. PICK s \in Seq(Locks) : s = x.todo /\ Len(s) \in Nat /\ Len(s) > 0 /\ Planned(s, Wants(x))
    BY <1>1, EmptySeq, LenProperties DEF Good, Planned
<1>3. 1 \in 1 .. Len(s) /\ Head(s) = s[1] /\ s[1] \in Locks /\ s[1] \in Wants(x)
  <2>1. 1 \in 1 .. Len(s) /\ Head(s) = s[1]
      BY <1>2
  <2> QED
      BY <1>2, <2>1, ElementOfSeq DEF Planned
<1>4. InTodo(s[1], s)
    BY <1>3 DEF InTodo
<1>5. holder[s[1]] # t
    BY <1>1, <1>2, <1>3, <1>4 DEF IdentityInv, LockInv, Held
<1>6. ASSUME NEW l \in Locks, holder[l] = t PROVE l \in Wants(x) /\ Before(l, s[1])
  <2>1. l \in Wants(x) /\ ~ InTodo(l, s)
      BY <1>1, <1>2, <1>6 DEF IdentityInv, LockInv, Held
  <2> QED
      BY <1>2, <1>3, <2>1 DEF Planned, InTodo
<1>7. ASSUME NEW l \in Wants(x), Level(l) < Level(s[1]) PROVE holder[l] = t
  <2>1. l \in Locks
      BY <1>1, WantsLocks
  <2>2. ASSUME InTodo(l, s) PROVE FALSE
    <3>1. PICK i \in 1 .. Len(s) : s[i] = l
        BY <2>2 DEF InTodo
    <3>2. Levels(l) /\ Levels(s[1])
        BY <1>3, <2>1, LevelsOfLocks
    <3>3. i # 1
        BY <1>7, <3>1, <3>2 DEF Levels
    <3>4. \A j \in i .. Len(s) : s[j] # s[1]
      <4>1. \A j \in i .. Len(s) : j \in 1 .. Len(s) /\ 1 < j
          BY <1>2, <3>3
      <4> QED
          BY <1>2, <1>3, <4>1 DEF Planned
    <3>5. Before(s[1], l)
        BY <1>2, <1>3, <3>1, <3>4 DEF Planned
    <3> QED
        BY <1>7, <3>2, <3>5 DEF Before, Levels
  <2> QED
      BY <1>1, <1>2, <2>1, <2>2 DEF IdentityInv, LockInv, Held
<1> QED
    BY <1>1, <1>2, <1>3, <1>5, <1>6, <1>7

(* Whoever wants the row of a permanent key wants its identity, first.     *)
LEMMA WantsIdentity ==
    ASSUME NEW x, Good(x), x.op \in IdentityOps, NEW k \in PermKeys, KeyLock(k) \in Wants(x)
    PROVE  IdentityLock(k) \in Wants(x)
<1>0. Shape(x) /\ k \notin TempKeys
    BY KeysFinite DEF Good
<1>1. ASSUME NEW j, KeyLock(j) = KeyLock(k) PROVE j = k
    BY <1>1 DEF KeyLock
<1>2. KeyLock(k)[1] = "key" /\ \A j : IdentityLock(j) # KeyLock(k)
    BY LockParts
<1>3. CASE x.op = "bind"
  <2>1. /\ <<"user", x.user>> # KeyLock(k) /\ <<"watermark", x.user>> # KeyLock(k)
        /\ <<"retention", x.user>> # KeyLock(k)
      BY LockParts
  <2>2. k = x.key
      BY <1>1, <1>2, <1>3, <2>1 DEF Wants
  <2> QED
      BY <1>3, <2>2 DEF Wants
<1>4. CASE x.op = "save"
  <2>1. k = x.perm
      BY <1>0, <1>1, <1>2, <1>4 DEF Wants, Shape
  <2> QED
      BY <1>4, <2>1 DEF Wants
<1>5. CASE x.op = "revoke"
  <2>1. k \in x.targets
      BY <1>1, <1>2, <1>5 DEF Wants
  <2> QED
      BY <1>5, <2>1 DEF Wants
<1>6. CASE x.op = "delete"
  <2>1. k = x.key \/ (x.bound /\ k = x.perm) \/ (x.pc = "commit" /\ k \in x.targets)
      BY <1>1, <1>2, <1>6 DEF Wants
  <2>2. k = x.key \/ (x.bound /\ k = x.perm)
      BY <1>0, <1>6, <2>1 DEF Shape
  <2> QED
      BY <1>6, <2>2 DEF Wants
<1> QED
    BY <1>3, <1>4, <1>5, <1>6 DEF IdentityOps

(* Only the deletion of a permanent key wants two temporary ones.          *)
LEMMA WantsTwoTemporary ==
    ASSUME NEW x, Good(x), x.op \in IdentityOps, NEW j \in TempKeys, NEW k \in TempKeys, j # k,
           KeyLock(j) \in Wants(x), KeyLock(k) \in Wants(x)
    PROVE  /\ x.op = "delete" /\ x.pc = "commit" /\ x.key \in PermKeys
           /\ j \in x.targets /\ k \in x.targets
<1>0. Shape(x) /\ j \notin PermKeys /\ k \notin PermKeys
    BY KeysFinite DEF Good
<1>1. ASSUME NEW a, NEW b, KeyLock(a) = KeyLock(b) PROVE a = b
    BY <1>1 DEF KeyLock
<1>2. \A a, b : IdentityLock(a) # KeyLock(b)
    BY LockParts
<1>3. CASE x.op = "bind"
  <2>1. \A b : /\ <<"user", x.user>> # KeyLock(b) /\ <<"watermark", x.user>> # KeyLock(b)
               /\ <<"retention", x.user>> # KeyLock(b)
      BY LockParts
  <2> QED
      BY <1>1, <1>2, <1>3, <2>1 DEF Wants
<1>4. CASE x.op = "save"
    BY <1>0, <1>1, <1>2, <1>4 DEF Wants, Shape
<1>5. CASE x.op = "revoke"
    BY <1>0, <1>1, <1>2, <1>5 DEF Wants, Shape
<1>6. CASE x.op = "delete"
  <2>1. ASSUME NEW i \in {j, k}
        PROVE  i = x.key \/ (x.pc = "commit" /\ i \in x.targets)
    <3>1. i = x.key \/ (x.bound /\ i = x.perm) \/ (x.pc = "commit" /\ i \in x.targets)
        BY <1>1, <1>2, <1>6 DEF Wants
    <3> QED
        BY <1>0, <1>6, <3>1 DEF Shape
  <2>2. x.pc = "commit" /\ x.targets # {}
      BY <2>1
  <2>3. x.key \in PermKeys /\ x.key \notin TempKeys
      BY <1>0, <1>6, <2>2, KeysFinite DEF Shape
  <2> QED
      BY <1>6, <2>1, <2>2, <2>3
<1> QED
    BY <1>3, <1>4, <1>5, <1>6 DEF IdentityOps

(* A finite set of numbers has a greatest one.                             *)
LEMMA Greatest ==
    ASSUME NEW S \in SUBSET Nat, IsFiniteSet(S), S # {}
    PROVE  \E m \in S : \A n \in S : n <= m
<1>1. PICK n \in Nat : Lists(Ascending(S), S, n)
    BY AscendingLists
<1>2. PICK a : a = Ascending(S) /\ Lists(a, S, n)
    BY <1>1
<1>3. n \in 1 .. n
  <2>1. PICK x \in S : TRUE
      OBVIOUS
  <2>2. PICK i \in 1 .. n : a[i] = x
      BY <1>2 DEF Lists
  <2> QED
      BY <2>2
<1>4. a[n] \in S
    BY <1>2, <1>3 DEF Lists
<1>5. ASSUME NEW x \in S PROVE x <= a[n]
  <2>1. PICK i \in 1 .. n : a[i] = x
      BY <1>2 DEF Lists
  <2>2. CASE i = n
      BY <1>4, <2>1, <2>2
  <2>3. CASE i # n
    <3>1. i < n
        BY <2>3
    <3>2. a[i] < a[n]
        BY <1>2, <1>3, <3>1 DEF Lists
    <3>3. x \in Nat /\ a[n] \in Nat
        BY <1>4
    <3> QED
        BY <2>1, <3>2, <3>3
  <2> QED
      BY <2>2, <2>3
<1> QED
    BY <1>4, <1>5

(* Bind, revocation, deletion and SaveWithState never wait for each other   *)
(* in a circle: nobody among them waits for the baseline of a user, for    *)
(* its holder would want nothing more; nor for the row of a permanent key, *)
(* for both hold its identity; nor for that of a temporary key, for its    *)
(* holder and the next one delete the same permanent key; nor for an       *)
(* identity, the greatest of which is held by one who waits for none; nor  *)
(* for a user, which only a Bind holds, that waits for one of the others.  *)
LEMMA NoCircle ==
    IdentityInv => IdentityTxsNeverDeadlock
<1> SUFFICES ASSUME IdentityInv, NEW S \in SUBSET {t \in Txs : Waiting(t) /\ tx[t].op \in IdentityOps},
                    Stuck(S)
             PROVE  FALSE
    BY DEF IdentityTxsNeverDeadlock
<1> DEFINE w(t) == Head(tx[t].todo)
<1>1. ASSUME NEW t \in S
      PROVE  /\ t \in Txs /\ Waiting(t) /\ tx[t].op \in IdentityOps /\ Good(tx[t])
             /\ tx[t] # None
             /\ w(t) \in Locks /\ w(t) \in Wants(tx[t]) /\ Levels(w(t))
             /\ \A l \in Wants(tx[t]) : Level(l) < Level(w(t)) => holder[l] = t
  <2>1. t \in Txs /\ Waiting(t) /\ tx[t].op \in IdentityOps /\ Good(tx[t]) /\ tx[t] # None
      BY DEF IdentityInv, TxInv, Waiting
  <2> QED
      BY <2>1, WaitsInOrder, LevelsOfLocks
<1>2. ASSUME NEW t \in S
      PROVE  \E h \in S : /\ h # t /\ holder[w(t)] = h /\ w(t) \in Wants(tx[h])
                          /\ Before(w(t), w(h))
  <2>1. PICK h \in S : h # t /\ holder[w(t)] = h
      BY DEF Stuck
  <2> QED
      BY <1>1, <2>1, WaitsInOrder
<1> HIDE DEF w
<1>3. ASSUME NEW t \in S PROVE w(t)[1] # "retention"
  <2>1. PICK h \in S : Before(w(t), w(h))
      BY <1>2
  <2> QED
      BY <1>1, <2>1 DEF Before, Levels
<1>4. ASSUME NEW t \in S PROVE w(t)[1] # "watermark"
  <2>1. PICK h \in S : Before(w(t), w(h))
      BY <1>2
  <2> QED
      BY <1>1, <1>3, <2>1 DEF Before, Levels
<1>5. ASSUME NEW t \in S, w(t)[1] = "key"
      PROVE  \E k \in TempKeys : w(t) = KeyLock(k)
  <2>1. PICK k \in Keys : w(t) = KeyLock(k)
      BY <1>1, <1>5 DEF Locks, KeyLock
  <2>2. ASSUME k \in PermKeys PROVE FALSE
    <3>1. PICK h \in S : h # t /\ w(t) \in Wants(tx[h]) /\ Before(w(t), w(h))
        BY <1>2
    <3>2. Level(w(t)) = 2 /\ Level(w(h)) >= 2 /\ Level(w(h)) \in Nat
        BY <1>1, <1>5, <3>1 DEF Before, Levels
    <3>3. IdentityLock(k) \in Wants(tx[t]) /\ IdentityLock(k) \in Wants(tx[h])
        BY <1>1, <2>1, <2>2, <3>1, WantsIdentity
    <3>4. Level(IdentityLock(k)) = 1
        BY LockLevels
    <3>5. holder[IdentityLock(k)] = t
        BY <1>1, <3>2, <3>3, <3>4
    <3>6. holder[IdentityLock(k)] = h
        BY <1>1, <3>2, <3>3, <3>4
    <3> QED
        BY <3>1, <3>5, <3>6
  <2> QED
      BY <2>1, <2>2, KeysFinite
<1>6. ASSUME NEW t \in S, w(t)[1] = "key"
      PROVE  \E h \in S : /\ h # t /\ w(h)[1] = "key"
                          /\ holder[IdentityLock(tx[h].key)] = h
                          /\ \A k \in TempKeys : w(t) = KeyLock(k) \/ w(h) = KeyLock(k)
                                                    => bindings[k] = tx[h].key
  <2>1. PICK h \in S : /\ h # t /\ w(t) \in Wants(tx[h]) /\ Before(w(t), w(h)) /\ holder[w(t)] = h
      BY <1>2
  <2>2. w(h)[1] = "key"
      BY <1>1, <1>3, <1>4, <1>6, <2>1 DEF Before, Levels
  <2>3. PICK j \in TempKeys : w(t) = KeyLock(j)
      BY <1>5, <1>6
  <2>4. PICK k \in TempKeys : w(h) = KeyLock(k)
      BY <1>5, <2>2
  <2>5. j # k
    <3>1. holder[w(h)] # h
        BY <1>2
    <3> QED
        BY <2>1, <2>3, <2>4, <3>1
  <2>6. /\ tx[h].op = "delete" /\ tx[h].pc = "commit" /\ tx[h].key \in PermKeys
        /\ j \in tx[h].targets /\ k \in tx[h].targets
      BY <1>1, <2>1, <2>3, <2>4, <2>5, WantsTwoTemporary
  <2>7. holder[IdentityLock(tx[h].key)] = h
      BY <1>1, <2>6, DeleteHolds DEF IdentityInv
  <2>8. bindings[j] = tx[h].key /\ bindings[k] = tx[h].key
      BY <1>1, <2>6 DEF IdentityInv, DataInv, DeleteInv, BoundTo
  <2>9. ASSUME NEW i, KeyLock(i) = KeyLock(j) \/ KeyLock(i) = KeyLock(k) PROVE i = j \/ i = k
      BY <2>9 DEF KeyLock
  <2> QED
      BY <2>1, <2>2, <2>3, <2>4, <2>7, <2>8, <2>9
<1>7. ASSUME NEW t \in S PROVE w(t)[1] # "key"
  <2> SUFFICES ASSUME w(t)[1] = "key" PROVE FALSE
      OBVIOUS
  <2>1. PICK h \in S : /\ w(h)[1] = "key" /\ holder[IdentityLock(tx[h].key)] = h
                       /\ \A k \in TempKeys : w(h) = KeyLock(k) => bindings[k] = tx[h].key
      BY <1>6
  <2>2. PICK g \in S : /\ g # h /\ holder[IdentityLock(tx[g].key)] = g
                       /\ \A k \in TempKeys : w(h) = KeyLock(k) => bindings[k] = tx[g].key
      BY <1>6, <2>1
  <2>3. PICK k \in TempKeys : w(h) = KeyLock(k)
      BY <1>5, <2>1
  <2> QED
      BY <2>1, <2>2, <2>3
<1>8. ASSUME NEW t \in S PROVE w(t)[1] # "identity"
  <2> SUFFICES ASSUME w(t)[1] = "identity" PROVE FALSE
      OBVIOUS
  <2>1. PICK hs : hs = {Hash[k] : k \in PermKeys}
      OBVIOUS
  <2>2. hs \subseteq Nat /\ IsFiniteSet(hs)
    <3>1. [k \in PermKeys |-> Hash[k]] \in Surjection(PermKeys, hs)
        BY <2>1 DEF Surjection
    <3> QED
        BY <2>1, <3>1, KeysFinite, FS_Surjection
  <2>3. ASSUME NEW r \in S, w(r)[1] = "identity" PROVE w(r)[2] \in hs
      BY <1>1, <2>1, <2>3 DEF Locks
  <2>4. PICK T : T = {n \in hs : \E r \in S : w(r)[1] = "identity" /\ w(r)[2] = n}
      OBVIOUS
  <2>5. T \in SUBSET Nat /\ IsFiniteSet(T) /\ T # {}
      BY <2>2, <2>3, <2>4, FS_Subset
  <2>6. PICK m \in T : \A n \in T : n <= m
      BY <2>5, Greatest
  <2>7. PICK r \in S : w(r)[1] = "identity" /\ w(r)[2] = m
      BY <2>4
  <2>8. PICK h \in S : Before(w(r), w(h))
      BY <1>2
  <2>9. w(h)[1] = "identity" /\ m < w(h)[2]
      BY <1>1, <1>3, <1>4, <1>7, <2>7, <2>8 DEF Before, Levels
  <2>10. w(h)[2] \in T
      BY <2>3, <2>4, <2>9
  <2>11. w(h)[2] <= m /\ m \in Nat /\ w(h)[2] \in Nat
      BY <2>5, <2>6, <2>10
  <2> QED
      BY <2>9, <2>11
<1>9. PICK t \in S : TRUE
    BY DEF Stuck
<1>10. PICK h \in S : Before(w(t), w(h))
    BY <1>2, <1>9
<1>11. w(t)[1] = "user" /\ w(h)[1] = "user"
    BY <1>1, <1>3, <1>4, <1>7, <1>8 DEF Levels
<1> QED
    BY <1>1, <1>10, <1>11 DEF Before, Levels

(* Whatever the interleaving, and even if hashes collide, the transactions *)
(* of WithAuthIdentityTx do not deadlock against each other.               *)
THEOREM NeverDeadlock == Spec => []IdentityTxsNeverDeadlock
BY Invariance, NoCircle, PTL
=============================================================================
