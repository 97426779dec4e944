------------------------- MODULE AuthSessionsProofs -------------------------
(***************************************************************************)
(* Proofs about AuthSessions, for every number of registrations, emails,   *)
(* clients and processes, every limit and every lifetime of the tokens:    *)
(* its types, and all that accounts, sessions and limiter promise.         *)
(***************************************************************************)
EXTENDS AuthSessions, FiniteSetTheorems, SequenceTheorems, TLAPS

\* An email is held by one open transaction at most, and by none once a user
\* has it.
EmailsAreHeld ==
    \A r, q \in Registration :
        /\ pc[r] = "flushed" => email[r] \notin users
        /\ pc[r] = "flushed" /\ pc[q] = "flushed" /\ email[r] = email[q] => r = q

\* A token of a known user has times in order and expires in the last second of
\* its lifetime; what it was bought with had not expired when it was looked at.
TokenIsTrue(t, at, known) ==
    /\ t.user \in known
    /\ t.since <= t.checked /\ t.checked <= t.issued /\ t.issued <= at
    /\ t.checked <= t.since + REFRESH
    /\ t.kind = "refresh" => t.issued = t.since
    /\ t.exp <= t.issued + Lifetime(t.kind)
    /\ t.issued + Lifetime(t.kind) < t.exp + TICK

TokensAreTrue == \A t \in tokens : TokenIsTrue(t, now, users)

RefreshIsTrue(c, at) ==
    c.since <= c.checked /\ c.checked <= at /\ c.checked <= c.since + REFRESH

RefreshesAreTrue == \A c \in refreshes : RefreshIsTrue(c, now)

\* What the settings have is what all processes sign with.
SecretIsShared ==
    provided => /\ \A p \in Process : secret[p] = 0
                /\ \A t \in tokens : t.secret = 0

Ascending(s) == \A i, j \in 1 .. Len(s) : i <= j => s[i] <= s[j]

\* A queue is in order, and what it has of the window is what was admitted.
QueuesAreTrue ==
    \A k \in Key : Ascending(attempts[k]) /\ admitted[k] = InWindow(attempts[k], now)

InductiveInv ==
    /\ TypeOK
    /\ RegisteredOnce
    /\ EmailsAreHeld
    /\ TokensAreTrue
    /\ RefreshesAreTrue
    /\ SecretIsShared
    /\ QueuesAreTrue

-----------------------------------------------------------------------------
(* Queues of times                                                         *)

LEMMA Suffix ==
    ASSUME NEW S, NEW s \in Seq(S), NEW n \in 0 .. Len(s)
    PROVE  /\ SubSeq(s, 1 + n, Len(s)) \in Seq(S)
           /\ Len(SubSeq(s, 1 + n, Len(s))) = Len(s) - n
           /\ \A i \in 1 .. Len(s) - n : SubSeq(s, 1 + n, Len(s))[i] = s[n + i]
<1>1. Len(s) \in Nat /\ \A i \in 1 .. Len(s) : s[i] \in S
  BY ElementOfSeq, LenProperties
<1>2. 1 + n \in Int /\ Len(s) \in Int /\ \A i \in (1 + n) .. Len(s) : s[i] \in S
  BY <1>1
<1>3. /\ SubSeq(s, 1 + n, Len(s)) \in Seq(S)
      /\ Len(SubSeq(s, 1 + n, Len(s))) = IF 1 + n <= Len(s) THEN Len(s) - (1 + n) + 1 ELSE 0
      /\ \A i \in 1 .. Len(s) - (1 + n) + 1 : SubSeq(s, 1 + n, Len(s))[i] = s[1 + n + i - 1]
  BY <1>2, SubSeqProperties
<1> QED BY <1>1, <1>3

\* A set of indices that holds all smaller ones is an interval.
LEMMA Initial ==
    ASSUME NEW m \in Nat, NEW S \in SUBSET (1 .. m), \A i \in S : 1 .. i \subseteq S
    PROVE  Cardinality(S) \in 0 .. m /\ S = 1 .. Cardinality(S)
<1> DEFINE n == Cardinality(S)
<1>1. IsFiniteSet(1 .. m) /\ Cardinality(1 .. m) = m
  BY 1 \in Int, m \in Int, FS_Interval
<1>2. IsFiniteSet(S) /\ n <= m /\ n \in Nat
  BY <1>1, FS_Subset, FS_CardinalityType
<1>3. ASSUME NEW i \in S PROVE i <= n
  <2>1. Cardinality(1 .. i) = i
    BY 1 \in Int, i \in Int, FS_Interval
  <2> QED BY <1>2, <2>1, FS_Subset
<1>4. IsFiniteSet(1 .. n) /\ Cardinality(1 .. n) = n
  BY <1>2, 1 \in Int, n \in Int, FS_Interval
<1>5. S \in SUBSET (1 .. n)
  BY <1>2, <1>3
<1>6. S = 1 .. n
  BY <1>4, <1>5, FS_Subset
<1> QED BY <1>2, <1>6

LEMMA RecentType ==
    ASSUME NEW S, NEW s \in Seq(S)
    PROVE  Recent(s) \in Seq(S) /\ Len(Recent(s)) <= Len(s)
<1> DEFINE old == {i \in DOMAIN s : \A j \in 1 .. i : s[j] + WINDOW <= now}
<1>1. Len(s) \in Nat /\ DOMAIN s = 1 .. Len(s)
  BY LenProperties
<1>2. Cardinality(old) \in 0 .. Len(s)
  BY <1>1, Initial
<1> HIDE DEF old
<1>3. /\ SubSeq(s, 1 + Cardinality(old), Len(s)) \in Seq(S)
      /\ Len(SubSeq(s, 1 + Cardinality(old), Len(s))) = Len(s) - Cardinality(old)
  BY <1>2, Suffix
<1>4. Recent(s) = SubSeq(s, 1 + Cardinality(old), Len(s))
  BY DEF Recent, old
<1> QED BY <1>1, <1>2, <1>3, <1>4

\* A queue in order is cut in two by a time: InWindow is what follows the cut.
LEMMA Cut ==
    ASSUME NEW s \in Seq(Nat), Ascending(s), NEW at \in Nat
    PROVE  \E n \in 0 .. Len(s) :
              /\ \A i \in 1 .. Len(s) : s[i] + WINDOW <= at <=> i <= n
              /\ InWindow(s, at) = SubSeq(s, 1 + n, Len(s))
<1> DEFINE old == {i \in DOMAIN s : s[i] + WINDOW <= at}
<1>1. /\ Len(s) \in Nat /\ DOMAIN s = 1 .. Len(s)
      /\ \A i \in 1 .. Len(s) : s[i] \in Nat
      /\ WINDOW \in Nat
  BY LenProperties, ElementOfSeq, LimitAssumption
<1>2. ASSUME NEW i \in old PROVE 1 .. i \subseteq old
  BY <1>1 DEF Ascending
<1>3. Cardinality(old) \in 0 .. Len(s) /\ old = 1 .. Cardinality(old)
  BY <1>1, <1>2, Initial
<1>4. \A i \in 1 .. Len(s) : s[i] + WINDOW <= at <=> i <= Cardinality(old)
  <2> SUFFICES ASSUME NEW i \in 1 .. Len(s)
               PROVE  s[i] + WINDOW <= at <=> i <= Cardinality(old)
    OBVIOUS
  <2>1. s[i] + WINDOW <= at <=> i \in old
    BY <1>1
  <2> HIDE DEF old
  <2>2. i \in old <=> i <= Cardinality(old)
    BY <1>3
  <2> QED BY <2>1, <2>2
<1>5. InWindow(s, at) = SubSeq(s, 1 + Cardinality(old), Len(s))
  BY DEF InWindow
<1> HIDE DEF old
<1> QED BY <1>3, <1>4, <1>5

\* Popping from the front of a queue in order leaves what is in the window.
LEMMA PoppedInOrder ==
    ASSUME NEW s \in Seq(Nat), Ascending(s), now \in Nat
    PROVE  Recent(s) = InWindow(s, now)
<1>1. /\ Len(s) \in Nat /\ DOMAIN s = 1 .. Len(s)
      /\ \A i \in 1 .. Len(s) : s[i] \in Nat
      /\ WINDOW \in Nat
  BY LenProperties, ElementOfSeq, LimitAssumption
<1>2. ASSUME NEW i \in DOMAIN s
      PROVE  s[i] + WINDOW <= now <=> \A j \in 1 .. i : s[j] + WINDOW <= now
  <2>1. ASSUME s[i] + WINDOW <= now, NEW j \in 1 .. i PROVE s[j] + WINDOW <= now
    BY <1>1, <2>1 DEF Ascending
  <2> QED BY <1>1, <2>1
<1>3. {i \in DOMAIN s : s[i] + WINDOW <= now} =
          {i \in DOMAIN s : \A j \in 1 .. i : s[j] + WINDOW <= now}
  BY <1>2
<1> QED BY <1>3, Zenon DEF Recent, InWindow

LEMMA InWindowType ==
    ASSUME NEW s \in Seq(Nat), Ascending(s), NEW at \in Nat
    PROVE  /\ InWindow(s, at) \in Seq(Nat)
           /\ Len(InWindow(s, at)) <= Len(s)
           /\ Ascending(InWindow(s, at))
<1>1. PICK n \in 0 .. Len(s) : InWindow(s, at) = SubSeq(s, 1 + n, Len(s))
  BY Cut
<1>2. /\ InWindow(s, at) \in Seq(Nat)
      /\ Len(InWindow(s, at)) = Len(s) - n
      /\ \A i \in 1 .. Len(s) - n : InWindow(s, at)[i] = s[n + i]
  BY <1>1, Suffix
<1>3. Len(s) \in Nat
  BY LenProperties
<1>4. ASSUME NEW i \in 1 .. Len(s) - n, NEW j \in 1 .. Len(s) - n, i <= j
      PROVE  InWindow(s, at)[i] <= InWindow(s, at)[j]
  <2>1. n + i \in 1 .. Len(s) /\ n + j \in 1 .. Len(s) /\ n + i <= n + j
    BY <1>3, <1>4
  <2> QED BY <1>2, <2>1 DEF Ascending
<1>5. Ascending(InWindow(s, at))
  BY <1>2, <1>4 DEF Ascending
<1> QED BY <1>2, <1>3, <1>5

\* A window that moves on can be taken from the window before.
LEMMA WindowMovesOn ==
    ASSUME NEW s \in Seq(Nat), Ascending(s), NEW a \in Nat, NEW b \in Nat, a <= b
    PROVE  InWindow(InWindow(s, a), b) = InWindow(s, b)
<1> DEFINE t == InWindow(s, a)
<1>1. Len(s) \in Nat /\ WINDOW \in Nat /\ \A i \in 1 .. Len(s) : s[i] \in Nat
  BY LenProperties, ElementOfSeq, LimitAssumption
<1>2. t \in Seq(Nat) /\ Ascending(t)
  BY InWindowType
<1>3. PICK n \in 0 .. Len(s) :
          /\ \A i \in 1 .. Len(s) : s[i] + WINDOW <= a <=> i <= n
          /\ t = SubSeq(s, 1 + n, Len(s))
  BY Cut
<1>4. PICK m \in 0 .. Len(s) :
          /\ \A i \in 1 .. Len(s) : s[i] + WINDOW <= b <=> i <= m
          /\ InWindow(s, b) = SubSeq(s, 1 + m, Len(s))
  BY Cut
<1> HIDE DEF t
<1>5. PICK l \in 0 .. Len(t) :
          /\ \A i \in 1 .. Len(t) : t[i] + WINDOW <= b <=> i <= l
          /\ InWindow(t, b) = SubSeq(t, 1 + l, Len(t))
  BY <1>2, Cut
<1>6. /\ Len(t) = Len(s) - n
      /\ \A i \in 1 .. Len(s) - n : t[i] = s[n + i]
  BY <1>3, Suffix
<1>7. n <= m
  <2>1. CASE n = 0
    BY <2>1
  <2>2. CASE n # 0
    <3>1. n \in 1 .. Len(s) /\ s[n] + WINDOW <= a
      BY <2>2, <1>3
    <3>2. s[n] + WINDOW <= b
      BY <1>1, <3>1
    <3> QED BY <1>4, <3>1, <3>2
  <2> QED BY <2>1, <2>2
<1>8. \A i \in 1 .. Len(s) - n : n + i <= m <=> i <= l
  <2> SUFFICES ASSUME NEW i \in 1 .. Len(s) - n PROVE n + i <= m <=> i <= l
    OBVIOUS
  <2>1. n + i \in 1 .. Len(s) /\ t[i] = s[n + i] /\ i \in 1 .. Len(t)
    BY <1>1, <1>6
  <2> QED BY <1>4, <1>5, <2>1
<1>9. l = m - n
  <2>1. n \in Nat /\ m \in Nat /\ l \in Nat /\ l <= Len(s) - n /\ m <= Len(s)
    BY <1>1, <1>6
  <2>2. l <= m - n
    <3>1. CASE l = 0
      BY <1>7, <2>1, <3>1
    <3>2. CASE l # 0
      BY <1>1, <1>8, <2>1, <3>2
    <3> QED BY <3>1, <3>2
  <2>3. m - n <= l
    <3>1. CASE m = n
      BY <2>1, <3>1
    <3>2. CASE m # n
      <4>1. m - n \in 1 .. Len(s) - n
        BY <1>1, <1>7, <2>1, <3>2
      <4> QED BY <1>8, <2>1, <4>1
    <3> QED BY <3>1, <3>2
  <2> QED BY <2>1, <2>2, <2>3
<1>10. SubSeq(t, 1 + l, Len(t)) = SubSeq(s, 1 + m, Len(s))
  <2> DEFINE u == SubSeq(t, 1 + l, Len(t))
             v == SubSeq(s, 1 + m, Len(s))
  <2>1. /\ u \in Seq(Nat) /\ Len(u) = Len(t) - l
        /\ \A i \in 1 .. Len(t) - l : u[i] = t[l + i]
    BY <1>2, Suffix
  <2>2. /\ v \in Seq(Nat) /\ Len(v) = Len(s) - m
        /\ \A i \in 1 .. Len(s) - m : v[i] = s[m + i]
    BY Suffix
  <2> HIDE DEF u, v
  <2>3. Len(u) = Len(v)
    BY <1>1, <1>6, <1>9, <2>1, <2>2
  <2>4. ASSUME NEW i \in 1 .. Len(u) PROVE u[i] = v[i]
    <3>1. u[i] = t[l + i] /\ l + i \in 1 .. Len(s) - n
      BY <1>1, <1>6, <2>1
    <3>2. v[i] = s[m + i]
      BY <2>2, <2>3
    <3>3. t[l + i] = s[n + (l + i)] /\ n + (l + i) = m + i
      BY <1>6, <1>9, <3>1
    <3> QED BY <3>1, <3>2, <3>3
  <2>5. u = v
    BY <2>1, <2>2, <2>3, <2>4, SeqEqual
  <2> QED BY <2>5 DEF u, v
<1> QED BY <1>4, <1>5, <1>10 DEF t

\* What is admitted now is the last of the queue, and in the window.
LEMMA AdmittedNow ==
    ASSUME NEW s \in Seq(0 .. now), Ascending(s), now \in Nat, InWindow(s, now) = s
    PROVE  /\ Append(s, now) \in Seq(0 .. now)
           /\ Len(Append(s, now)) = Len(s) + 1
           /\ Ascending(Append(s, now))
           /\ InWindow(Append(s, now), now) = Append(s, now)
<1> DEFINE t == Append(s, now)
<1>1. now \in 0 .. now /\ Len(s) \in Nat
  BY LenProperties
<1>2. /\ t \in Seq(0 .. now) /\ Len(t) = Len(s) + 1
      /\ \A i \in 1 .. Len(s) : t[i] = s[i]
      /\ t[Len(s) + 1] = now
  BY <1>1, AppendProperties
<1>3. s \in Seq(Nat) /\ t \in Seq(Nat)
  BY <1>2, 0 .. now \subseteq Nat, SeqMonotonic
<1>4. \A i \in 1 .. Len(s) : s[i] \in 0 .. now
  BY ElementOfSeq
<1> HIDE DEF t
<1>5. Ascending(t)
  <2> SUFFICES ASSUME NEW i \in 1 .. Len(t), NEW j \in 1 .. Len(t), i <= j
               PROVE  t[i] <= t[j]
    BY DEF Ascending
  <2>1. CASE j \in 1 .. Len(s)
    <3>1. i \in 1 .. Len(s)
      BY <1>1, <1>2, <2>1
    <3> QED BY <1>2, <2>1, <3>1 DEF Ascending
  <2>2. CASE j = Len(s) + 1
    <3>1. t[i] \in 0 .. now
      BY <1>2, ElementOfSeq
    <3> QED BY <1>2, <2>2, <3>1
  <2> QED BY <1>1, <1>2, <2>1, <2>2
<1>6. \A i \in 1 .. Len(t) : ~(t[i] + WINDOW <= now)
  <2> SUFFICES ASSUME NEW i \in 1 .. Len(t) PROVE ~(t[i] + WINDOW <= now)
    OBVIOUS
  <2>1. PICK n \in 0 .. Len(s) :
            /\ \A j \in 1 .. Len(s) : s[j] + WINDOW <= now <=> j <= n
            /\ InWindow(s, now) = SubSeq(s, 1 + n, Len(s))
    BY <1>3, Cut
  <2>2. n = 0
    <3>1. Len(SubSeq(s, 1 + n, Len(s))) = Len(s) - n
      BY Suffix
    <3> QED BY <1>1, <2>1, <3>1
  <2>3. CASE i \in 1 .. Len(s)
    BY <1>2, <2>1, <2>2, <2>3
  <2>4. CASE i = Len(s) + 1
    BY <1>2, <2>4, LimitAssumption
  <2> QED BY <1>1, <1>2, <2>3, <2>4
<1>7. PICK n \in 0 .. Len(t) :
          /\ \A i \in 1 .. Len(t) : t[i] + WINDOW <= now <=> i <= n
          /\ InWindow(t, now) = SubSeq(t, 1 + n, Len(t))
  BY <1>3, <1>5, Cut
<1>8. n = 0
  <2>1. Len(t) \in Nat
    BY <1>1, <1>2
  <2> QED BY <1>6, <1>7, <2>1
<1>9. InWindow(t, now) = t
  BY <1>3, <1>7, <1>8, SubSeqFull
<1> QED BY <1>2, <1>5, <1>9 DEF t

-----------------------------------------------------------------------------
(* The invariant                                                           *)

LEMMA EmptyQueue ==
    ASSUME NEW at
    PROVE  /\ <<>> \in Seq(0 .. at) /\ Len(<<>>) = 0 /\ Ascending(<<>>)
           /\ InWindow(<<>>, at) = <<>>
<1>1. <<>> \in Seq(0 .. at) /\ Len(<<>>) = 0
  BY EmptySeq
<1>2. {i \in DOMAIN <<>> : <<>>[i] + WINDOW <= at} = {}
  OBVIOUS
<1>3. InWindow(<<>>, at) = SubSeq(<<>>, 1 + 0, 0)
  BY <1>1, <1>2, FS_EmptySet DEF InWindow
<1>4. SubSeq(<<>>, 1 + 0, 0) = <<>>
  BY 1 + 0 \in Int, 0 \in Int, 0 < 1 + 0, SubSeqEmpty
<1> QED BY <1>1, <1>3, <1>4 DEF Ascending

LEMMA Start == Init => InductiveInv
<1> SUFFICES ASSUME Init PROVE InductiveInv
  OBVIOUS
<1>1. /\ now = 0 /\ users = {} /\ restarts = 0
      /\ logins = {} /\ refreshes = {} /\ tokens = {}
      /\ pc = [r \in Registration |-> "new"]
      /\ email = [r \in Registration |-> ""]
      /\ attempts = [k \in Key |-> <<>>]
      /\ admitted = [k \in Key |-> <<>>]
  BY DEF Init
<1>2. provided \in BOOLEAN
  BY DEF Init
<1>3. secret \in [Process -> Nat]
  <2>1. Cardinality(Process) \in Nat
    BY ProcessAssumption, FS_CardinalityType
  <2>2. \/ secret = [p \in Process |-> 0]
        \/ secret \in [Process -> 1 .. Cardinality(Process)]
    BY Zenon DEF Init
  <2> QED BY <2>1, <2>2
<1>4. TypeOK
  <2>1. now \in 0 .. EndOfTime /\ restarts \in 0 .. MaxRestarts
    <3>1. now = 0 /\ restarts = 0
      BY <1>1
    <3> QED BY <3>1, BoundAssumption
  <2>2. /\ users \subseteq Email /\ tokens \subseteq Token
        /\ logins \subseteq LoginCall /\ refreshes \subseteq RefreshCall
    BY <1>1
  <2>3. pc \in [Registration -> {"new", "flushed", "created", "conflict", "failed"}]
    BY <1>1
  <2>4. email \in [Registration -> Email \cup {""}]
    BY <1>1
  <2>5. \A r \in Registration : pc[r] # "new" => email[r] \in Email
    BY <1>1
  <2>6. attempts \in [Key -> Seq(0 .. now)] /\ admitted \in [Key -> Seq(0 .. now)]
    BY <1>1, EmptyQueue
  <2>7. \A k \in Key : Len(attempts[k]) <= LIMIT
    <3>1. Len(<<>>) = 0 /\ 0 <= LIMIT
      BY EmptyQueue, LimitAssumption
    <3> QED BY <1>1, <3>1
  <2> QED BY <1>2, <1>3, <2>1, <2>2, <2>3, <2>4, <2>5, <2>6, <2>7, Zenon DEF TypeOK
<1>5. RegisteredOnce /\ EmailsAreHeld
  BY <1>1 DEF RegisteredOnce, EmailsAreHeld
<1>6. TokensAreTrue /\ RefreshesAreTrue
  BY <1>1 DEF TokensAreTrue, RefreshesAreTrue
<1>7. QueuesAreTrue
  BY <1>1, EmptyQueue DEF QueuesAreTrue
<1>8. SecretIsShared
  <2>1. provided => secret = [p \in Process |-> 0]
    BY Zenon DEF Init
  <2> QED BY <1>1, <2>1 DEF SecretIsShared
<1> QED BY <1>4, <1>5, <1>6, <1>7, <1>8, Zenon DEF InductiveInv

\* The types of numbers, apart from the rest.
LEMMA Numbers ==
    ASSUME TypeOK
    PROVE  /\ now \in Nat /\ restarts \in Nat
           /\ secret \in [Process -> Nat]
           /\ ACCESS \in Nat /\ REFRESH \in Nat
           /\ LIMIT \in Nat \ {0} /\ WINDOW \in Nat \ {0} /\ TICK \in Nat \ {0}
<1>1. now \in 0 .. EndOfTime /\ restarts \in 0 .. MaxRestarts /\ secret \in [Process -> Nat]
  BY DEF TypeOK
<1> QED BY <1>1, BoundAssumption, LimitAssumption, LifetimeAssumption

-----------------------------------------------------------------------------
(* Each step keeps it                                                      *)

LEMMA UsersStep == InductiveInv /\ [Next]_vars => RegisteredOnce' /\ EmailsAreHeld'
<1> SUFFICES ASSUME InductiveInv, [Next]_vars PROVE RegisteredOnce' /\ EmailsAreHeld'
  OBVIOUS
<1> USE DEF InductiveInv, TypeOK, RegisteredOnce, EmailsAreHeld
<1>1. ASSUME NEW r \in Registration, NEW e \in Email, FlushUser(r, e)
      PROVE  RegisteredOnce' /\ EmailsAreHeld'
  BY <1>1 DEF FlushUser
<1>2. ASSUME NEW r \in Registration, NEW e \in Email, RefuseUser(r, e)
      PROVE  RegisteredOnce' /\ EmailsAreHeld'
  BY <1>2 DEF RefuseUser
<1>3. ASSUME NEW r \in Registration, CommitUser(r)
      PROVE  RegisteredOnce' /\ EmailsAreHeld'
  BY <1>3 DEF CommitUser
<1>4. ASSUME NEW r \in Registration, AbortUser(r)
      PROVE  RegisteredOnce' /\ EmailsAreHeld'
  BY <1>4 DEF AbortUser
<1>5. CASE UNCHANGED account
  BY <1>5 DEF account
<1>6. ASSUME NEW c, \/ IssueBoth(c) \/ AbandonLogin(c)
                     \/ IssueAccess(c) \/ AbandonRefresh(c)
      PROVE  UNCHANGED account
  BY <1>6 DEF IssueBoth, AbandonLogin, IssueAccess, AbandonRefresh
<1>7. ASSUME NEW k \in Key, RefuseLogin(k) PROVE UNCHANGED account
  BY <1>7 DEF RefuseLogin
<1>8. ASSUME NEW q \in Request, \/ \E k \in Key : Admit(q, k)
                               \/ \E p \in Process, t \in tokens : CheckRefresh(q, p, t)
      PROVE  UNCHANGED account
  BY <1>8 DEF Admit, CheckRefresh
<1>9. ASSUME NEW p \in Process, Restart(p) PROVE UNCHANGED account
  BY <1>9 DEF Restart
<1>10. CASE Tick
  BY <1>5, <1>10 DEF Tick
<1>11. CASE UNCHANGED vars
  BY <1>5, <1>11 DEF vars
<1> QED BY <1>1, <1>2, <1>3, <1>4, <1>5, <1>6, <1>7, <1>8, <1>9, <1>10, <1>11, Zenon
        DEF Next

\* The expiry in whole seconds is in the last second of the lifetime.
LEMMA WholeSeconds ==
    ASSUME NEW x \in Nat
    PROVE  /\ (x \div TICK) * TICK \in Nat
           /\ (x \div TICK) * TICK <= x /\ x < (x \div TICK) * TICK + TICK
<1>1. TICK \in Nat /\ TICK > 0
  BY LimitAssumption
<1> DEFINE d == x \div TICK
           m == x % TICK
<1>2. d \in Nat /\ m \in 0 .. TICK - 1 /\ x = TICK * d + m
  BY <1>1
<1> HIDE DEF d, m
<1>3. d * TICK = TICK * d /\ TICK * d \in Nat
  BY <1>1, <1>2
<1>4. d * TICK \in Nat /\ d * TICK <= x /\ x < d * TICK + TICK
  BY <1>1, <1>2, <1>3
<1> QED BY <1>4 DEF d

LEMMA NewTokenIsTrue ==
    ASSUME TypeOK, NEW p \in Process, NEW e \in users, NEW kind \in Kind,
           NEW since \in Nat, NEW checked \in Nat,
           since <= checked, checked <= now, checked <= since + REFRESH,
           kind = "refresh" => since = now
    PROVE  /\ NewToken(p, e, kind, since, checked) \in Token
           /\ TokenIsTrue(NewToken(p, e, kind, since, checked), now, users)
           /\ NewToken(p, e, kind, since, checked).secret = secret[p]
<1>1. now \in Nat /\ Lifetime(kind) \in Nat /\ secret[p] \in Nat /\ e \in Email
  <2>1. users \subseteq Email
    BY DEF TypeOK
  <2> QED BY <2>1, Numbers DEF Lifetime
<1> DEFINE life == Lifetime(kind)
           exp == ((now + life) \div TICK) * TICK
<1>2. life \in Nat /\ now + life \in Nat
  BY <1>1
<1> HIDE DEF life
<1>3. exp \in Nat /\ exp <= now + life /\ now + life < exp + TICK
  BY <1>2, WholeSeconds
<1>4. NewToken(p, e, kind, since, checked) =
          [user |-> e, kind |-> kind, secret |-> secret[p], exp |-> exp,
           since |-> since, checked |-> checked, issued |-> now]
  BY DEF NewToken, life
<1> HIDE DEF exp
<1> DEFINE t == NewToken(p, e, kind, since, checked)
<1>5. /\ t.user = e /\ t.kind = kind /\ t.secret = secret[p] /\ t.exp = exp
      /\ t.since = since /\ t.checked = checked /\ t.issued = now
      /\ t \in Token
  BY <1>1, <1>3, <1>4 DEF Token
<1> HIDE DEF t
<1>6. TokenIsTrue(t, now, users)
  <2>1. Lifetime(t.kind) = life
    BY <1>5 DEF life
  <2>2. now <= now
    BY <1>1
  <2> QED BY <1>3, <1>5, <2>1, <2>2 DEF TokenIsTrue
<1> QED BY <1>5, <1>6 DEF t

\* Time passes and users come, and what was true of a token stays true.
LEMMA StaysTrue ==
    ASSUME NEW at \in Nat, NEW later \in Nat, at <= later,
           NEW known, NEW more, known \subseteq more
    PROVE  /\ \A t \in Token : TokenIsTrue(t, at, known) => TokenIsTrue(t, later, more)
           /\ \A c \in RefreshCall : RefreshIsTrue(c, at) => RefreshIsTrue(c, later)
<1>1. ASSUME NEW t \in Token, TokenIsTrue(t, at, known) PROVE TokenIsTrue(t, later, more)
  <2>1. t.issued \in Nat
    BY DEF Token
  <2>2. t.issued <= later
    BY <1>1, <2>1 DEF TokenIsTrue
  <2> QED BY <1>1, <2>2 DEF TokenIsTrue
<1>2. ASSUME NEW c \in RefreshCall, RefreshIsTrue(c, at) PROVE RefreshIsTrue(c, later)
  <2>1. c.checked \in Nat
    BY DEF RefreshCall
  <2> QED BY <1>2, <2>1 DEF RefreshIsTrue
<1> QED BY <1>1, <1>2

LEMMA TokensStep ==
    InductiveInv /\ [Next]_vars =>
        /\ logins' \subseteq LoginCall /\ refreshes' \subseteq RefreshCall
        /\ tokens' \subseteq Token
        /\ TokensAreTrue' /\ RefreshesAreTrue'
<1> DEFINE Goal == /\ logins' \subseteq LoginCall /\ refreshes' \subseteq RefreshCall
                   /\ tokens' \subseteq Token
                   /\ TokensAreTrue' /\ RefreshesAreTrue'
<1> SUFFICES ASSUME InductiveInv, [Next]_vars PROVE Goal
  OBVIOUS
<1>1. /\ TypeOK /\ TokensAreTrue /\ RefreshesAreTrue
      /\ logins \subseteq LoginCall /\ refreshes \subseteq RefreshCall
      /\ tokens \subseteq Token
  BY Zenon DEF InductiveInv, TypeOK
<1>2. /\ now \in Nat /\ ACCESS \in Nat /\ REFRESH \in Nat /\ TICK \in Nat
      /\ "access" \in Kind /\ "refresh" \in Kind
  BY <1>1, Numbers DEF Kind
<1>3. ASSUME logins' \subseteq logins, refreshes' \subseteq refreshes, tokens' \subseteq tokens,
             now' \in Nat, now <= now', users \subseteq users'
      PROVE  Goal
  <2>1. /\ \A t \in Token : TokenIsTrue(t, now, users) => TokenIsTrue(t, now', users')
        /\ \A c \in RefreshCall : RefreshIsTrue(c, now) => RefreshIsTrue(c, now')
    BY <1>2, <1>3, StaysTrue
  <2>2. TokensAreTrue'
    BY <1>1, <1>3, <2>1 DEF TokensAreTrue, TokenIsTrue, Lifetime
  <2>3. RefreshesAreTrue'
    BY <1>1, <1>3, <2>1 DEF RefreshesAreTrue, RefreshIsTrue
  <2> QED BY <1>1, <1>3, <2>2, <2>3
<1>4. ASSUME NEW q \in Request, NEW p \in Process, NEW t \in tokens, CheckRefresh(q, p, t)
      PROVE  Goal
  <2> DEFINE c == [request |-> q, process |-> p, user |-> t.user,
                   since |-> t.since, checked |-> now]
  <2>1. /\ t.user \in Email /\ t.since \in Nat /\ t.checked \in Nat /\ t.issued \in Nat
        /\ t.exp \in Nat
    BY <1>1 DEF Token
  <2>2. /\ t.kind = "refresh" /\ t.exp > now
        /\ refreshes' = refreshes \cup {c}
        /\ UNCHANGED <<now, users, logins, tokens>>
    BY <1>4 DEF CheckRefresh, Decodes, account
  <2>3. c \in RefreshCall /\ c.since = t.since /\ c.checked = now
    BY <1>2, <2>1 DEF RefreshCall
  <2> HIDE DEF c
  <2>4. /\ t.issued = t.since /\ t.issued <= now /\ t.exp <= t.issued + REFRESH
    BY <1>1, <2>2 DEF TokensAreTrue, TokenIsTrue, Lifetime
  <2>5. RefreshIsTrue(c, now)
    BY <1>2, <2>1, <2>2, <2>3, <2>4 DEF RefreshIsTrue
  <2>6. RefreshesAreTrue'
    BY <1>1, <2>2, <2>5 DEF RefreshesAreTrue, RefreshIsTrue
  <2>7. TokensAreTrue'
    BY <1>1, <2>2 DEF TokensAreTrue, TokenIsTrue, Lifetime
  <2> QED BY <1>1, <2>2, <2>3, <2>6, <2>7
<1>5. ASSUME NEW S, S \subseteq Token, \A t \in S : TokenIsTrue(t, now, users),
             tokens' = tokens \cup S, logins' \subseteq logins, refreshes' \subseteq refreshes,
             UNCHANGED <<now, users>>
      PROVE  Goal
  <2>1. TokensAreTrue'
    BY <1>1, <1>5 DEF TokensAreTrue, TokenIsTrue, Lifetime
  <2>2. RefreshesAreTrue'
    BY <1>1, <1>5 DEF RefreshesAreTrue, RefreshIsTrue
  <2> QED BY <1>1, <1>5, <2>1, <2>2
<1>6. ASSUME NEW c \in refreshes, IssueAccess(c) PROVE Goal
  <2> DEFINE new == NewToken(c.process, c.user, "access", c.since, c.checked)
  <2>1. /\ c.user \in users /\ tokens' = tokens \cup {new}
        /\ logins' \subseteq logins /\ refreshes' \subseteq refreshes
        /\ UNCHANGED <<now, users>>
    BY <1>6 DEF IssueAccess, account
  <2>2. /\ c.process \in Process /\ c.since \in Nat /\ c.checked \in Nat
        /\ RefreshIsTrue(c, now)
    BY <1>1 DEF RefreshesAreTrue, RefreshCall
  <2>3. new \in Token /\ TokenIsTrue(new, now, users)
    BY <1>1, <1>2, <2>1, <2>2, NewTokenIsTrue DEF RefreshIsTrue
  <2> DEFINE S == {new}
  <2>4. /\ S \subseteq Token /\ \A t \in S : TokenIsTrue(t, now, users)
        /\ tokens' = tokens \cup S
    BY <2>1, <2>3
  <2> HIDE DEF new, S
  <2> QED BY <1>5, <2>1, <2>4
<1>7. ASSUME NEW c \in logins, IssueBoth(c) PROVE Goal
  <2> DEFINE S == {NewToken(c.process, c.user, kind, now, now) : kind \in Kind}
  <2>1. /\ c.user \in users /\ tokens' = tokens \cup S
        /\ logins' \subseteq logins /\ refreshes' \subseteq refreshes
        /\ UNCHANGED <<now, users>>
    BY <1>7 DEF IssueBoth, account
  <2>2. c.process \in Process
    BY <1>1 DEF LoginCall
  <2>3. now <= now /\ now <= now + REFRESH
    BY <1>2
  <2>4. ASSUME NEW kind \in Kind
        PROVE  /\ NewToken(c.process, c.user, kind, now, now) \in Token
               /\ TokenIsTrue(NewToken(c.process, c.user, kind, now, now), now, users)
    BY <1>1, <1>2, <2>1, <2>2, <2>3, NewTokenIsTrue
  <2>5. S \subseteq Token /\ \A t \in S : TokenIsTrue(t, now, users)
    BY <2>4
  <2> HIDE DEF S
  <2> QED BY <1>5, <2>1, <2>5
<1>8. ASSUME NEW q \in Request, NEW k \in Key, Admit(q, k) PROVE Goal
  <2> DEFINE c == [request |-> q, process |-> k[1], user |-> k[3]]
  <2>1. c \in LoginCall
    BY DEF LoginCall, Key
  <2>2. logins' = logins \cup {c} /\ UNCHANGED <<now, users, refreshes, tokens>>
    BY <1>8 DEF Admit, account
  <2> HIDE DEF c
  <2>3. TokensAreTrue' /\ RefreshesAreTrue'
    BY <1>1, <2>2 DEF TokensAreTrue, TokenIsTrue, Lifetime, RefreshesAreTrue, RefreshIsTrue
  <2> QED BY <1>1, <2>1, <2>2, <2>3
<1>9. ASSUME NEW c, AbandonRefresh(c) \/ AbandonLogin(c) PROVE Goal
  <2>1. /\ logins' \subseteq logins /\ refreshes' \subseteq refreshes
        /\ UNCHANGED <<now, users, tokens>>
    BY <1>9 DEF AbandonRefresh, AbandonLogin, account
  <2> QED BY <1>2, <1>3, <2>1
<1>10. ASSUME NEW p \in Process, Restart(p) PROVE Goal
  <2>1. /\ logins' \subseteq logins /\ refreshes' \subseteq refreshes
        /\ UNCHANGED <<now, users, tokens>>
    BY <1>10 DEF Restart, account
  <2> QED BY <1>2, <1>3, <2>1
<1>11. CASE Tick
  <2>1. /\ tokens' \subseteq tokens /\ now' = now + 1
        /\ UNCHANGED <<logins, refreshes, users>>
    BY <1>11 DEF Tick, account, calls
  <2> QED BY <1>2, <1>3, <2>1
<1>12. ASSUME NEW r \in Registration, NEW e \in Email, FlushUser(r, e) \/ RefuseUser(r, e)
       PROVE  Goal
  <2>1. UNCHANGED <<now, users, logins, refreshes, tokens>>
    BY <1>12 DEF FlushUser, RefuseUser, calls
  <2> QED BY <1>2, <1>3, <2>1
<1>13. ASSUME NEW r \in Registration, CommitUser(r) \/ AbortUser(r) PROVE Goal
  <2>1. users \subseteq users' /\ UNCHANGED <<now, logins, refreshes, tokens>>
    BY <1>13 DEF CommitUser, AbortUser, calls
  <2> QED BY <1>2, <1>3, <2>1
<1>14. ASSUME NEW k \in Key, RefuseLogin(k) PROVE Goal
  <2>1. UNCHANGED <<now, users, logins, refreshes, tokens>>
    BY <1>14 DEF RefuseLogin, calls, account
  <2> QED BY <1>2, <1>3, <2>1
<1>15. CASE UNCHANGED vars
  <2>1. UNCHANGED <<now, users, logins, refreshes, tokens>>
    BY <1>15 DEF vars, calls, account
  <2> QED BY <1>2, <1>3, <2>1
<1> HIDE DEF Goal
<1> QED BY <1>4, <1>6, <1>7, <1>8, <1>9, <1>10, <1>11, <1>12, <1>13, <1>14, <1>15, Zenon
        DEF Next

LEMMA SecretStep == InductiveInv /\ [Next]_vars => SecretIsShared'
<1> SUFFICES ASSUME InductiveInv, [Next]_vars, provided'
             PROVE  /\ \A p \in Process : secret'[p] = 0
                    /\ \A t \in tokens' : t.secret = 0
  BY Zenon DEF SecretIsShared
<1> DEFINE Goal == /\ \A p \in Process : secret'[p] = 0
                   /\ \A t \in tokens' : t.secret = 0
<1>1. provided /\ TypeOK
  <2>1. ASSUME NEW r \in Registration, NEW e \in Email, FlushUser(r, e) \/ RefuseUser(r, e)
        PROVE  UNCHANGED provided
    BY <2>1, Zenon DEF FlushUser, RefuseUser, keys
  <2>2. ASSUME NEW r \in Registration, CommitUser(r) \/ AbortUser(r) PROVE UNCHANGED provided
    BY <2>2, Zenon DEF CommitUser, AbortUser, keys
  <2>3. ASSUME NEW p \in Process, Restart(p) PROVE UNCHANGED provided
    BY <2>3, Zenon DEF Restart
  <2>4. ASSUME NEW k \in Key, RefuseLogin(k) PROVE UNCHANGED provided
    BY <2>4, Zenon DEF RefuseLogin, keys
  <2>5. ASSUME NEW q \in Request, NEW k \in Key, Admit(q, k) PROVE UNCHANGED provided
    BY <2>5, Zenon DEF Admit, keys
  <2>6. ASSUME NEW c, IssueBoth(c) \/ AbandonLogin(c) \/ IssueAccess(c) \/ AbandonRefresh(c)
        PROVE  UNCHANGED provided
    BY <2>6, Zenon DEF IssueBoth, AbandonLogin, IssueAccess, AbandonRefresh, keys
  <2>7. ASSUME NEW q \in Request, NEW p \in Process, NEW t \in tokens, CheckRefresh(q, p, t)
        PROVE  UNCHANGED provided
    BY <2>7, Zenon DEF CheckRefresh, keys
  <2>8. ASSUME Tick PROVE UNCHANGED provided
    BY <2>8, Zenon DEF Tick, keys
  <2>9. ASSUME UNCHANGED vars PROVE UNCHANGED provided
    BY <2>9, Zenon DEF vars, keys
  <2>10. UNCHANGED provided
    BY <2>1, <2>2, <2>3, <2>4, <2>5, <2>6, <2>7, <2>8, <2>9, Zenon DEF Next
  <2> QED BY <2>10, Zenon DEF InductiveInv
<1>2. /\ \A p \in Process : secret[p] = 0
      /\ \A t \in tokens : t.secret = 0
      /\ logins \subseteq LoginCall /\ refreshes \subseteq RefreshCall
  BY <1>1, Zenon DEF InductiveInv, SecretIsShared, TypeOK
<1>3. ASSUME secret' = secret, tokens' \subseteq tokens PROVE Goal
  BY <1>2, <1>3
<1>4. ASSUME NEW c \in refreshes, IssueAccess(c) PROVE Goal
  <2>1. secret' = secret /\ c.process \in Process
    BY <1>2, <1>4 DEF IssueAccess, keys, RefreshCall
  <2>2. tokens' = tokens \cup {NewToken(c.process, c.user, "access", c.since, c.checked)}
    BY <1>4 DEF IssueAccess
  <2>3. NewToken(c.process, c.user, "access", c.since, c.checked).secret = secret[c.process]
    BY DEF NewToken
  <2> QED BY <1>2, <2>1, <2>2, <2>3
<1>5. ASSUME NEW c \in logins, IssueBoth(c) PROVE Goal
  <2>1. secret' = secret /\ c.process \in Process
    BY <1>2, <1>5 DEF IssueBoth, keys, LoginCall
  <2>2. tokens' = tokens \cup {NewToken(c.process, c.user, kind, now, now) : kind \in Kind}
    BY <1>5 DEF IssueBoth
  <2>3. \A kind \in Kind :
            NewToken(c.process, c.user, kind, now, now).secret = secret[c.process]
    BY DEF NewToken
  <2> QED BY <1>2, <2>1, <2>2, <2>3
<1>6. ASSUME NEW p \in Process, Restart(p) PROVE Goal
  <2>1. tokens' = tokens /\ secret' = [secret EXCEPT ![p] = ResolveSecret(p)]
    BY <1>6, Zenon DEF Restart
  <2>2. ResolveSecret(p) = secret[p]
    BY <1>1, Zenon DEF ResolveSecret
  <2>3. secret \in [Process -> Nat]
    BY <1>1, Numbers
  <2> QED BY <1>2, <2>1, <2>2, <2>3
<1>7. ASSUME NEW r \in Registration, NEW e \in Email, FlushUser(r, e) \/ RefuseUser(r, e)
      PROVE  Goal
  BY <1>3, <1>7 DEF FlushUser, RefuseUser, keys
<1>8. ASSUME NEW r \in Registration, CommitUser(r) \/ AbortUser(r) PROVE Goal
  BY <1>3, <1>8 DEF CommitUser, AbortUser, keys
<1>9. ASSUME NEW k \in Key, RefuseLogin(k) PROVE Goal
  BY <1>3, <1>9 DEF RefuseLogin, keys
<1>10. ASSUME NEW q \in Request, NEW k \in Key, Admit(q, k) PROVE Goal
  BY <1>3, <1>10 DEF Admit, keys
<1>11. ASSUME NEW c, AbandonLogin(c) \/ AbandonRefresh(c) PROVE Goal
  BY <1>3, <1>11 DEF AbandonLogin, AbandonRefresh, keys
<1>12. ASSUME NEW q \in Request, NEW p \in Process, NEW t \in tokens, CheckRefresh(q, p, t)
       PROVE  Goal
  BY <1>3, <1>12 DEF CheckRefresh, keys
<1>13. ASSUME Tick PROVE Goal
  BY <1>3, <1>13 DEF Tick, keys
<1>14. ASSUME UNCHANGED vars PROVE Goal
  BY <1>3, <1>14 DEF vars, keys
<1>15. Goal
  <2> HIDE DEF Goal
  <2> QED BY <1>4, <1>5, <1>6, <1>7, <1>8, <1>9, <1>10, <1>11, <1>12, <1>13, <1>14, Zenon
          DEF Next
<1> QED BY <1>15

LEMMA QueuesStep ==
    InductiveInv /\ [Next]_vars =>
        /\ attempts' \in [Key -> Seq(0 .. now')]
        /\ admitted' \in [Key -> Seq(0 .. now')]
        /\ \A k \in Key : Len(attempts'[k]) <= LIMIT
        /\ QueuesAreTrue'
<1> DEFINE Goal == /\ attempts' \in [Key -> Seq(0 .. now')]
                   /\ admitted' \in [Key -> Seq(0 .. now')]
                   /\ \A k \in Key : Len(attempts'[k]) <= LIMIT
                   /\ QueuesAreTrue'
<1> SUFFICES ASSUME InductiveInv, [Next]_vars PROVE Goal
  OBVIOUS
<1>1. /\ now \in Nat /\ LIMIT \in Nat \ {0}
      /\ attempts \in [Key -> Seq(0 .. now)] /\ admitted \in [Key -> Seq(0 .. now)]
      /\ \A k \in Key : Len(attempts[k]) <= LIMIT
      /\ QueuesAreTrue
  BY Numbers DEF InductiveInv, TypeOK
<1>2. ASSUME NEW k \in Key
      PROVE  /\ attempts[k] \in Seq(Nat) /\ Ascending(attempts[k])
             /\ admitted[k] = InWindow(attempts[k], now)
             /\ Recent(attempts[k]) = admitted[k]
             /\ admitted[k] \in Seq(0 .. now) /\ Ascending(admitted[k])
             /\ InWindow(admitted[k], now) = admitted[k]
             /\ Len(admitted[k]) \in Nat /\ Len(admitted[k]) <= LIMIT
  <2>1. attempts[k] \in Seq(Nat)
    BY <1>1, 0 .. now \subseteq Nat, SeqMonotonic
  <2>2. Ascending(attempts[k]) /\ admitted[k] = InWindow(attempts[k], now)
    BY <1>1 DEF QueuesAreTrue
  <2>3. Recent(attempts[k]) = admitted[k]
    BY <1>1, <2>1, <2>2, PoppedInOrder
  <2>4. Ascending(admitted[k]) /\ Len(admitted[k]) <= Len(attempts[k])
    BY <1>1, <2>1, <2>2, InWindowType
  <2>5. now <= now
    BY <1>1
  <2>6. InWindow(admitted[k], now) = admitted[k]
    BY <1>1, <2>1, <2>2, <2>5, WindowMovesOn
  <2>7. admitted[k] \in Seq(0 .. now) /\ attempts[k] \in Seq(0 .. now)
    BY <1>1
  <2>8. Len(admitted[k]) \in Nat /\ Len(attempts[k]) \in Nat
    BY <2>7, LenProperties
  <2> QED BY <1>1, <2>1, <2>2, <2>3, <2>4, <2>6, <2>7, <2>8
<1>3. ASSUME \A k \in Key : /\ Ascending(attempts'[k])
                            /\ admitted'[k] = InWindow(attempts'[k], now')
      PROVE  QueuesAreTrue'
  BY <1>3 DEF QueuesAreTrue, Ascending, InWindow
<1>4. CASE UNCHANGED <<now, attempts, admitted>>
  BY <1>1, <1>4 DEF QueuesAreTrue, InWindow
<1>5. ASSUME NEW k \in Key, RefuseLogin(k) PROVE Goal
  <2>1. /\ attempts' = [attempts EXCEPT ![k] = admitted[k]]
        /\ admitted' = admitted /\ now' = now
    BY <1>2, <1>5 DEF RefuseLogin
  <2>2. \A q \in Key : attempts'[q] = IF q = k THEN admitted[q] ELSE attempts[q]
    BY <1>1, <2>1
  <2>3. attempts' \in [Key -> Seq(0 .. now)]
    BY <1>1, <1>2, <2>1
  <2>4. QueuesAreTrue'
    BY <1>2, <1>3, <2>1, <2>2
  <2> QED BY <1>1, <1>2, <2>1, <2>2, <2>3, <2>4
<1>6. ASSUME NEW k \in Key, NEW q \in Request, Admit(q, k) PROVE Goal
  <2> DEFINE new == Append(admitted[k], now)
  <2>1. /\ Len(admitted[k]) < LIMIT
        /\ attempts' = [attempts EXCEPT ![k] = new]
        /\ admitted' = [admitted EXCEPT ![k] = new]
        /\ now' = now
    <3>1. ~(Len(Recent(attempts[k])) >= LIMIT)
      BY <1>6, Zenon DEF Admit, IsRefused
    <3>2. /\ attempts' = [attempts EXCEPT ![k] = Append(Recent(attempts[k]), now)]
          /\ admitted' = [admitted EXCEPT ![k] = Append(admitted[k], now)]
          /\ now' = now
      BY <1>6, Zenon DEF Admit
    <3>3. Recent(attempts[k]) = admitted[k]
      BY <1>2
    <3>4. Len(admitted[k]) < LIMIT
      <4>1. Len(admitted[k]) \in Nat /\ ~(Len(admitted[k]) >= LIMIT)
        BY <1>2, <3>1, <3>3
      <4> QED BY <1>1, <4>1
    <3> QED BY <3>2, <3>3, <3>4
  <2>2. /\ new \in Seq(0 .. now) /\ Len(new) = Len(admitted[k]) + 1
        /\ Ascending(new) /\ InWindow(new, now) = new
    BY <1>1, <1>2, AdmittedNow
  <2> HIDE DEF new
  <2>3. \A l \in Key : /\ attempts'[l] = IF l = k THEN new ELSE attempts[l]
                       /\ admitted'[l] = IF l = k THEN new ELSE admitted[l]
    BY <1>1, <2>1
  <2>4. /\ attempts' \in [Key -> Seq(0 .. now)]
        /\ admitted' \in [Key -> Seq(0 .. now)]
    BY <1>1, <2>1, <2>2
  <2>5. Len(new) <= LIMIT
    BY <1>1, <1>2, <2>1, <2>2
  <2>6. QueuesAreTrue'
    BY <1>2, <1>3, <2>1, <2>2, <2>3
  <2> QED BY <1>1, <2>1, <2>3, <2>4, <2>5, <2>6
<1>7. ASSUME NEW p \in Process, Restart(p) PROVE Goal
  <2>1. /\ attempts' = [k \in Key |-> IF k[1] = p THEN <<>> ELSE attempts[k]]
        /\ admitted' = [k \in Key |-> IF k[1] = p THEN <<>> ELSE admitted[k]]
        /\ now' = now
    BY <1>7, Zenon DEF Restart
  <2>2. /\ <<>> \in Seq(0 .. now) /\ Len(<<>>) = 0 /\ Ascending(<<>>)
        /\ InWindow(<<>>, now) = <<>>
    BY EmptyQueue
  <2>3. /\ attempts' \in [Key -> Seq(0 .. now)]
        /\ admitted' \in [Key -> Seq(0 .. now)]
    BY <1>1, <2>1, <2>2
  <2>4. \A k \in Key : Len(attempts'[k]) <= LIMIT
    BY <1>1, <2>1, <2>2
  <2>5. QueuesAreTrue'
    BY <1>2, <1>3, <2>1, <2>2
  <2> QED BY <2>1, <2>3, <2>4, <2>5
<1>8. CASE Tick
  <2>1. /\ now' = now + 1 /\ attempts' = attempts
        /\ admitted' = [k \in Key |-> InWindow(admitted[k], now')]
    BY <1>8 DEF Tick
  <2>2. now' \in Nat /\ now <= now' /\ 0 .. now \subseteq 0 .. now'
    BY <1>1, <2>1
  <2>3. ASSUME NEW k \in Key
        PROVE  /\ attempts'[k] \in Seq(0 .. now')
               /\ admitted'[k] = InWindow(attempts[k], now')
               /\ admitted'[k] \in Seq(0 .. now')
    <3>1. attempts'[k] \in Seq(0 .. now')
      BY <1>1, <2>1, <2>2, SeqMonotonic
    <3>2. admitted'[k] = InWindow(attempts[k], now')
      <4>1. InWindow(InWindow(attempts[k], now), now') = InWindow(attempts[k], now')
        BY <1>1, <1>2, <2>2, WindowMovesOn
      <4> QED BY <1>2, <2>1, <4>1
    <3>3. InWindow(attempts[k], now') \in Seq(0 .. now')
      <4>1. PICK n \in 0 .. Len(attempts[k]) :
                InWindow(attempts[k], now') = SubSeq(attempts[k], 1 + n, Len(attempts[k]))
        BY <1>2, <2>2, Cut
      <4> QED BY <2>1, <3>1, <4>1, Suffix
    <3> QED BY <3>1, <3>2, <3>3
  <2>4. /\ attempts' \in [Key -> Seq(0 .. now')]
        /\ admitted' \in [Key -> Seq(0 .. now')]
    BY <1>1, <2>1, <2>3
  <2>5. QueuesAreTrue'
    BY <1>2, <1>3, <2>1, <2>3
  <2> QED BY <1>1, <2>1, <2>4, <2>5
<1>9. ASSUME NEW c, \/ IssueBoth(c) \/ AbandonLogin(c)
                     \/ IssueAccess(c) \/ AbandonRefresh(c)
      PROVE  UNCHANGED <<now, attempts, admitted>>
  BY <1>9 DEF IssueBoth, AbandonLogin, IssueAccess, AbandonRefresh
<1>10. ASSUME NEW r \in Registration, NEW e \in Email, FlushUser(r, e) \/ RefuseUser(r, e)
      PROVE  UNCHANGED <<now, attempts, admitted>>
  BY <1>10 DEF FlushUser, RefuseUser
<1>11. ASSUME NEW r \in Registration, CommitUser(r) \/ AbortUser(r)
       PROVE  UNCHANGED <<now, attempts, admitted>>
  BY <1>11 DEF CommitUser, AbortUser
<1>12. CASE UNCHANGED vars
  BY <1>4, <1>12 DEF vars
<1>13. ASSUME NEW q \in Request, NEW p \in Process, NEW t \in tokens, CheckRefresh(q, p, t)
       PROVE  UNCHANGED <<now, attempts, admitted>>
  BY <1>13 DEF CheckRefresh
<1> HIDE DEF Goal
<1> QED BY <1>4, <1>5, <1>6, <1>7, <1>8, <1>9, <1>10, <1>11, <1>12, <1>13, Zenon DEF Next

\* The clock, the users and their registrations, the secrets.
Rest ==
    /\ now \in 0 .. EndOfTime
    /\ users \subseteq Email
    /\ pc \in [Registration -> {"new", "flushed", "created", "conflict", "failed"}]
    /\ email \in [Registration -> Email \cup {""}]
    /\ \A r \in Registration : pc[r] # "new" => email[r] \in Email
    /\ secret \in [Process -> Nat]
    /\ restarts \in 0 .. MaxRestarts

LEMMA RestStep == InductiveInv /\ [Next]_vars => Rest' /\ provided' \in BOOLEAN
<1> SUFFICES ASSUME InductiveInv, [Next]_vars PROVE Rest' /\ provided' \in BOOLEAN
  OBVIOUS
<1>1. Rest /\ provided \in BOOLEAN
  BY Zenon DEF InductiveInv, TypeOK, Rest
<1>2. ASSUME UNCHANGED <<now, account, secret, restarts>> PROVE Rest'
  <2>1. /\ now' = now /\ users' = users /\ pc' = pc /\ email' = email
        /\ secret' = secret /\ restarts' = restarts
    BY <1>2 DEF account
  <2> QED BY <1>1, <2>1, Zenon DEF Rest
<1>3. ASSUME NEW r \in Registration, NEW e \in Email, FlushUser(r, e) \/ RefuseUser(r, e)
      PROVE  Rest' /\ UNCHANGED provided
  <2>1. UNCHANGED <<now, users, provided, secret, restarts>>
    BY <1>3 DEF FlushUser, RefuseUser, keys
  <2>2. /\ pc' \in [Registration -> {"new", "flushed", "created", "conflict", "failed"}]
        /\ email' \in [Registration -> Email \cup {""}]
        /\ \A q \in Registration : pc'[q] # "new" => email'[q] \in Email
    BY <1>1, <1>3 DEF Rest, FlushUser, RefuseUser
  <2> QED BY <1>1, <2>1, <2>2 DEF Rest
<1>4. ASSUME NEW r \in Registration, CommitUser(r) \/ AbortUser(r)
      PROVE  Rest' /\ UNCHANGED provided
  <2>1. UNCHANGED <<now, email, provided, secret, restarts>>
    BY <1>4 DEF CommitUser, AbortUser, keys
  <2>2. /\ users' \subseteq Email
        /\ pc' \in [Registration -> {"new", "flushed", "created", "conflict", "failed"}]
        /\ \A q \in Registration : pc'[q] # "new" => email'[q] \in Email
    BY <1>1, <1>4 DEF Rest, CommitUser, AbortUser
  <2> QED BY <1>1, <2>1, <2>2 DEF Rest
<1>5. ASSUME NEW p \in Process, Restart(p) PROVE Rest' /\ UNCHANGED provided
  <2>1. /\ restarts < MaxRestarts /\ restarts' = restarts + 1
        /\ UNCHANGED <<now, account, provided>>
    BY <1>5 DEF Restart
  <2>2. secret' = [secret EXCEPT ![p] = ResolveSecret(p)]
    BY <1>5, Zenon DEF Restart
  <2>3. Cardinality(Process) \in Nat
    BY ProcessAssumption, FS_CardinalityType
  <2>4. restarts' \in 0 .. MaxRestarts
    <3>1. restarts \in 0 .. MaxRestarts
      BY <1>1 DEF Rest
    <3> QED BY <2>1, <3>1, BoundAssumption
  <2>5. secret' \in [Process -> Nat]
    <3>1. secret \in [Process -> Nat]
      BY <1>1 DEF Rest
    <3>2. ResolveSecret(p) \in Nat
      <4>1. restarts \in Nat
        <5>1. restarts \in 0 .. MaxRestarts
          BY <1>1, Zenon DEF Rest
        <5> QED BY <5>1, BoundAssumption
      <4>2. Cardinality(Process) + restarts + 1 \in Nat
        BY <2>3, <4>1
      <4>3. \/ ResolveSecret(p) = secret[p]
            \/ ResolveSecret(p) = Cardinality(Process) + restarts + 1
        BY Zenon DEF ResolveSecret
      <4> QED BY <3>1, <4>2, <4>3
    <3> QED BY <2>2, <3>1, <3>2
  <2> QED BY <1>1, <2>1, <2>4, <2>5 DEF Rest, account
<1>6. CASE Tick
  <2>1. now < EndOfTime /\ now' = now + 1 /\ UNCHANGED <<account, keys>>
    BY <1>6 DEF Tick
  <2>2. now' \in 0 .. EndOfTime
    <3>1. now \in 0 .. EndOfTime
      BY <1>1 DEF Rest
    <3> QED BY <2>1, <3>1, BoundAssumption
  <2> QED BY <1>1, <2>1, <2>2 DEF Rest, account, keys
<1>7. ASSUME NEW c, \/ IssueBoth(c) \/ AbandonLogin(c)
                     \/ IssueAccess(c) \/ AbandonRefresh(c)
      PROVE  UNCHANGED <<now, account, secret, restarts>> /\ UNCHANGED provided
  BY <1>7 DEF IssueBoth, AbandonLogin, IssueAccess, AbandonRefresh, keys
<1>8. ASSUME NEW k \in Key, RefuseLogin(k)
      PROVE  UNCHANGED <<now, account, secret, restarts>> /\ UNCHANGED provided
  BY <1>8 DEF RefuseLogin, keys
<1>9. ASSUME NEW q \in Request, \/ \E k \in Key : Admit(q, k)
                               \/ \E p \in Process, t \in tokens : CheckRefresh(q, p, t)
      PROVE  UNCHANGED <<now, account, secret, restarts>> /\ UNCHANGED provided
  BY <1>9 DEF Admit, CheckRefresh, keys
<1>10. CASE UNCHANGED vars
  BY <1>1, <1>2, <1>10 DEF vars, keys
<1>11. CASE Tick
  BY <1>1, <1>6, <1>11 DEF Tick, keys
<1> QED BY <1>1, <1>2, <1>3, <1>4, <1>5, <1>6, <1>7, <1>8, <1>9, <1>10, <1>11, Zenon DEF Next

LEMMA Step == InductiveInv /\ [Next]_vars => InductiveInv'
<1> SUFFICES ASSUME InductiveInv, [Next]_vars PROVE InductiveInv'
  OBVIOUS
<1>1. Rest' /\ provided' \in BOOLEAN
  BY RestStep
<1>2. RegisteredOnce' /\ EmailsAreHeld'
  BY UsersStep
<1>3. /\ logins' \subseteq LoginCall /\ refreshes' \subseteq RefreshCall
      /\ tokens' \subseteq Token
      /\ TokensAreTrue' /\ RefreshesAreTrue'
  BY TokensStep
<1>4. /\ attempts' \in [Key -> Seq(0 .. now')]
      /\ admitted' \in [Key -> Seq(0 .. now')]
      /\ \A k \in Key : Len(attempts'[k]) <= LIMIT
      /\ QueuesAreTrue'
  BY QueuesStep
<1>5. TypeOK'
  BY <1>1, <1>3, <1>4, Zenon DEF TypeOK, Rest, Token, Kind, Key, LoginCall, RefreshCall
<1>6. SecretIsShared'
  BY SecretStep
<1> QED BY <1>2, <1>3, <1>4, <1>5, <1>6, Zenon DEF InductiveInv

LEMMA Inductive == Spec => []InductiveInv
<1> QED BY Start, Step, PTL DEF Spec

-----------------------------------------------------------------------------
(* What the invariant promises                                             *)

LEMMA SessionsOfInvariant == InductiveInv => SessionsEnd
<1> SUFFICES ASSUME InductiveInv, NEW p \in Process, NEW t \in tokens
             PROVE  /\ Accepts(p, t, "refresh") => now < t.since + REFRESH
                    /\ Accepts(p, t, "access") =>
                           now < t.since + REFRESH + ACCESS + Waited(t)
  BY DEF SessionsEnd
<1>1. TypeOK /\ t \in Token /\ TokenIsTrue(t, now, users)
  BY Zenon DEF InductiveInv, TypeOK, TokensAreTrue
<1>2. /\ t.exp \in Nat /\ t.since \in Nat /\ t.checked \in Nat /\ t.issued \in Nat
      /\ now \in Nat /\ ACCESS \in Nat /\ REFRESH \in Nat
  BY <1>1, Numbers DEF Token
<1>3. ASSUME Accepts(p, t, "refresh") PROVE now < t.since + REFRESH
  BY <1>1, <1>2, <1>3 DEF Accepts, Decodes, TokenIsTrue, Lifetime
<1>4. ASSUME Accepts(p, t, "access") PROVE now < t.since + REFRESH + ACCESS + Waited(t)
  BY <1>1, <1>2, <1>4 DEF Accepts, Decodes, TokenIsTrue, Lifetime, Waited
<1> QED BY <1>3, <1>4

LEMMA LastingOfInvariant == InductiveInv => SessionsLast
<1> SUFFICES ASSUME InductiveInv, NEW p \in Process, NEW t \in tokens, provided,
                    now + TICK <= t.issued + Lifetime(t.kind)
             PROVE  Accepts(p, t, t.kind)
  BY Zenon DEF SessionsLast
<1>1. TypeOK /\ t \in Token /\ TokenIsTrue(t, now, users)
  BY Zenon DEF InductiveInv, TypeOK, TokensAreTrue
<1>2. t.secret = secret[p]
  BY Zenon DEF InductiveInv, SecretIsShared
<1>3. t.exp > now
  <2>1. t.exp \in Nat /\ t.issued \in Nat /\ now \in Nat /\ TICK \in Nat
    BY <1>1, Numbers DEF Token
  <2>2. Lifetime(t.kind) \in Nat
    BY LifetimeAssumption DEF Lifetime
  <2> QED BY <1>1, <2>1, <2>2 DEF TokenIsTrue
<1> QED BY <1>1, <1>2, <1>3 DEF Accepts, Decodes, TokenIsTrue

\* What the limiter sees of the window is what it admitted.
LEMMA Seen ==
    ASSUME InductiveInv, NEW k \in Key
    PROVE  /\ Recent(attempts[k]) = admitted[k]
           /\ admitted[k] \in Seq(0 .. now)
           /\ Len(admitted[k]) \in Nat /\ Len(admitted[k]) <= LIMIT
<1>1. /\ now \in Nat /\ LIMIT \in Nat
      /\ attempts[k] \in Seq(0 .. now) /\ admitted[k] \in Seq(0 .. now)
      /\ Len(attempts[k]) <= LIMIT
      /\ Ascending(attempts[k]) /\ admitted[k] = InWindow(attempts[k], now)
  BY Numbers DEF InductiveInv, TypeOK, QueuesAreTrue
<1>2. attempts[k] \in Seq(Nat)
  BY <1>1, 0 .. now \subseteq Nat, SeqMonotonic
<1>3. Recent(attempts[k]) = admitted[k]
  BY <1>1, <1>2, PoppedInOrder
<1>4. Len(admitted[k]) <= Len(attempts[k])
  BY <1>1, <1>2, InWindowType
<1>5. Len(admitted[k]) \in Nat /\ Len(attempts[k]) \in Nat
  BY <1>1, LenProperties
<1> QED BY <1>1, <1>3, <1>4, <1>5

LEMMA LimiterOfInvariant == InductiveInv => LimiterIsExact
<1> SUFFICES ASSUME InductiveInv, NEW k \in Key
             PROVE  /\ Len(admitted[k]) <= LIMIT
                    /\ IsRefused(k) => Len(admitted[k]) = LIMIT
  BY DEF LimiterIsExact
<1>1. LIMIT \in Nat
  BY LimitAssumption
<1> QED BY <1>1, Seen DEF IsRefused

\* Whole seconds and one more are past the time that is left.
LEMMA OneSecondMore ==
    ASSUME NEW left \in Nat
    PROVE  ((IF left < TICK THEN 1 ELSE left \div TICK) + 1) * TICK >= left
<1>1. TICK \in Nat /\ TICK > 0
  BY LimitAssumption
<1>2. CASE left < TICK
  <2>1. (1 + 1) * TICK >= left
    BY <1>1, <1>2
  <2> QED BY <1>2, <2>1
<1>3. CASE ~(left < TICK)
  <2> DEFINE d == left \div TICK
             m == left % TICK
  <2>1. d \in Nat /\ m \in 0 .. TICK - 1 /\ left = TICK * d + m
    BY <1>1
  <2> HIDE DEF d, m
  <2>2. (d + 1) * TICK = TICK * d + TICK /\ TICK * d \in Nat
    BY <1>1, <2>1
  <2>3. (d + 1) * TICK >= left
    BY <1>1, <2>1, <2>2
  <2> QED BY <1>3, <2>3 DEF d
<1> QED BY <1>2, <1>3

LEMMA RetryOfInvariant == InductiveInv => RetryAfterSuffices
<1> SUFFICES ASSUME InductiveInv, NEW k \in Key, IsRefused(k)
             PROVE  Len(InWindow(admitted[k], now + (RetryAfter(k) + 1) * TICK)) < LIMIT
  BY DEF RetryAfterSuffices
<1> DEFINE s   == admitted[k]
           at  == now + (RetryAfter(k) + 1) * TICK
           old == {i \in DOMAIN s : s[i] + WINDOW <= at}
<1>1. /\ now \in Nat /\ LIMIT \in Nat \ {0} /\ WINDOW \in Nat \ {0} /\ TICK \in Nat \ {0}
  BY Numbers DEF InductiveInv
<1>2. /\ Recent(attempts[k]) = s /\ s \in Seq(0 .. now)
      /\ Len(s) = LIMIT
  BY <1>1, Seen DEF IsRefused
<1>3. DOMAIN s = 1 .. LIMIT /\ \A i \in 1 .. LIMIT : s[i] \in 0 .. now
  BY <1>2, LenProperties, ElementOfSeq
<1>4. 1 \in 1 .. LIMIT /\ s[1] \in 0 .. now
  BY <1>1, <1>3
<1> DEFINE left == s[1] + WINDOW - now
<1>5. at >= s[1] + WINDOW
  <2>1. RetryAfter(k) = IF left < TICK THEN 1 ELSE left \div TICK
    BY <1>2 DEF RetryAfter
  <2>2. CASE left \in Nat
    <3>1. (RetryAfter(k) + 1) * TICK >= left
      BY <2>1, <2>2, OneSecondMore
    <3>2. (RetryAfter(k) + 1) * TICK \in Nat
      <4>1. RetryAfter(k) \in Nat
        BY <1>1, <2>1, <2>2
      <4> QED BY <1>1, <4>1
    <3> QED BY <1>1, <1>4, <3>1, <3>2
  <2>3. CASE ~(left \in Nat)
    <3>1. left < 0 /\ left < TICK
      BY <1>1, <1>4, <2>3
    <3>2. RetryAfter(k) = 1
      BY <2>1, <3>1
    <3> QED BY <1>1, <1>4, <3>1, <3>2
  <2> QED BY <2>2, <2>3
<1>6. 1 \in old
  BY <1>3, <1>4, <1>5
<1>7. IsFiniteSet(old) /\ Cardinality(old) \in 1 .. LIMIT
  <2>1. IsFiniteSet(1 .. LIMIT) /\ Cardinality(1 .. LIMIT) = LIMIT
    BY <1>1, 1 \in Int, LIMIT \in Int, FS_Interval
  <2>2. IsFiniteSet(old) /\ Cardinality(old) <= LIMIT
    <3>1. old \in SUBSET (1 .. LIMIT)
      BY <1>3
    <3> HIDE DEF old
    <3> QED BY <2>1, <3>1, FS_Subset
  <2>3. Cardinality(old) \in Nat /\ Cardinality(old) # 0
    BY <1>6, <2>2, FS_CardinalityType, FS_EmptySet
  <2> QED BY <1>1, <2>2, <2>3
<1>8. InWindow(s, at) = SubSeq(s, 1 + Cardinality(old), Len(s))
  BY DEF InWindow
<1> HIDE DEF s, at, old
<1>9. Cardinality(old) \in 0 .. Len(s)
  BY <1>1, <1>2, <1>7
<1>10. Len(InWindow(s, at)) = LIMIT - Cardinality(old)
  BY <1>2, <1>8, <1>9, Suffix
<1>11. Len(InWindow(s, at)) < LIMIT
  BY <1>1, <1>7, <1>10
<1> QED BY <1>11 DEF s, at

\* Users, registrations, secrets, queues and tokens stay what they are, and no
\* queue of attempts is longer than the limit.
THEOREM TypeCorrect == Spec => []TypeOK
<1>1. InductiveInv => TypeOK
  BY DEF InductiveInv
<1> QED BY <1>1, Inductive, PTL

\* However registrations overlap and fail, an email becomes one user's, and is
\* refused only once it is somebody's (register_user, add_user).
THEOREM OneUserPerEmail == Spec => []RegisteredOnce
<1>1. InductiveInv => RegisteredOnce
  BY DEF InductiveInv
<1> QED BY <1>1, Inductive, PTL

\* Whatever tokens are refreshed and processes restarted, an accepted token
\* goes back to a password given within the two lifetimes and the wait of the
\* refresh that issued it (refresh_access_token, core/security.py).
THEOREM NoSessionForEver == Spec => []SessionsEnd
<1> QED BY SessionsOfInvariant, Inductive, PTL

\* With a configured secret no restart, other process or rounding ends a session
\* before the last second of its tokens (resolve_jwt_secret, create_token).
THEOREM NoSessionCutShort == Spec => []SessionsLast
<1> QED BY LastingOfInvariant, Inductive, PTL

\* The limiter of the logins admits LIMIT attempts in any window and refuses
\* none before (login).
THEOREM LimiterCounts == Spec => []LimiterIsExact
<1> QED BY LimiterOfInvariant, Inductive, PTL

\* Who waits as long as the header Retry-After says, and a second more, is
\* admitted (login).
THEOREM WaitingHelps == Spec => []RetryAfterSuffices
<1> QED BY RetryOfInvariant, Inductive, PTL
=============================================================================
