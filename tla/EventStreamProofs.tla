------------------------- MODULE EventStreamProofs -------------------------
(***************************************************************************)
(* Proofs about EventStream, for any number of events recorded at the same *)
(* time, any clock and any number of broken connections: its types, the    *)
(* order in which a client receives, and what its cursor passes over.      *)
(***************************************************************************)
EXTENDS EventStream, FiniteSetTheorems, FunctionTheorems, SequenceTheorems, TLAPS

\* What the query found and the server has not sent.
Pending == IF pc = "send" THEN events ELSE <<>>

\* All that one stream after the other has put on the way and did not lose.
Flow == (received \o wire) \o Pending

\* The stream's order, by the times at which events were created.
Precedes(times, d, e) == times[d] < times[e] \/ (times[d] = times[e] /\ d < e)

InOrder(times, s) == \A i, k \in 1 .. Len(s) : i < k => Precedes(times, s[i], s[k])

\* A sequence passes over no event of a set.
NoGap(times, E, s) ==
    \A e \in E : \A i \in 1 .. Len(s) :
        Precedes(times, e, s[i]) => \E k \in 1 .. i - 1 : s[k] = e

FlowInOrder == InOrder(created_at, Flow)

\* The stream has no gap, but for the events that were overtaken.
FlowIsComplete == NoGap(created_at, committed \ overtaken, Flow)

\* The cursor of an open connection is the event sent last.
CursorIsSent ==
    pc # "closed" =>
        last_event_id = IF received \o wire = <<>> THEN None
                        ELSE (received \o wire)[Len(received \o wire)]

SendsSomething == pc = "send" => events # <<>>

InductiveInv ==
    /\ TypeOK
    /\ IsFiniteSet(begun)
    /\ FlowInOrder
    /\ FlowIsComplete
    /\ CursorIsSent
    /\ SendsSomething

-----------------------------------------------------------------------------
(* The order of the stream                                                 *)

Clock == created_at \in [Event -> Nat]

LEMMA StrictOrder ==
    ASSUME Clock
    PROVE  /\ \A d \in Event : ~Before(d, d)
           /\ \A d, e \in Event : d # e => Before(d, e) \/ Before(e, d)
           /\ \A d, e, f \in Event : Before(d, e) /\ Before(e, f) => Before(d, f)
<1>1. \A d \in Event : d \in Nat /\ created_at[d] \in Nat
  BY EventAssumption DEF Clock
<1> QED BY <1>1 DEF Before

\* The query's result: all the rows, each once, in the stream's order.
LEMMA OrderedIsSorted ==
    ASSUME Clock, NEW S \in SUBSET Event, IsFiniteSet(S)
    PROVE  /\ Cardinality(S) \in Nat
           /\ Ordered(S) \in [1 .. Cardinality(S) -> S]
           /\ \A i, k \in 1 .. Cardinality(S) : i < k => Before(Ordered(S)[i], Ordered(S)[k])
           /\ \A e \in S : \E i \in 1 .. Cardinality(S) : Ordered(S)[i] = e
<1> DEFINE n == Cardinality(S)
           below(e) == {d \in S : Before(d, e)}
           rank == [e \in S |-> 1 + Cardinality(below(e))]
           sorted(s) == \A i, k \in DOMAIN s : i < k => Before(s[i], s[k])
<1>1. n \in Nat /\ IsFiniteSet(1 .. n) /\ Cardinality(1 .. n) = n
  <2>1. n \in Nat
    BY FS_CardinalityType
  <2> QED BY <2>1, 1 \in Int, n \in Int, FS_Interval
<1>2. ASSUME NEW e \in S PROVE IsFiniteSet(below(e)) /\ Cardinality(below(e)) \in 0 .. n - 1
  <2>1. below(e) \in SUBSET (S \ {e})
    BY StrictOrder
  <2>2. IsFiniteSet(S \ {e}) /\ Cardinality(S \ {e}) = n - 1
    BY FS_RemoveElement
  <2> HIDE DEF below
  <2>3. IsFiniteSet(below(e)) /\ Cardinality(below(e)) <= n - 1
    BY <2>1, <2>2, FS_Subset
  <2>4. Cardinality(below(e)) \in Nat
    BY <2>3, FS_CardinalityType
  <2> QED BY <1>1, <2>3, <2>4
<1>3. rank \in [S -> 1 .. n]
  <2>1. ASSUME NEW e \in S PROVE 1 + Cardinality(below(e)) \in 1 .. n
    <3>1. Cardinality(below(e)) \in 0 .. n - 1
      BY <1>2
    <3> HIDE DEF below, n
    <3> QED BY <1>1, <3>1
  <2> HIDE DEF below, n
  <2> QED BY <2>1
<1>4. ASSUME NEW d \in S, NEW e \in S, Before(d, e) PROVE rank[d] < rank[e]
  <2>1. below(d) \cup {d} \in SUBSET below(e) /\ d \notin below(d)
    BY <1>4, StrictOrder
  <2> HIDE DEF below
  <2>2. Cardinality(below(d) \cup {d}) = Cardinality(below(d)) + 1
    BY <1>2, <2>1, FS_AddElement
  <2>3. Cardinality(below(d) \cup {d}) <= Cardinality(below(e))
    BY <1>2, <2>1, FS_Subset
  <2>4. Cardinality(below(d)) \in Nat /\ Cardinality(below(e)) \in Nat
    BY <1>2
  <2>5. rank[d] = 1 + Cardinality(below(d)) /\ rank[e] = 1 + Cardinality(below(e))
    OBVIOUS
  <2> QED BY <2>2, <2>3, <2>4, <2>5
<1> HIDE DEF below, rank
<1>5. rank \in Injection(S, 1 .. n)
  <2>1. \A d, e \in S : d # e => rank[d] # rank[e]
    <3> SUFFICES ASSUME NEW d \in S, NEW e \in S, d # e PROVE rank[d] # rank[e]
      OBVIOUS
    <3>1. Before(d, e) \/ Before(e, d)
      BY StrictOrder
    <3>2. rank[d] \in Nat /\ rank[e] \in Nat
      BY <1>1, <1>3
    <3> QED BY <1>4, <3>1, <3>2
  <2> QED BY <1>3, <2>1, Fun_IsInj
<1>6. \A i \in 1 .. n : \E e \in S : rank[e] = i
  <2>1. rank \in Surjection(S, 1 .. n)
    BY <1>1, <1>5, FS_Injection
  <2> QED BY <2>1, Fun_SurjectionProperties
<1>7. \E s \in [1 .. n -> S] : sorted(s)
  <2> DEFINE s == [i \in 1 .. n |-> CHOOSE e \in S : rank[e] = i]
  <2>1. \A i \in 1 .. n : s[i] \in S /\ rank[s[i]] = i
    BY <1>6
  <2>2. s \in [1 .. n -> S]
    BY <2>1
  <2> HIDE DEF s
  <2>3. ASSUME NEW i \in 1 .. n, NEW k \in 1 .. n, i < k PROVE Before(s[i], s[k])
    <3>1. s[i] # s[k]
      BY <2>1, <2>3
    <3>2. ~Before(s[k], s[i])
      <4>1. Before(s[k], s[i]) => rank[s[k]] < rank[s[i]]
        BY <1>4, <2>1
      <4> QED BY <2>1, <2>3, <4>1
    <3> QED BY <2>1, <3>1, <3>2, StrictOrder
  <2>4. sorted(s)
    BY <2>2, <2>3
  <2> HIDE DEF sorted
  <2> QED BY <2>2, <2>4
<1>8. Ordered(S) \in [1 .. n -> S] /\ sorted(Ordered(S))
  <2>1. Ordered(S) = CHOOSE s \in [1 .. n -> S] : sorted(s)
    BY DEF Ordered
  <2> HIDE DEF sorted, n
  <2> QED BY <1>7, <2>1
<1>9. \A i, k \in 1 .. n : i < k => Before(Ordered(S)[i], Ordered(S)[k])
  BY <1>8
<1> HIDE DEF sorted
<1>10. Ordered(S) \in Injection(1 .. n, S)
  <2>1. \A i, k \in 1 .. n : Ordered(S)[i] = Ordered(S)[k] => i = k
    <3> SUFFICES ASSUME NEW i \in 1 .. n, NEW k \in 1 .. n, i # k
                 PROVE  Ordered(S)[i] # Ordered(S)[k]
      OBVIOUS
    <3>1. Ordered(S)[i] \in Event /\ Ordered(S)[k] \in Event
      BY <1>8
    <3>2. i < k \/ k < i
      BY <1>1
    <3> QED BY <1>9, <3>1, <3>2, StrictOrder
  <2> QED BY <1>8, <2>1, Fun_IsInj
<1>11. Ordered(S) \in Surjection(1 .. n, S)
  BY <1>1, <1>10, FS_Injection
<1>12. \A e \in S : \E i \in 1 .. n : Ordered(S)[i] = e
  <2> DEFINE o == Ordered(S)
  <2>1. o \in Surjection(1 .. n, S)
    BY <1>11
  <2> HIDE DEF o, n
  <2>2. \A e \in S : \E i \in 1 .. n : o[i] = e
    BY <2>1 DEF Surjection
  <2> QED BY <2>2 DEF o
<1> QED BY <1>1, <1>8, <1>9, <1>12

\* The head of a sequence goes over to another, and their concatenation stays.
LEMMA HeadMoves ==
    ASSUME NEW S, NEW s \in Seq(S), NEW t \in Seq(S), t # <<>>
    PROVE  /\ Append(s, Head(t)) \o Tail(t) = s \o t
           /\ Append(s, Head(t)) \in Seq(S) /\ Tail(t) \in Seq(S) /\ Head(t) \in S
<1>1. /\ Head(t) \in S /\ Tail(t) \in Seq(S) /\ Len(Tail(t)) = Len(t) - 1
      /\ \A i \in 1 .. Len(Tail(t)) : Tail(t)[i] = t[i + 1]
  BY HeadTailProperties
<1>2. /\ Append(s, Head(t)) \in Seq(S) /\ Len(Append(s, Head(t))) = Len(s) + 1
      /\ \A i \in 1 .. Len(s) : Append(s, Head(t))[i] = s[i]
      /\ Append(s, Head(t))[Len(s) + 1] = Head(t)
  BY <1>1, AppendProperties
<1> DEFINE u == Append(s, Head(t))
           v == Tail(t)
<1>3. Head(t) = t[1]
  OBVIOUS
<1>4. Len(s) \in Nat /\ Len(t) \in Nat \ {0}
  BY LenProperties, EmptySeq
<1>5. /\ u \o v \in Seq(S) /\ Len(u \o v) = Len(u) + Len(v)
      /\ \A i \in 1 .. Len(u) + Len(v) :
            (u \o v)[i] = IF i <= Len(u) THEN u[i] ELSE v[i - Len(u)]
  BY <1>1, <1>2, ConcatProperties
<1>6. /\ s \o t \in Seq(S) /\ Len(s \o t) = Len(s) + Len(t)
      /\ \A i \in 1 .. Len(s) + Len(t) :
            (s \o t)[i] = IF i <= Len(s) THEN s[i] ELSE t[i - Len(s)]
  BY ConcatProperties
<1> HIDE DEF u, v
<1>7. /\ Len(u) = Len(s) + 1 /\ Len(v) = Len(t) - 1
      /\ \A i \in 1 .. Len(s) : u[i] = s[i]
      /\ u[Len(s) + 1] = t[1]
      /\ \A i \in 1 .. Len(v) : v[i] = t[i + 1]
  BY <1>1, <1>2, <1>3 DEF u, v
<1>8. Len(u \o v) = Len(s \o t)
  BY <1>4, <1>5, <1>6, <1>7
<1>9. ASSUME NEW i \in 1 .. Len(u \o v) PROVE (u \o v)[i] = (s \o t)[i]
  <2>1. i \in 1 .. Len(u) + Len(v) /\ i \in 1 .. Len(s) + Len(t)
    BY <1>4, <1>5, <1>6, <1>8
  <2>2. CASE i <= Len(s)
    <3>1. i \in 1 .. Len(s) /\ i <= Len(u)
      BY <1>4, <1>7, <2>1, <2>2
    <3> QED BY <1>5, <1>6, <1>7, <2>1, <3>1
  <2>3. CASE i = Len(s) + 1
    <3>1. i <= Len(u) /\ ~(i <= Len(s)) /\ i - Len(s) = 1
      BY <1>4, <1>7, <2>3
    <3> QED BY <1>5, <1>6, <1>7, <2>1, <2>3, <3>1
  <2>4. CASE i > Len(s) + 1
    <3>1. /\ ~(i <= Len(u)) /\ ~(i <= Len(s)) /\ i - Len(u) \in 1 .. Len(v)
          /\ i - Len(u) + 1 = i - Len(s)
      BY <1>4, <1>7, <2>1, <2>4
    <3> QED BY <1>5, <1>6, <1>7, <2>1, <3>1
  <2> QED BY <1>4, <2>1, <2>2, <2>3, <2>4
<1>10. u \o v = s \o t
  BY <1>5, <1>6, <1>8, <1>9, SeqEqual
<1> QED BY <1>1, <1>2, <1>10 DEF u, v

-----------------------------------------------------------------------------
(* What becomes of the flow                                                *)

\* What is lost at the end of a flow leaves the rest of it as it was.
LEMMA FlowLosesItsEnd ==
    ASSUME NEW S, NEW s \in Seq(S), NEW t \in Seq(S), NEW c, NEW E,
           InOrder(c, s \o t), NoGap(c, E, s \o t)
    PROVE  InOrder(c, s) /\ NoGap(c, E, s)
<1>1. /\ Len(s) \in Nat /\ Len(t) \in Nat /\ Len(s \o t) = Len(s) + Len(t)
      /\ \A i \in 1 .. Len(s) : i \in 1 .. Len(s \o t) /\ (s \o t)[i] = s[i]
  BY LenProperties, ConcatProperties
<1>2. InOrder(c, s)
  BY <1>1 DEF InOrder
<1>3. ASSUME NEW e \in E, NEW i \in 1 .. Len(s), Precedes(c, e, s[i])
      PROVE  \E k \in 1 .. i - 1 : s[k] = e
  <2>1. PICK k \in 1 .. i - 1 : (s \o t)[k] = e
    BY <1>1, <1>3 DEF NoGap
  <2>2. k \in 1 .. Len(s)
    BY <1>1
  <2> QED BY <1>1, <2>1, <2>2
<1> QED BY <1>2, <1>3 DEF NoGap

\* A new event changes nothing for those that began before.
LEMMA FlowOfTheOld ==
    ASSUME NEW B, NEW s \in Seq(B), NEW c, NEW d, NEW E \in SUBSET B,
           \A x \in B : d[x] = c[x],
           InOrder(c, s), NoGap(c, E, s)
    PROVE  InOrder(d, s) /\ NoGap(d, E, s)
<1>1. \A i \in 1 .. Len(s) : s[i] \in B
  BY ElementOfSeq
<1>2. \A x, y \in B : Precedes(d, x, y) <=> Precedes(c, x, y)
  BY DEF Precedes
<1> QED BY <1>1, <1>2 DEF InOrder, NoGap

\* The query goes on from where the flow stands.
LEMMA FlowGoesOn ==
    ASSUME Clock, committed \subseteq Event, IsFiniteSet(committed),
           NEW s \in Seq(committed), NEW E \in SUBSET committed, NEW cursor,
           cursor = IF s = <<>> THEN None ELSE s[Len(s)],
           InOrder(created_at, s), NoGap(created_at, E, s)
    PROVE  /\ Ordered(Unread(cursor)) \in Seq(committed)
           /\ InOrder(created_at, s \o Ordered(Unread(cursor)))
           /\ NoGap(created_at, E, s \o Ordered(Unread(cursor)))
<1> DEFINE U == Unread(cursor)
           n == Cardinality(U)
           t == Ordered(U)
           m == Len(s)
           f == s \o t
<1>1. U \subseteq committed /\ IsFiniteSet(U)
  BY FS_Subset DEF Unread
<1>2. /\ n \in Nat /\ t \in [1 .. n -> U]
      /\ \A i, k \in 1 .. n : i < k => Before(t[i], t[k])
      /\ \A e \in U : \E i \in 1 .. n : t[i] = e
  <2>1. U \in SUBSET Event
    BY <1>1
  <2> HIDE DEF U
  <2> QED BY <1>1, <2>1, OrderedIsSorted
<1>3. t \in Seq(committed) /\ Len(t) = n
  <2> HIDE DEF U, n, t
  <2> QED BY <1>1, <1>2
<1>4. m \in Nat /\ \A i \in 1 .. m : s[i] \in committed
  BY LenProperties, ElementOfSeq
<1>5. ASSUME NEW e \in committed
      PROVE  e \in U <=> s = <<>> \/ Before(s[m], e)
  <2>1. CASE s = <<>>
    BY <2>1 DEF Unread
  <2>2. CASE s # <<>>
    <3>1. m \in 1 .. m
      BY <1>4, <2>2, EmptySeq
    <3>2. cursor = s[m] /\ cursor # None
      BY <1>4, <2>2, <3>1, EventAssumption
    <3> QED BY <2>2, <3>2 DEF Unread
  <2> QED BY <2>1, <2>2
<1> HIDE DEF U, n, t
<1>6. /\ Len(f) = m + n
      /\ \A i \in 1 .. m + n : f[i] = IF i <= m THEN s[i] ELSE t[i - m]
  BY <1>3, ConcatProperties
<1>7. \A d, e \in Event : Precedes(created_at, d, e) <=> Before(d, e)
  BY DEF Precedes, Before
<1>8. \A i \in 1 .. n : t[i] \in U /\ t[i] \in Event
  BY <1>1, <1>2
<1>9. \A i \in 1 .. m, j \in 1 .. n : Before(s[i], t[j])
  <2> SUFFICES ASSUME NEW i \in 1 .. m, NEW j \in 1 .. n PROVE Before(s[i], t[j])
    OBVIOUS
  <2>1. m \in 1 .. m /\ s # <<>>
    BY <1>4, EmptySeq
  <2>2. Before(s[m], t[j])
    BY <1>1, <1>5, <1>8, <2>1
  <2>3. CASE i = m
    BY <2>2, <2>3
  <2>4. CASE i # m
    <3>1. i < m
      BY <1>4, <2>4
    <3>2. Before(s[i], s[m])
      BY <1>4, <1>7, <2>1, <3>1 DEF InOrder
    <3> QED BY <1>4, <1>8, <2>1, <2>2, <3>2, StrictOrder
  <2> QED BY <2>3, <2>4
<1>10. \A i \in 1 .. m + n : f[i] \in Event
  <2> SUFFICES ASSUME NEW i \in 1 .. m + n PROVE f[i] \in Event
    OBVIOUS
  <2>1. CASE i <= m
    BY <1>4, <1>6, <2>1
  <2>2. CASE ~(i <= m)
    <3>1. i - m \in 1 .. n
      BY <1>2, <1>4, <2>2
    <3> QED BY <1>6, <1>8, <2>2, <3>1
  <2> QED BY <2>1, <2>2
<1>11. InOrder(created_at, f)
  <2> SUFFICES ASSUME NEW i \in 1 .. m + n, NEW k \in 1 .. m + n, i < k
               PROVE  Before(f[i], f[k])
    BY <1>6, <1>7, <1>10 DEF InOrder
  <2>1. CASE k <= m
    <3>1. /\ i \in 1 .. m /\ k \in 1 .. m /\ f[i] = s[i] /\ f[k] = s[k]
      BY <1>2, <1>4, <1>6, <2>1
    <3> QED BY <1>4, <1>7, <3>1 DEF InOrder
  <2>2. CASE i <= m /\ ~(k <= m)
    <3>1. /\ i \in 1 .. m /\ k - m \in 1 .. n /\ f[i] = s[i] /\ f[k] = t[k - m]
      BY <1>2, <1>4, <1>6, <2>2
    <3> QED BY <1>9, <3>1
  <2>3. CASE ~(i <= m)
    <3>1. /\ i - m \in 1 .. n /\ k - m \in 1 .. n /\ i - m < k - m
          /\ f[i] = t[i - m] /\ f[k] = t[k - m]
      BY <1>2, <1>4, <1>6, <2>3
    <3> QED BY <1>2, <3>1
  <2> QED BY <2>1, <2>2, <2>3
<1>12. NoGap(created_at, E, f)
  <2> SUFFICES ASSUME NEW e \in E, NEW i \in 1 .. m + n, Before(e, f[i])
               PROVE  \E k \in 1 .. i - 1 : f[k] = e
    BY <1>6, <1>7, <1>10 DEF NoGap
  <2>1. CASE i <= m
    <3>1. i \in 1 .. m /\ f[i] = s[i]
      BY <1>2, <1>4, <1>6, <2>1
    <3>2. PICK k \in 1 .. i - 1 : s[k] = e
      BY <1>4, <1>7, <3>1 DEF NoGap
    <3>3. f[k] = s[k]
      BY <1>2, <1>4, <1>6, <3>1
    <3> QED BY <3>2, <3>3
  <2>2. CASE ~(i <= m)
    <3>1. i - m \in 1 .. n /\ f[i] = t[i - m]
      BY <1>2, <1>4, <1>6, <2>2
    <3>2. CASE e \in U
      <4>1. PICK j \in 1 .. n : t[j] = e
        BY <1>2, <3>2
      <4>2. j < i - m
        <5>1. ~(j = i - m)
          BY <1>8, <3>1, <4>1, StrictOrder
        <5>2. ~(i - m < j)
          <6>1. i - m < j => Before(f[i], e)
            BY <1>2, <3>1, <4>1
          <6> QED BY <1>8, <3>1, <4>1, <6>1, StrictOrder
        <5>3. j \in Int /\ i - m \in Int
          BY <1>2, <1>4, <3>1
        <5> QED BY <5>1, <5>2, <5>3
      <4>3. m + j \in 1 .. i - 1 /\ f[m + j] = t[j]
        BY <1>2, <1>4, <1>6, <3>1, <4>2
      <4> QED BY <4>1, <4>3
    <3>3. CASE e \notin U
      <4>1. s # <<>> /\ ~Before(s[m], e)
        BY <1>5, <3>3
      <4>2. m \in 1 .. m
        BY <1>4, <4>1, EmptySeq
      <4>3. e = s[m] \/ Before(e, s[m])
        BY <1>4, <4>1, <4>2, StrictOrder
      <4>4. PICK k \in 1 .. m : s[k] = e
        <5>1. CASE e = s[m]
          BY <4>2, <5>1
        <5>2. CASE Before(e, s[m])
          <6>1. PICK k \in 1 .. m - 1 : s[k] = e
            BY <1>4, <1>7, <4>2, <5>2 DEF NoGap
          <6> QED BY <1>4, <6>1
        <5> QED BY <4>3, <5>1, <5>2
      <4>5. k \in 1 .. i - 1 /\ f[k] = s[k]
        BY <1>2, <1>4, <1>6, <2>2
      <4> QED BY <4>4, <4>5
    <3> QED BY <3>2, <3>3
  <2> QED BY <2>1, <2>2
<1> QED BY <1>3, <1>11, <1>12 DEF t, U

-----------------------------------------------------------------------------
(* The invariant                                                           *)

\* The flow and its parts are sequences of committed events.
LEMMA FlowType ==
    ASSUME TypeOK
    PROVE  /\ received \o wire \in Seq(committed)
           /\ Pending \in Seq(committed)
           /\ Flow \in Seq(committed)
           /\ committed \subseteq begun /\ begun \subseteq Event /\ Clock
<1>1. /\ received \in Seq(committed) /\ wire \in Seq(committed)
      /\ events \in Seq(committed)
      /\ committed \subseteq begun /\ begun \subseteq Event /\ Clock
  BY DEF TypeOK, Clock
<1>2. received \o wire \in Seq(committed)
  BY <1>1, ConcatProperties
<1>3. Pending \in Seq(committed)
  BY <1>1, EmptySeq DEF Pending
<1> QED BY <1>1, <1>2, <1>3, ConcatProperties DEF Flow

LEMMA EmptyFlow ==
    <<>> \o <<>> = <<>> /\ Len(<<>>) = 0 /\ \A S : <<>> \in Seq(S)
<1>1. <<>> \in Seq({}) /\ Len(<<>>) = 0 /\ \A S : <<>> \in Seq(S)
  BY EmptySeq
<1> QED BY <1>1, ConcatEmptySeq

LEMMA Start == Init => InductiveInv
<1> SUFFICES ASSUME Init PROVE InductiveInv
  OBVIOUS
<1> USE DEF Init
<1>1. TypeOK
  <2>1. \A S : <<>> \in Seq(S)
    BY EmptySeq
  <2>2. drops \in 0 .. MaxDrops /\ now \in Nat
    BY BoundAssumption
  <2>3. created_at \in [Event -> Nat]
    OBVIOUS
  <2> QED BY <2>1, <2>2, <2>3 DEF TypeOK
<1>2. IsFiniteSet(begun)
  BY FS_EmptySet
<1>3. Flow = <<>>
  BY EmptyFlow DEF Flow, Pending
<1>4. Len(Flow) = 0
  BY <1>3, EmptyFlow
<1>5. FlowInOrder /\ FlowIsComplete
  BY <1>4 DEF FlowInOrder, FlowIsComplete, InOrder, NoGap
<1>6. CursorIsSent /\ SendsSomething
  BY DEF CursorIsSent, SendsSomething
<1> QED BY <1>1, <1>2, <1>5, <1>6 DEF InductiveInv

-----------------------------------------------------------------------------
(* Each step keeps it                                                      *)

LEMMA BeginStep ==
    ASSUME InductiveInv, NEW e \in Event, Begin(e)
    PROVE  InductiveInv'
<1>1. /\ TypeOK /\ IsFiniteSet(begun) /\ FlowInOrder /\ FlowIsComplete
      /\ CursorIsSent /\ SendsSomething
  BY DEF InductiveInv
<1>2. /\ e \notin begun /\ now' \in now + ClockStep .. now + 1
      /\ begun' = begun \cup {e}
      /\ created_at' = [created_at EXCEPT ![e] = now']
      /\ committed' = committed /\ overtaken' = overtaken
      /\ pc' = pc /\ last_event_id' = last_event_id /\ events' = events
      /\ events_sent' = events_sent
      /\ wire' = wire /\ received' = received /\ drops' = drops
  BY DEF Begin, server
<1>3. now' \in Nat
  BY <1>1, <1>2, BoundAssumption DEF TypeOK
<1>4. TypeOK'
  BY <1>1, <1>2, <1>3 DEF TypeOK
<1>5. IsFiniteSet(begun')
  BY <1>1, <1>2, FS_AddElement
<1>6. Flow' = Flow
  BY <1>2 DEF Flow, Pending
<1>7. /\ Flow \in Seq(begun) /\ committed \ overtaken \in SUBSET begun
  BY <1>1, FlowType, SeqMonotonic
<1>8. \A d \in begun : created_at'[d] = created_at[d]
  BY <1>1, <1>2, FlowType DEF Clock
<1>9. InOrder(created_at', Flow) /\ NoGap(created_at', committed \ overtaken, Flow)
  BY <1>1, <1>7, <1>8, FlowOfTheOld DEF FlowInOrder, FlowIsComplete
<1>10. FlowInOrder' /\ FlowIsComplete'
  BY <1>2, <1>6, <1>9 DEF FlowInOrder, FlowIsComplete
<1>11. CursorIsSent' /\ SendsSomething'
  BY <1>1, <1>2 DEF CursorIsSent, SendsSomething
<1> QED BY <1>4, <1>5, <1>10, <1>11 DEF InductiveInv

LEMMA CommitStep ==
    ASSUME InductiveInv, NEW e \in Event, Commit(e)
    PROVE  InductiveInv'
<1>1. /\ TypeOK /\ IsFiniteSet(begun) /\ FlowInOrder /\ FlowIsComplete
      /\ CursorIsSent /\ SendsSomething
  BY DEF InductiveInv
<1>2. /\ e \in begun \ committed
      /\ committed' = committed \cup {e}
      /\ overtaken' = IF \E d \in committed : Before(e, d)
                      THEN overtaken \cup {e} ELSE overtaken
      /\ now' = now /\ begun' = begun /\ created_at' = created_at
      /\ pc' = pc /\ last_event_id' = last_event_id /\ events' = events
      /\ events_sent' = events_sent
      /\ wire' = wire /\ received' = received /\ drops' = drops
  BY DEF Commit, server
<1>3. /\ events' \in Seq(committed') /\ wire' \in Seq(committed')
      /\ received' \in Seq(committed')
  BY <1>1, <1>2, SeqMonotonic DEF TypeOK
<1>4. TypeOK'
  BY <1>1, <1>2, <1>3 DEF TypeOK
<1>5. Flow' = Flow
  BY <1>2 DEF Flow, Pending
<1>6. \A i \in 1 .. Len(Flow) : Flow[i] \in committed
  BY <1>1, FlowType, ElementOfSeq
<1>7. ASSUME NEW d \in committed' \ overtaken', NEW i \in 1 .. Len(Flow),
             Precedes(created_at, d, Flow[i])
      PROVE  \E k \in 1 .. i - 1 : Flow[k] = d
  <2>1. Before(d, Flow[i])
    BY <1>7 DEF Precedes, Before
  <2>2. d # e
    BY <1>2, <1>6, <1>7, <2>1
  <2>3. d \in committed \ overtaken
    BY <1>2, <1>7, <2>2
  <2> QED BY <1>1, <1>7, <2>3 DEF FlowIsComplete, NoGap
<1>8. FlowInOrder' /\ FlowIsComplete'
  BY <1>1, <1>2, <1>5, <1>7 DEF FlowInOrder, FlowIsComplete, NoGap
<1>9. CursorIsSent' /\ SendsSomething'
  BY <1>1, <1>2 DEF CursorIsSent, SendsSomething
<1> QED BY <1>1, <1>2, <1>4, <1>8, <1>9 DEF InductiveInv

\* A step that leaves the flow and its events alone.
LEMMA SameFlow ==
    ASSUME InductiveInv, Flow' = Flow, UNCHANGED recorder
    PROVE  IsFiniteSet(begun') /\ FlowInOrder' /\ FlowIsComplete'
<1>1. created_at' = created_at /\ committed' = committed /\ overtaken' = overtaken
      /\ begun' = begun
  BY DEF recorder
<1> QED BY <1>1 DEF InductiveInv, FlowInOrder, FlowIsComplete

LEMMA ConnectStep == ASSUME InductiveInv, Connect PROVE InductiveInv'
<1>1. TypeOK
  BY DEF InductiveInv
<1>2. /\ pc = "closed" /\ wire = <<>> /\ pc' = "query"
      /\ last_event_id' = IF received = <<>> THEN None ELSE received[Len(received)]
      /\ events' = <<>> /\ events_sent' = FALSE
      /\ UNCHANGED recorder /\ wire' = wire /\ received' = received /\ drops' = drops
  BY DEF Connect, LastReceived, Last
<1>3. received \in Seq(committed) /\ received \o wire = received
  BY <1>1, <1>2, ConcatEmptySeq DEF TypeOK
<1>4. last_event_id' \in committed \cup {None}
  <2>1. CASE received = <<>>
    BY <1>2, <2>1
  <2>2. CASE received # <<>>
    <3>1. Len(received) \in 1 .. Len(received)
      BY <1>3, <2>2, EmptySeq
    <3> QED BY <1>2, <1>3, <2>2, <3>1, ElementOfSeq
  <2> QED BY <2>1, <2>2
<1>5. TypeOK'
  BY <1>1, <1>2, <1>4, EmptySeq DEF TypeOK, recorder
<1>6. Flow' = Flow
  BY <1>2 DEF Flow, Pending
<1>7. CursorIsSent' /\ SendsSomething'
  BY <1>2, <1>3 DEF CursorIsSent, SendsSomething
<1> QED BY <1>2, <1>5, <1>6, <1>7, SameFlow DEF InductiveInv

LEMMA QueryStep == ASSUME InductiveInv, Query PROVE InductiveInv'
<1>1. /\ TypeOK /\ IsFiniteSet(begun) /\ FlowInOrder /\ FlowIsComplete
      /\ CursorIsSent
  BY DEF InductiveInv
<1>2. /\ pc = "query"
      /\ events' = Ordered(Unread(last_event_id))
      /\ pc' = CASE events' # <<>> -> "send"
                 [] events' = <<>> /\ events_sent -> "wait"
                 [] OTHER -> "lastWait"
      /\ UNCHANGED recorder /\ last_event_id' = last_event_id
      /\ events_sent' = events_sent
      /\ wire' = wire /\ received' = received /\ drops' = drops
  BY DEF Query
<1>3. /\ pc' \in {"send", "wait", "lastWait"}
      /\ pc' = "send" <=> events' # <<>>
  BY <1>2
<1> DEFINE s == received \o wire
<1>4. s \in Seq(committed)
  BY <1>1, FlowType
<1>5. Flow = s
  BY <1>2, <1>4, ConcatEmptySeq DEF Flow, Pending
<1>6. /\ committed \subseteq Event /\ IsFiniteSet(committed) /\ Clock
      /\ committed \ overtaken \in SUBSET committed
  BY <1>1, FlowType, FS_Subset
<1>7. last_event_id = IF s = <<>> THEN None ELSE s[Len(s)]
  BY <1>1, <1>2 DEF CursorIsSent
<1>8. InOrder(created_at, s) /\ NoGap(created_at, committed \ overtaken, s)
  BY <1>1, <1>5 DEF FlowInOrder, FlowIsComplete
<1>9. /\ events' \in Seq(committed)
      /\ InOrder(created_at, s \o events')
      /\ NoGap(created_at, committed \ overtaken, s \o events')
  <2> HIDE DEF s
  <2> QED BY <1>2, <1>4, <1>6, <1>7, <1>8, FlowGoesOn
<1>10. Flow' = s \o events'
  <2>1. s' = s
    BY <1>2
  <2>2. Pending' = events'
    BY <1>3 DEF Pending
  <2> QED BY <2>1, <2>2 DEF Flow
<1>11. FlowInOrder' /\ FlowIsComplete'
  BY <1>2, <1>9, <1>10 DEF FlowInOrder, FlowIsComplete, recorder
<1>12. TypeOK'
  BY <1>1, <1>2, <1>3, <1>9 DEF TypeOK, recorder
<1>13. CursorIsSent' /\ SendsSomething'
  BY <1>2, <1>3, <1>7 DEF CursorIsSent, SendsSomething
<1> QED BY <1>1, <1>2, <1>11, <1>12, <1>13 DEF InductiveInv, recorder

LEMMA SendStep == ASSUME InductiveInv, Send PROVE InductiveInv'
<1>1. TypeOK /\ SendsSomething
  BY DEF InductiveInv
<1>2. /\ pc = "send"
      /\ wire' = Append(wire, Head(events))
      /\ last_event_id' = Head(events)
      /\ events_sent' = TRUE
      /\ events' = Tail(events)
      /\ pc' = IF events' = <<>> THEN "query" ELSE "send"
      /\ UNCHANGED recorder /\ received' = received /\ drops' = drops
  BY DEF Send
<1>3. /\ events \in Seq(committed) /\ wire \in Seq(committed)
      /\ received \in Seq(committed)
  BY <1>1 DEF TypeOK
<1>4. /\ wire' \in Seq(committed) /\ events' \in Seq(committed)
      /\ last_event_id' \in committed
      /\ wire' \o events' = wire \o events
  BY <1>1, <1>2, <1>3, HeadMoves DEF SendsSomething
<1>5. TypeOK'
  BY <1>1, <1>2, <1>4 DEF TypeOK, recorder
<1>6. Flow' = Flow
  <2>1. Pending = events /\ Pending' = events'
    BY <1>2 DEF Pending
  <2>2. \A s, t, u \in Seq(committed) : (s \o t) \o u = s \o (t \o u)
    BY ConcatAssociative
  <2>3. (received \o wire') \o events' = received \o (wire' \o events')
    BY <1>3, <1>4, <2>2
  <2>4. (received \o wire) \o events = received \o (wire \o events)
    BY <1>3, <2>2
  <2> QED BY <1>2, <1>4, <2>1, <2>3, <2>4 DEF Flow
<1>7. received \o wire' # <<>> /\ (received \o wire')[Len(received \o wire')] = last_event_id'
  <2>1. Len(received) \in Nat /\ Len(wire) \in Nat
    BY <1>3, LenProperties
  <2>2. Len(wire') = Len(wire) + 1 /\ wire'[Len(wire) + 1] = last_event_id'
    <3>1. Head(events) \in committed
      BY <1>2, <1>4
    <3> QED BY <1>2, <1>3, <3>1, AppendProperties
  <2>3. /\ Len(received \o wire') = Len(received) + Len(wire) + 1
        /\ \A i \in 1 .. Len(received) + Len(wire') : (received \o wire')[i] =
              IF i <= Len(received) THEN received[i] ELSE wire'[i - Len(received)]
    <3>1. /\ Len(received \o wire') = Len(received) + Len(wire')
          /\ \A i \in 1 .. Len(received) + Len(wire') : (received \o wire')[i] =
                IF i <= Len(received) THEN received[i] ELSE wire'[i - Len(received)]
      BY <1>3, <1>4, ConcatProperties
    <3> QED BY <2>1, <2>2, <3>1
  <2> DEFINE l == Len(received) + Len(wire) + 1
  <2>4. /\ l \in 1 .. Len(received) + Len(wire') /\ ~(l <= Len(received))
        /\ l - Len(received) = Len(wire) + 1
    BY <2>1, <2>2
  <2>5. (received \o wire')[l] = last_event_id'
    BY <2>2, <2>3, <2>4
  <2>6. Len(received \o wire') # 0
    BY <2>1, <2>3
  <2> QED BY <2>3, <2>5, <2>6, EmptyFlow
<1>8. CursorIsSent' /\ SendsSomething'
  BY <1>2, <1>7 DEF CursorIsSent, SendsSomething
<1> QED BY <1>2, <1>5, <1>6, <1>8, SameFlow DEF InductiveInv

LEMMA AwakeStep == ASSUME InductiveInv, Awake PROVE InductiveInv'
<1>1. /\ pc = "wait" /\ pc' = "query" /\ events_sent' = FALSE
      /\ UNCHANGED recorder /\ last_event_id' = last_event_id /\ events' = events
      /\ wire' = wire /\ received' = received /\ drops' = drops
  BY DEF Awake
<1>2. TypeOK'
  BY <1>1 DEF InductiveInv, TypeOK, recorder
<1>3. Flow' = Flow
  BY <1>1 DEF Flow, Pending
<1>4. CursorIsSent' /\ SendsSomething'
  BY <1>1 DEF InductiveInv, CursorIsSent, SendsSomething
<1> QED BY <1>1, <1>2, <1>3, <1>4, SameFlow DEF InductiveInv

LEMMA CloseStep == ASSUME InductiveInv, Close PROVE InductiveInv'
<1>1. /\ pc = "lastWait" /\ pc' = "closed"
      /\ UNCHANGED recorder /\ last_event_id' = last_event_id /\ events' = events
      /\ events_sent' = events_sent
      /\ wire' = wire /\ received' = received /\ drops' = drops
  BY DEF Close
<1>2. TypeOK'
  BY <1>1 DEF InductiveInv, TypeOK, recorder
<1>3. Flow' = Flow
  BY <1>1 DEF Flow, Pending
<1>4. CursorIsSent' /\ SendsSomething'
  BY <1>1 DEF CursorIsSent, SendsSomething
<1> QED BY <1>1, <1>2, <1>3, <1>4, SameFlow DEF InductiveInv

LEMMA ReceiveStep == ASSUME InductiveInv, Receive PROVE InductiveInv'
<1>1. TypeOK
  BY DEF InductiveInv
<1>2. /\ wire # <<>>
      /\ received' = Append(received, Head(wire)) /\ wire' = Tail(wire)
      /\ UNCHANGED recorder /\ pc' = pc /\ last_event_id' = last_event_id
      /\ events' = events /\ events_sent' = events_sent /\ drops' = drops
  BY DEF Receive, server
<1>3. received \in Seq(committed) /\ wire \in Seq(committed)
  BY <1>1 DEF TypeOK
<1>4. /\ received' \in Seq(committed) /\ wire' \in Seq(committed)
      /\ received' \o wire' = received \o wire
  BY <1>2, <1>3, HeadMoves
<1>5. TypeOK'
  BY <1>1, <1>2, <1>4 DEF TypeOK, recorder
<1>6. Flow' = Flow
  BY <1>2, <1>4 DEF Flow, Pending
<1>7. CursorIsSent' /\ SendsSomething'
  BY <1>2, <1>4 DEF InductiveInv, CursorIsSent, SendsSomething
<1> QED BY <1>2, <1>5, <1>6, <1>7, SameFlow DEF InductiveInv

\* What the client has received is the beginning of the flow.
LEMMA ReceivedIsFlow ==
    ASSUME InductiveInv, NEW E, NoGap(created_at, E, Flow)
    PROVE  InOrder(created_at, received) /\ NoGap(created_at, E, received)
<1>1. TypeOK /\ InOrder(created_at, Flow)
  BY DEF InductiveInv, FlowInOrder
<1>2. /\ received \in Seq(committed) /\ wire \in Seq(committed)
      /\ Pending \in Seq(committed) /\ received \o wire \in Seq(committed)
  BY <1>1, FlowType DEF TypeOK
<1>3. /\ InOrder(created_at, (received \o wire) \o Pending)
      /\ NoGap(created_at, E, (received \o wire) \o Pending)
  BY <1>1 DEF Flow
<1>4. InOrder(created_at, received \o wire) /\ NoGap(created_at, E, received \o wire)
  BY <1>2, <1>3, FlowLosesItsEnd
<1> QED BY <1>2, <1>4, FlowLosesItsEnd

LEMMA DropStep == ASSUME InductiveInv, Drop PROVE InductiveInv'
<1>1. TypeOK /\ IsFiniteSet(begun) /\ FlowIsComplete
  BY DEF InductiveInv
<1>2. /\ drops < MaxDrops /\ drops' = drops + 1
      /\ pc' = "closed" /\ wire' = <<>>
      /\ UNCHANGED recorder /\ last_event_id' = last_event_id
      /\ events' = events /\ events_sent' = events_sent /\ received' = received
  BY DEF Drop
<1>3. drops' \in 0 .. MaxDrops
  <2>1. drops \in 0 .. MaxDrops
    BY <1>1 DEF TypeOK
  <2> QED BY <1>2, <2>1, BoundAssumption
<1>4. TypeOK'
  BY <1>1, <1>2, <1>3, EmptyFlow DEF TypeOK, recorder
<1>5. Flow' = received
  <2>1. received \in Seq(committed)
    BY <1>1 DEF TypeOK
  <2>2. Pending' = <<>>
    BY <1>2 DEF Pending
  <2> QED BY <1>2, <2>1, <2>2, ConcatEmptySeq DEF Flow
<1>6. /\ InOrder(created_at, received)
      /\ NoGap(created_at, committed \ overtaken, received)
  BY <1>1, ReceivedIsFlow DEF FlowIsComplete
<1>7. FlowInOrder' /\ FlowIsComplete'
  BY <1>2, <1>5, <1>6 DEF FlowInOrder, FlowIsComplete, recorder
<1>8. CursorIsSent' /\ SendsSomething'
  BY <1>2 DEF CursorIsSent, SendsSomething
<1> QED BY <1>1, <1>2, <1>4, <1>7, <1>8 DEF InductiveInv, recorder

LEMMA Step == InductiveInv /\ [Next]_vars => InductiveInv'
<1> SUFFICES ASSUME InductiveInv, [Next]_vars PROVE InductiveInv'
  OBVIOUS
<1>1. CASE UNCHANGED vars
  <2>1. TypeOK'
    BY <1>1 DEF InductiveInv, TypeOK, vars
  <2>2. Flow' = Flow /\ UNCHANGED recorder
    BY <1>1 DEF Flow, Pending, vars, recorder
  <2>3. CursorIsSent' /\ SendsSomething'
    BY <1>1 DEF InductiveInv, CursorIsSent, SendsSomething, vars
  <2> QED BY <2>1, <2>2, <2>3, SameFlow DEF InductiveInv
<1> QED BY <1>1, BeginStep, CommitStep, ConnectStep, QueryStep, SendStep, AwakeStep,
           CloseStep, ReceiveStep, DropStep, Zenon DEF Next, Serve

LEMMA Inductive == Spec => []InductiveInv
<1> QED BY Start, Step, PTL DEF Spec

-----------------------------------------------------------------------------
(* What the invariant promises                                             *)

LEMMA ReceivedType ==
    ASSUME InductiveInv
    PROVE  /\ DOMAIN received = 1 .. Len(received)
           /\ \A i \in 1 .. Len(received) : received[i] \in committed
<1>1. received \in Seq(committed)
  BY DEF InductiveInv, TypeOK
<1> QED BY <1>1, LenProperties, ElementOfSeq

\* Clock, rows, cursor and what is under way stay what they are: all that is
\* read, sent or received is an event that was committed.
THEOREM TypeCorrect == Spec => []TypeOK
<1>1. InductiveInv => TypeOK
  BY DEF InductiveInv
<1> QED BY <1>1, Inductive, PTL

\* However often the connection breaks and is made again, a client receives
\* in the stream's order and nothing twice (event_stream, list_budget_events).
THEOREM ReceivedInOrder == Spec => []InOrderWithoutRepeats
<1>1. InductiveInv => InOrderWithoutRepeats
  <2> SUFFICES ASSUME InductiveInv PROVE InOrderWithoutRepeats
    OBVIOUS
  <2>1. InOrder(created_at, received)
    BY ReceivedIsFlow DEF InductiveInv, FlowIsComplete
  <2> QED BY <2>1, ReceivedType DEF InOrder, InOrderWithoutRepeats, Precedes, Before
<1> QED BY <1>1, Inductive, PTL

\* The one way to be passed over by the cursor is to be committed after an
\* event that follows: any number of requests, streams and broken connections
\* open no other gap (event_stream, list_budget_events).
THEOREM NoOtherGap == Spec => []OnlyOvertakenPassedOver
<1>1. InductiveInv => OnlyOvertakenPassedOver
  <2> SUFFICES ASSUME InductiveInv PROVE OnlyOvertakenPassedOver
    OBVIOUS
  <2>1. NoGap(created_at, committed \ overtaken, received)
    BY ReceivedIsFlow DEF InductiveInv, FlowIsComplete
  <2> QED BY <2>1, ReceivedType DEF NoGap, OnlyOvertakenPassedOver, Precedes, Before
<1> QED BY <1>1, Inductive, PTL
=============================================================================
