---------------------------- MODULE ServingProofs ----------------------------
(***************************************************************************)
(* Proofs about Serving, for every set of requests and every size of the   *)
(* pool: its types, and its promises of safety.                            *)
(***************************************************************************)
EXTENDS Serving, FiniteSetTheorems, TLAPS

\* Exports, and nothing else, open a second session.
SecondsAreExports ==
    \A r \in Request : pc[r] \in {"second", "reading", "sent"} => kind[r] = "export"

\* A generator to be finalised belongs to a client that has gone away.
OrphansAreGone == \A r \in orphan : pc[r] = "gone"

\* A connection the database dropped is noticed by the query made on it.
LostAreInUse == \A r \in lost : pc[r] \in {"busy", "reread", "reading", "streaming"}

\* Who lost its connection, or is in service during an outage, was disturbed.
OutagesAreNoticed ==
    /\ lost \subseteq disturbed
    /\ ~up => \A r \in Request : InService(r) => r \in disturbed

InductiveInv ==
    /\ TypeOK
    /\ ConnectionsComeBack
    /\ SecondsAreExports
    /\ OrphansAreGone
    /\ LostAreInUse
    /\ OutagesAreNoticed

-----------------------------------------------------------------------------
(* Counting connections                                                    *)

Numbered(h) == {c \in Request \X (1 .. 2) : c[2] <= h[c[1]]}

\* The connections of a request change in number, those of nobody else.
LEMMA CountOfOne ==
    ASSUME NEW h \in [Request -> 0 .. 2], NEW r \in Request, NEW n \in 0 .. 2
    PROVE  /\ IsFiniteSet(Numbered(h))
           /\ Cardinality(Numbered(h)) \in Nat
           /\ Cardinality(Numbered(h)) >= h[r]
           /\ Cardinality(Numbered([h EXCEPT ![r] = n])) = Cardinality(Numbered(h)) - h[r] + n
<1> DEFINE Mine(m) == {<<r, i>> : i \in 1 .. m}
           Others  == {c \in Numbered(h) : c[1] # r}
<1>1. IsFiniteSet(Request \X (1 .. 2))
  <2>1. IsFiniteSet(1 .. 2)
    BY 1 \in Int, 2 \in Int, FS_Interval
  <2> QED BY <2>1, RequestAssumption, FS_Product
<1>2. \A g : IsFiniteSet(Numbered(g))
  BY <1>1, FS_Subset DEF Numbered
<1>3. IsFiniteSet(Others) /\ Cardinality(Others) \in Nat
  BY <1>2, FS_Subset, FS_CardinalityType
<1>4. ASSUME NEW m \in 0 .. 2, NEW g \in [Request -> 0 .. 2],
             g[r] = m, \A q \in Request \ {r} : g[q] = h[q]
      PROVE  Cardinality(Numbered(g)) = Cardinality(Others) + m
  <2>1. Numbered(g) = Others \cup Mine(m)
    <3>1. ASSUME NEW q \in Request, NEW i \in 1 .. 2
          PROVE  <<q, i>> \in Numbered(g) <=> <<q, i>> \in Others \/ <<q, i>> \in Mine(m)
      <4>1. CASE q = r
        BY <4>1, <1>4 DEF Numbered
      <4>2. CASE q # r
        BY <4>2, <1>4 DEF Numbered
      <4> QED BY <4>1, <4>2
    <3>2. /\ Numbered(g) \subseteq Request \X (1 .. 2)
          /\ Others \subseteq Request \X (1 .. 2) /\ Mine(m) \subseteq Request \X (1 .. 2)
      BY DEF Numbered
    <3> HIDE DEF Others, Mine
    <3>3. ASSUME NEW c \in Request \X (1 .. 2)
          PROVE  c \in Numbered(g) <=> c \in Others \cup Mine(m)
      <4>1. PICK q \in Request, i \in 1 .. 2 : c = <<q, i>>
        OBVIOUS
      <4> QED BY <3>1, <4>1
    <3> QED BY <3>2, <3>3
  <2>2. IsFiniteSet(Mine(m)) /\ Cardinality(Mine(m)) = m
    <3>1. CASE m = 0
      <4>1. Mine(m) = {}
        BY <3>1
      <4> QED BY <3>1, <4>1, FS_EmptySet
    <3>2. CASE m = 1
      <4>1. Mine(m) = {<<r, 1>>}
        BY <3>2
      <4> QED BY <3>2, <4>1, FS_Singleton
    <3>3. CASE m = 2
      <4>1. Mine(m) = {<<r, 1>>} \cup {<<r, 2>>} /\ <<r, 2>> \notin {<<r, 1>>}
        BY <3>3
      <4>2. IsFiniteSet({<<r, 1>>}) /\ Cardinality({<<r, 1>>}) = 1
        BY FS_Singleton
      <4>3. /\ IsFiniteSet({<<r, 1>>} \cup {<<r, 2>>})
            /\ Cardinality({<<r, 1>>} \cup {<<r, 2>>}) = 1 + 1
        BY <4>1, <4>2, FS_AddElement
      <4> QED BY <3>3, <4>1, <4>3
    <3> QED BY <3>1, <3>2, <3>3
  <2>3. Others \cap Mine(m) = {}
    OBVIOUS
  <2> HIDE DEF Others, Mine
  <2>4. Cardinality(Others \cap Mine(m)) = 0
    BY <2>3, FS_EmptySet
  <2>5. Cardinality(Others \cup Mine(m)) =
            Cardinality(Others) + Cardinality(Mine(m)) - Cardinality(Others \cap Mine(m))
    BY <1>3, <2>2, FS_Union
  <2> QED BY <1>3, <2>1, <2>2, <2>4, <2>5
<1>5. Cardinality(Numbered(h)) = Cardinality(Others) + h[r]
  BY <1>4
<1>6. Cardinality(Numbered([h EXCEPT ![r] = n])) = Cardinality(Others) + n
  BY <1>4
<1> HIDE DEF Others
<1> QED BY <1>2, <1>3, <1>5, <1>6

HeldBy == [r \in Request |-> Held(r)]

LEMMA ConnectionsByRequest ==
    /\ HeldBy \in [Request -> 0 .. 2]
    /\ Connections = Numbered(HeldBy)
<1>1. HeldBy \in [Request -> 0 .. 2]
  BY DEF HeldBy, Held
<1>2. \A c \in Request \X (1 .. 2) : c[2] <= Held(c[1]) <=> c[2] <= HeldBy[c[1]]
  BY DEF HeldBy
<1> QED BY <1>1, <1>2 DEF Connections, Numbered

\* A request goes on, the others stay where they are.
LEMMA CountOfStep ==
    ASSUME TypeOK, NEW r \in Request, NEW next, pc' = [pc EXCEPT ![r] = next]
    PROVE  /\ Held(r) \in 0 .. 2 /\ Held(r)' \in 0 .. 2
           /\ Cardinality(Connections) \in Nat
           /\ Cardinality(Connections) >= Held(r)
           /\ Cardinality(Connections') = Cardinality(Connections) - Held(r) + Held(r)'
<1>1. Held(r) \in 0 .. 2 /\ Held(r)' \in 0 .. 2
  BY DEF Held
<1>2. HeldBy' = [HeldBy EXCEPT ![r] = Held(r)']
  <2>1. \A q \in Request : Held(q)' = IF q = r THEN Held(r)' ELSE Held(q)
    BY DEF TypeOK, Held
  <2>2. HeldBy' = [q \in Request |-> Held(q)']
    BY DEF HeldBy
  <2>3. [HeldBy EXCEPT ![r] = Held(r)'] = [q \in Request |-> IF q = r THEN Held(r)' ELSE Held(q)]
    BY DEF HeldBy
  <2> QED BY <2>1, <2>2, <2>3
<1>3. (Connections = Numbered(HeldBy))'
  BY ConnectionsByRequest, PTL
<1>4. HeldBy[r] = Held(r)
  BY DEF HeldBy
<1> QED BY <1>1, <1>2, <1>3, <1>4, ConnectionsByRequest, CountOfOne

\* The pool has counted whatever a request gives back.
LEMMA PoolCounts ==
    ASSUME TypeOK, ConnectionsComeBack
    PROVE  /\ IsFiniteSet(orphan) /\ Cardinality(orphan) \in Nat
           /\ orphan # {} => Cardinality(orphan) >= 1
           /\ \A r \in Request : Held(r) <= out
<1>1. IsFiniteSet(orphan) /\ Cardinality(orphan) \in Nat
  BY RequestAssumption, FS_Subset, FS_CardinalityType DEF TypeOK
<1>2. orphan # {} => Cardinality(orphan) >= 1
  BY <1>1, FS_EmptySet
<1>3. ASSUME NEW r \in Request PROVE Held(r) <= out
  <2>1. HeldBy[r] = Held(r) /\ HeldBy[r] \in 0 .. 2
    BY ConnectionsByRequest DEF HeldBy
  <2>2. Cardinality(Connections) \in Nat /\ Cardinality(Connections) >= HeldBy[r]
    BY <2>1, ConnectionsByRequest, CountOfOne
  <2> QED BY <1>1, <2>1, <2>2 DEF ConnectionsComeBack
<1> QED BY <1>1, <1>2, <1>3

-----------------------------------------------------------------------------
(* The steps                                                               *)

LEMMA InitInvariant == Init => InductiveInv
<1> SUFFICES ASSUME Init PROVE InductiveInv
  OBVIOUS
<1>1. TypeOK
  BY PoolAssumption DEF Init, TypeOK, Capacity, Kind
<1>2. ConnectionsComeBack
  <2>1. \A r \in Request : Held(r) = 0
    BY DEF Init, Held
  <2>2. Connections = {}
    BY <2>1 DEF Connections
  <2> QED BY <2>2, FS_EmptySet DEF Init, ConnectionsComeBack
<1>3. SecondsAreExports /\ OrphansAreGone /\ LostAreInUse /\ OutagesAreNoticed
  BY DEF Init, SecondsAreExports, OrphansAreGone, LostAreInUse, OutagesAreNoticed
<1> QED BY <1>1, <1>2, <1>3 DEF InductiveInv

Stage == {"new", "first", "busy", "again", "reread", "second",
          "reading", "streaming", "sent"} \cup Ended

LEMMA StageHas == {"ok", "again", "sent", "gone"} \subseteq Stage
BY DEF Stage, Ended

\* What the pool keeps of n connections that come back.
LEMMA GivingBack ==
    ASSUME TypeOK, NEW n \in 0 .. 2, n <= out, GiveBack(n)
    PROVE  out' \in 0 .. Capacity /\ idle' \in 0 .. PoolSize /\ stale' \in 0 .. idle'
<1> DEFINE S == {idle + n, PoolSize}
<1>1. out' = out - n /\ idle' = Min(S) /\ stale' = stale
  BY DEF GiveBack
<1>2. /\ PoolSize \in Nat /\ Capacity \in Nat
      /\ out \in 0 .. Capacity /\ idle \in 0 .. PoolSize /\ stale \in 0 .. idle
  BY PoolAssumption DEF TypeOK, Capacity
<1>3. \E m \in S : \A k \in S : m <= k
  <2>1. CASE idle + n <= PoolSize
    BY <2>1, <1>2
  <2>2. CASE ~(idle + n <= PoolSize)
    BY <2>2, <1>2
  <2> QED BY <2>1, <2>2
<1>4. Min(S) \in S /\ \A k \in S : Min(S) <= k
  BY <1>3 DEF Min
<1> QED BY <1>1, <1>2, <1>4

LEMMA LeavingKeepsInv ==
    ASSUME InductiveInv,
           NEW r \in Request, NEW n \in 0 .. 2, NEW next \in Stage,
           Leave(r, n, next), InService(r),
           next \in {"second", "reading", "sent"} => kind[r] = "export",
           \/ orphan' = orphan /\ Held(r)' = Held(r) - n
           \/ orphan' = orphan \cup {r} /\ next = "gone" /\ n = 1 /\ Held(r) = 2
    PROVE  InductiveInv'
<1>0. /\ TypeOK /\ ConnectionsComeBack /\ SecondsAreExports /\ OrphansAreGone
      /\ LostAreInUse /\ OutagesAreNoticed
  BY DEF InductiveInv
<1>1. /\ pc' = [pc EXCEPT ![r] = next]
      /\ GiveBack(n)
      /\ lost' = lost \ {r}
      /\ kind' = kind /\ up' = up /\ outages' = outages /\ disturbed' = disturbed
  BY DEF Leave, database
<1>2. r \notin orphan
  BY <1>0 DEF OrphansAreGone, InService, Ended
<1>3. pc' \in [Request -> Stage] /\ pc'[r] = next
  BY <1>0, <1>1 DEF TypeOK, Stage
<1>4. Held(r) \in 0 .. 2 /\ n <= Held(r) /\ n <= out
  <2>1. Held(r) \in 0 .. 2 /\ Held(r)' \in 0 .. 2
    BY <1>0, <1>1, CountOfStep
  <2>2. n <= Held(r)
    BY <2>1
  <2>3. out \in Int /\ Held(r) <= out
    BY <1>0, PoolCounts, PoolAssumption DEF TypeOK, Capacity
  <2> QED BY <2>1, <2>2, <2>3
<1>5. TypeOK'
  <2>1. out' \in 0 .. Capacity /\ idle' \in 0 .. PoolSize /\ stale' \in 0 .. idle'
    BY <1>0, <1>1, <1>4, GivingBack
  <2> QED BY <1>0, <1>1, <1>3, <2>1 DEF TypeOK, Stage
<1>6. ConnectionsComeBack'
  <2>1. /\ Cardinality(Connections) \in Nat
        /\ Cardinality(Connections') = Cardinality(Connections) - Held(r) + Held(r)'
    BY <1>0, <1>1, CountOfStep
  <2>2. IsFiniteSet(orphan) /\ Cardinality(orphan) \in Nat
    BY <1>0, PoolCounts
  <2>3. out = Cardinality(Connections) + Cardinality(orphan) /\ out' = out - n
    BY <1>0, <1>1 DEF ConnectionsComeBack, GiveBack
  <2>4. CASE orphan' = orphan /\ Held(r)' = Held(r) - n
    BY <1>4, <2>1, <2>2, <2>3, <2>4 DEF ConnectionsComeBack
  <2>5. CASE orphan' = orphan \cup {r} /\ next = "gone" /\ n = 1 /\ Held(r) = 2
    <3>1. Cardinality(orphan') = Cardinality(orphan) + 1
      BY <1>2, <2>2, <2>5, FS_AddElement
    <3>2. Held(r)' = 0
      BY <1>3, <2>5 DEF Held
    <3> QED BY <2>1, <2>2, <2>3, <2>5, <3>1, <3>2 DEF ConnectionsComeBack
  <2> QED BY <2>4, <2>5
<1>7. SecondsAreExports'
  BY <1>0, <1>1, <1>3 DEF SecondsAreExports, TypeOK
<1>8. OrphansAreGone'
  BY <1>0, <1>1, <1>2, <1>3 DEF OrphansAreGone, TypeOK
<1>9. OutagesAreNoticed'
  <2>1. \A q \in Request : InService(q)' => InService(q)
    BY <1>0, <1>1 DEF TypeOK, InService
  <2> QED BY <1>0, <1>1, <2>1 DEF OutagesAreNoticed
<1>10. LostAreInUse'
  BY <1>0, <1>1, <1>3 DEF TypeOK, LostAreInUse
<1> QED BY <1>5, <1>6, <1>7, <1>8, <1>9, <1>10 DEF InductiveInv

LEMMA FailingKeepsInv ==
    ASSUME InductiveInv, NEW r \in Request, Fail(r), InService(r)
    PROVE  InductiveInv'
<1>1. Failure(r) \in {"cut", "unavailable", "error"}
  BY DEF Failure
<1>2. Failure(r) \in Stage
  BY <1>1 DEF Stage, Ended
<1>3. Held(r) \in 0 .. 2
  BY DEF Held
<1>4. Leave(r, Held(r), Failure(r)) /\ orphan' = orphan
  BY DEF Fail
<1>5. Held(r)' = 0
  BY <1>1, <1>4 DEF InductiveInv, TypeOK, Leave, Held
<1> QED BY <1>1, <1>2, <1>3, <1>4, <1>5, LeavingKeepsInv

LEMMA CheckoutKeepsInv ==
    ASSUME InductiveInv, NEW r \in Request, Checkout(r)
    PROVE  InductiveInv'
<1>0. /\ TypeOK /\ ConnectionsComeBack /\ SecondsAreExports /\ OrphansAreGone
      /\ LostAreInUse /\ OutagesAreNoticed
  BY DEF InductiveInv
<1> DEFINE next == CASE pc[r] = "first" -> "busy" [] pc[r] = "again" -> "reread"
                     [] pc[r] = "second" -> "reading"
<1>1. /\ Waits(r) /\ Room /\ up
      /\ pc' = [pc EXCEPT ![r] = next]
      /\ out' = out + 1
      /\ kind' = kind /\ lost' = lost /\ orphan' = orphan
      /\ up' = up /\ outages' = outages /\ disturbed' = disturbed
  BY DEF Checkout, GoOn, database
<1>2. /\ next \in {"busy", "reread", "reading"}
      /\ next = "reading" => pc[r] = "second"
      /\ pc[r] = "second" => next = "reading"
      /\ pc[r] \in {"first", "again", "second"}
  BY <1>1 DEF Waits
<1> HIDE DEF next
<1>3. pc' \in [Request -> Stage] /\ pc'[r] = next /\ next \in Stage
  BY <1>0, <1>1, <1>2 DEF TypeOK, Stage
<1>4. TypeOK'
  <2>1. out' \in 0 .. Capacity
    BY <1>0, <1>1, PoolAssumption DEF TypeOK, Capacity, Room
  <2>2. idle' \in 0 .. PoolSize /\ stale' \in 0 .. idle'
    <3>1. PoolSize \in Nat /\ idle \in 0 .. PoolSize /\ stale \in 0 .. idle
      BY <1>0, PoolAssumption DEF TypeOK
    <3>2. CASE idle > stale /\ idle' = idle - 1 /\ UNCHANGED stale
      BY <3>1, <3>2
    <3>3. CASE stale > 0 /\ idle' = idle - 1 /\ stale' = stale - 1
      BY <3>1, <3>3
    <3>4. CASE idle = 0 /\ UNCHANGED <<idle, stale>>
      BY <3>1, <3>4
    <3> QED BY <3>2, <3>3, <3>4 DEF Checkout
  <2> QED BY <1>0, <1>1, <1>3, <2>1, <2>2 DEF TypeOK, Stage
<1>5. ConnectionsComeBack'
  <2>1. Held(r)' = Held(r) + 1
    BY <1>2, <1>3 DEF Held
  <2>2. /\ Held(r) \in 0 .. 2
        /\ Cardinality(Connections) \in Nat
        /\ Cardinality(Connections') = Cardinality(Connections) - Held(r) + Held(r)'
    BY <1>0, <1>1, CountOfStep
  <2>3. Cardinality(orphan) \in Nat
    BY <1>0, PoolCounts
  <2> QED BY <1>0, <1>1, <2>1, <2>2, <2>3 DEF ConnectionsComeBack
<1>6. SecondsAreExports'
  BY <1>0, <1>1, <1>2, <1>3 DEF SecondsAreExports, TypeOK
<1>7. OrphansAreGone'
  BY <1>0, <1>1, <1>2 DEF OrphansAreGone, TypeOK
<1>8. OutagesAreNoticed'
  BY <1>0, <1>1 DEF OutagesAreNoticed
<1>9. LostAreInUse'
  BY <1>0, <1>1, <1>2 DEF TypeOK, LostAreInUse
<1> QED BY <1>4, <1>5, <1>6, <1>7, <1>8, <1>9 DEF InductiveInv

LEMMA ArriveKeepsInv ==
    ASSUME InductiveInv, NEW r \in Request, NEW k \in Kind, Arrive(r, k)
    PROVE  InductiveInv'
<1>0. /\ TypeOK /\ ConnectionsComeBack /\ SecondsAreExports /\ OrphansAreGone
      /\ LostAreInUse /\ OutagesAreNoticed
  BY DEF InductiveInv
<1>1. /\ pc[r] = "new"
      /\ kind' = [kind EXCEPT ![r] = k]
      /\ pc' = [pc EXCEPT ![r] = "first"]
      /\ disturbed' = IF up THEN disturbed ELSE disturbed \cup {r}
      /\ out' = out /\ idle' = idle /\ stale' = stale
      /\ lost' = lost /\ orphan' = orphan /\ up' = up /\ outages' = outages
  BY DEF Arrive, pool
<1>2. TypeOK'
  BY <1>0, <1>1 DEF TypeOK
<1>3. ConnectionsComeBack'
  <2>1. Held(r) = 0 /\ Held(r)' = 0
    BY <1>0, <1>1 DEF Held, TypeOK
  <2>2. /\ Cardinality(Connections) \in Nat
        /\ Cardinality(Connections') = Cardinality(Connections) - Held(r) + Held(r)'
    BY <1>0, <1>1, CountOfStep
  <2> QED BY <1>0, <1>1, <2>1, <2>2 DEF ConnectionsComeBack
<1>4. SecondsAreExports'
  BY <1>0, <1>1 DEF SecondsAreExports, TypeOK
<1>5. OrphansAreGone'
  BY <1>0, <1>1 DEF OrphansAreGone, TypeOK
<1>6. OutagesAreNoticed'
  <2>1. \A q \in Request \ {r} : InService(q)' <=> InService(q)
    BY <1>0, <1>1 DEF TypeOK, InService
  <2> QED BY <1>0, <1>1, <2>1 DEF OutagesAreNoticed
<1>7. LostAreInUse'
  BY <1>0, <1>1 DEF TypeOK, LostAreInUse
<1> QED BY <1>2, <1>3, <1>4, <1>5, <1>6, <1>7 DEF InductiveInv

LEMMA FinaliseKeepsInv ==
    ASSUME InductiveInv, NEW r \in Request, Finalise(r)
    PROVE  InductiveInv'
<1>0. /\ TypeOK /\ ConnectionsComeBack /\ SecondsAreExports /\ OrphansAreGone
      /\ LostAreInUse /\ OutagesAreNoticed
  BY DEF InductiveInv
<1>1. /\ r \in orphan /\ orphan' = orphan \ {r} /\ GiveBack(1)
      /\ kind' = kind /\ pc' = pc /\ lost' = lost
      /\ up' = up /\ outages' = outages /\ disturbed' = disturbed
  BY DEF Finalise, database
<1>2. IsFiniteSet(orphan) /\ Cardinality(orphan) \in Nat /\ Cardinality(orphan) >= 1
  BY <1>0, <1>1, PoolCounts
<1>3. Connections' = Connections
  BY <1>1 DEF Connections, Held
<1>4. Cardinality(Connections) \in Nat
  <2>1. HeldBy \in [Request -> 0 .. 2] /\ 0 \in 0 .. 2 /\ r \in Request
    BY ConnectionsByRequest
  <2>2. Cardinality(Numbered(HeldBy)) \in Nat
    BY <2>1, CountOfOne
  <2> QED BY <2>2, ConnectionsByRequest
<1>5. TypeOK'
  <2>1. 1 <= out
    BY <1>0, <1>2, <1>4 DEF ConnectionsComeBack
  <2>2. out' \in 0 .. Capacity /\ idle' \in 0 .. PoolSize /\ stale' \in 0 .. idle'
    BY <1>0, <1>1, <2>1, GivingBack
  <2> QED BY <1>0, <1>1, <2>2 DEF TypeOK
<1>6. ConnectionsComeBack'
  <2>1. Cardinality(orphan') = Cardinality(orphan) - 1
    BY <1>1, <1>2, FS_RemoveElement
  <2> QED BY <1>0, <1>1, <1>2, <1>3, <1>4, <2>1 DEF ConnectionsComeBack, GiveBack
<1>7. SecondsAreExports' /\ OrphansAreGone'
  BY <1>0, <1>1 DEF SecondsAreExports, OrphansAreGone
<1>8. OutagesAreNoticed'
  BY <1>0, <1>1 DEF OutagesAreNoticed, InService
<1>9. LostAreInUse'
  BY <1>0, <1>1 DEF LostAreInUse
<1> QED BY <1>5, <1>6, <1>7, <1>8, <1>9 DEF InductiveInv

\* A step that moves no request and no connection.
LEMMA StandingStill ==
    ASSUME ConnectionsComeBack, UNCHANGED <<pc, out, orphan>>
    PROVE  ConnectionsComeBack'
<1>1. Connections' = Connections
  BY DEF Connections, Held
<1> QED BY <1>1 DEF ConnectionsComeBack

LEMMA OutageKeepsInv ==
    ASSUME InductiveInv, DatabaseStops \/ DatabaseStarts
    PROVE  InductiveInv'
<1>0. /\ TypeOK /\ ConnectionsComeBack /\ SecondsAreExports /\ OrphansAreGone
      /\ LostAreInUse /\ OutagesAreNoticed
  BY DEF InductiveInv
<1>1. kind' = kind /\ pc' = pc /\ out' = out /\ idle' = idle /\ orphan' = orphan
  BY DEF DatabaseStops, DatabaseStarts, pool
<1>2. TypeOK'
  <2>1. CASE DatabaseStops
    <3>1. stale' \in 0 .. idle' /\ outages' \in 0 .. MaxOutages
      BY <1>0, <1>1, <2>1, PoolAssumption DEF DatabaseStops, TypeOK
    <3>2. lost' \subseteq Request /\ disturbed' \subseteq Request /\ up' \in BOOLEAN
      BY <1>0, <2>1 DEF DatabaseStops, TypeOK
    <3> QED BY <1>0, <1>1, <3>1, <3>2 DEF TypeOK
  <2>2. CASE DatabaseStarts
    BY <1>0, <1>1, <2>2 DEF DatabaseStarts, TypeOK, pool
  <2> QED BY <2>1, <2>2
<1>3. ConnectionsComeBack'
  BY <1>0, <1>1, StandingStill
<1>4. SecondsAreExports' /\ OrphansAreGone'
  BY <1>0, <1>1 DEF SecondsAreExports, OrphansAreGone
<1>5. OutagesAreNoticed'
  <2>1. CASE DatabaseStops
    BY <1>0, <1>1, <2>1 DEF DatabaseStops, OutagesAreNoticed, InService, Ended
  <2>2. CASE DatabaseStarts
    BY <1>0, <2>2 DEF DatabaseStarts, OutagesAreNoticed
  <2> QED BY <2>1, <2>2
<1>6. LostAreInUse'
  BY <1>0, <1>1 DEF DatabaseStops, DatabaseStarts, LostAreInUse
<1> QED BY <1>2, <1>3, <1>4, <1>5, <1>6 DEF InductiveInv

-----------------------------------------------------------------------------
(* The promises                                                            *)

LEMMA Invariance == Spec => []InductiveInv
<1>1. InductiveInv /\ [Next]_vars => InductiveInv'
  <2> SUFFICES ASSUME InductiveInv, [Next]_vars PROVE InductiveInv'
    OBVIOUS
  <2>0. TypeOK /\ SecondsAreExports
    BY DEF InductiveInv
  <2>1. ASSUME NEW r \in Request, NEW k \in Kind, Arrive(r, k) PROVE InductiveInv'
    BY <2>1, ArriveKeepsInv
  <2>2. ASSUME NEW r \in Request, Checkout(r) PROVE InductiveInv'
    BY <2>2, CheckoutKeepsInv
  <2>3. ASSUME NEW r \in Request, ConnectRefused(r) \/ PoolTimeout(r) PROVE InductiveInv'
    <3>1. Fail(r) /\ InService(r)
      BY <2>3 DEF ConnectRefused, PoolTimeout, Waits, InService, Ended
    <3> QED BY <3>1, FailingKeepsInv
  <2>4. ASSUME NEW r \in Request, Broken(r) PROVE InductiveInv'
    <3>1. Fail(r) /\ r \in lost
      BY <2>4 DEF Broken
    <3>2. InService(r)
      BY <3>1 DEF InductiveInv, LostAreInUse, InService, Ended
    <3> QED BY <3>1, <3>2, FailingKeepsInv
  <2>5. ASSUME NEW r \in Request, Answer(r) PROVE InductiveInv'
    <3>1. Leave(r, 1, "ok") /\ orphan' = orphan /\ pc[r] \in {"busy", "reread", "streaming", "sent"}
      BY <2>5 DEF Answer
    <3>2. InService(r) /\ Held(r) = 1 /\ Held(r)' = 0
      BY <2>0, <3>1 DEF Leave, Held, InService, Ended, TypeOK
    <3> QED BY <3>1, <3>2, StageHas, 1 \in 0 .. 2, LeavingKeepsInv
  <2>6. ASSUME NEW r \in Request, CommitRates(r) PROVE InductiveInv'
    <3>1. Leave(r, 1, "again") /\ orphan' = orphan /\ pc[r] = "busy"
      BY <2>6 DEF CommitRates
    <3>2. InService(r) /\ Held(r) = 1 /\ Held(r)' = 0
      BY <2>0, <3>1 DEF Leave, Held, InService, Ended, TypeOK
    <3> QED BY <3>1, <3>2, StageHas, 1 \in 0 .. 2, LeavingKeepsInv
  <2>7. ASSUME NEW r \in Request, Begin(r) PROVE InductiveInv'
    <3> DEFINE next == IF kind[r] = "stream" THEN "streaming" ELSE "second"
    <3>1. /\ Leave(r, 0, next) /\ orphan' = orphan /\ pc[r] = "busy"
          /\ next \in {"streaming", "second"}
          /\ next = "second" => kind[r] = "export"
      BY <2>7 DEF Begin
    <3> HIDE DEF next
    <3>2. InService(r) /\ Held(r) = 1 /\ Held(r)' = 1
      BY <2>0, <3>1 DEF Leave, Held, InService, Ended, TypeOK
    <3>3. next \in Stage
      BY <3>1 DEF Stage
    <3> QED BY <3>1, <3>2, <3>3, 0 \in 0 .. 2, LeavingKeepsInv
  <2>8. ASSUME NEW r \in Request, EndRows(r) PROVE InductiveInv'
    <3>1. Leave(r, 1, "sent") /\ orphan' = orphan /\ pc[r] = "reading" /\ kind[r] = "export"
      BY <2>0, <2>8 DEF EndRows, SecondsAreExports
    <3>2. InService(r) /\ Held(r) = 2 /\ Held(r)' = 1
      BY <2>0, <3>1 DEF Leave, Held, InService, Ended, TypeOK
    <3> QED BY <3>1, <3>2, StageHas, 1 \in 0 .. 2, LeavingKeepsInv
  <2>9. ASSUME NEW r \in Request, Disconnect(r) PROVE InductiveInv'
    <3>1. InService(r) /\ Held(r) \in 0 .. 2 /\ "gone" \in Stage
      BY <2>9 DEF Disconnect, InService, Ended, Held, Stage
    <3>2. CASE Leave(r, Held(r), "gone") /\ UNCHANGED orphan
      <4>1. Held(r)' = 0
        BY <2>0, <3>2 DEF Leave, Held, TypeOK
      <4> QED BY <3>1, <3>2, <4>1, LeavingKeepsInv
    <3>3. CASE pc[r] = "reading" /\ Leave(r, 1, "gone") /\ orphan' = orphan \cup {r}
      <4>1. Held(r) = 2
        BY <3>3 DEF Held
      <4> QED BY <3>1, <3>3, <4>1, 1 \in 0 .. 2, LeavingKeepsInv
    <3> QED BY <2>9, <3>2, <3>3 DEF Disconnect
  <2>10. ASSUME NEW r \in Request, Finalise(r) PROVE InductiveInv'
    BY <2>10, FinaliseKeepsInv
  <2>11. CASE DatabaseStops \/ DatabaseStarts
    BY <2>11, OutageKeepsInv
  <2>12. CASE UNCHANGED vars
    <3>1. /\ kind' = kind /\ pc' = pc /\ out' = out /\ idle' = idle /\ stale' = stale
          /\ lost' = lost /\ orphan' = orphan
          /\ up' = up /\ outages' = outages /\ disturbed' = disturbed
      BY <2>12 DEF vars, pool, database
    <3>2. ConnectionsComeBack'
      BY <3>1, StandingStill DEF InductiveInv
    <3> QED BY <3>1, <3>2 DEF InductiveInv, TypeOK, SecondsAreExports, OrphansAreGone,
                              LostAreInUse, OutagesAreNoticed, InService
  <2> QED
    BY <2>1, <2>2, <2>3, <2>4, <2>5, <2>6, <2>7, <2>8, <2>9, <2>10, <2>11, <2>12
    DEF Next, Serve
<1> QED BY InitInvariant, <1>1, PTL DEF Spec

\* Every variable of Serving keeps its type; the pool never hands out more
\* connections than it has, whatever requests and outages do.
THEOREM TypeCorrect == Spec => []TypeOK
BY Invariance, PTL DEF InductiveInv

\* No path of a request keeps a connection or gives one back twice, for every
\* number of requests, kind of requests and size of the pool (get_session, the
\* session of stream_csv_export).
THEOREM EveryConnectionComesBack == Spec => []ConnectionsComeBack
BY Invariance, PTL DEF InductiveInv

\* Only exports can wedge the pool, and it takes as many of them as the pool
\* has connections, for every size of the pool.
THEOREM OnlyExportsWedge == Spec => []WedgedOnlyByExports
<1>1. InductiveInv => WedgedOnlyByExports
  <2> SUFFICES ASSUME InductiveInv, Wedged
               PROVE  Cardinality({r \in Request : kind[r] = "export" /\ Waits(r)}) >= Capacity
    BY DEF WedgedOnlyByExports
  <2> DEFINE Exports == {r \in Request : kind[r] = "export" /\ Waits(r)}
  <2>1. ASSUME NEW c \in Connections PROVE c[1] \in Exports /\ c = <<c[1], 1>>
    <3>1. c[1] \in Request /\ c[2] \in 1 .. 2 /\ c[2] <= Held(c[1]) /\ c = <<c[1], c[2]>>
      BY DEF Connections
    <3>2. Held(c[1]) > 0
      BY <3>1 DEF Held
    <3>3. Waits(c[1])
      BY <3>1, <3>2 DEF Wedged
    <3>4. pc[c[1]] = "second" /\ Held(c[1]) = 1
      BY <3>2, <3>3 DEF Held, Waits
    <3>5. kind[c[1]] = "export"
      BY <3>1, <3>4 DEF InductiveInv, SecondsAreExports
    <3> QED BY <3>1, <3>3, <3>4, <3>5
  <2>2. IsFiniteSet(Exports) /\ IsFiniteSet(Connections)
    <3>1. IsFiniteSet(Exports)
      BY RequestAssumption, FS_Subset
    <3>2. HeldBy \in [Request -> 0 .. 2] /\ Connections = Numbered(HeldBy)
      BY ConnectionsByRequest
    <3>3. PICK r \in Request : Waits(r)
      BY DEF Wedged
    <3>4. IsFiniteSet(Numbered(HeldBy))
      BY <3>2, <3>3, 0 \in 0 .. 2, CountOfOne
    <3> QED BY <3>1, <3>2, <3>4
  <2>3. Cardinality(Connections) <= Cardinality(Exports)
    <3> DEFINE owner == [c \in Connections |-> c[1]]
    <3>1. owner \in Injection(Connections, Exports)
      <4>1. owner \in [Connections -> Exports]
        BY <2>1
      <4>2. ASSUME NEW c \in Connections, NEW d \in Connections, owner[c] = owner[d] PROVE c = d
        <5>1. c[1] = d[1]
          BY <4>2
        <5> QED BY <2>1, <5>1
      <4> QED BY <4>1, <4>2 DEF Injection, IsInjective
    <3> QED BY <2>2, <3>1, FS_Injection
  <2>4. out = Cardinality(Connections)
    <3>1. Cardinality(Connections) \in Nat
      BY <2>2, FS_CardinalityType
    <3> QED BY <3>1, FS_EmptySet DEF InductiveInv, ConnectionsComeBack, Wedged
  <2>5. out >= Capacity
    BY PoolAssumption DEF InductiveInv, TypeOK, Wedged, Room, Capacity
  <2>6. Cardinality(Exports) \in Nat /\ out \in Nat /\ Capacity \in Nat
    BY <2>2, FS_CardinalityType, PoolAssumption DEF InductiveInv, TypeOK, Capacity
  <2> QED BY <2>3, <2>4, <2>5, <2>6
<1> QED BY Invariance, <1>1, PTL

\* A request fails for want of a connection only if there is no room, or if the
\* database was down in its time: what an outage leaves in the pool fails nobody
\* who comes after it (pool_pre_ping).
THEOREM NobodyFailsForThePast == Spec => FailuresHaveACause
<1> DEFINE Cause == \A r \in Request :
        pc[r] \notin Ended /\ pc'[r] \in {"error", "unavailable", "cut"} =>
            r \in disturbed \/ (Waits(r) /\ ~Room)
<1>1. InductiveInv /\ [Next]_vars => [Cause]_vars
  <2> SUFFICES ASSUME InductiveInv, Next, NEW r \in Request,
                      pc[r] \notin Ended, pc'[r] \in {"error", "unavailable", "cut"}
               PROVE  r \in disturbed \/ (Waits(r) /\ ~Room)
    OBVIOUS
  <2>0. pc \in [Request -> Stage] /\ pc[r] # pc'[r]
    BY DEF InductiveInv, TypeOK, Stage, Ended
  <2>1. PICK q \in Request : Serve(q) \/ Disconnect(q) \/ (\E k \in Kind : Arrive(q, k))
    BY <2>0 DEF Next, DatabaseStops, DatabaseStarts
  <2>2. \A next : pc' = [pc EXCEPT ![q] = next] => r = q /\ pc'[r] = next
    BY <2>0
  <2>3. CASE Checkout(q)
    BY <2>2, <2>3 DEF Checkout, GoOn, Waits
  <2>4. CASE ConnectRefused(q)
    <3>1. r = q
      BY <2>2, <2>4 DEF ConnectRefused, Fail, Leave
    <3> QED BY <2>4, <3>1 DEF ConnectRefused, InductiveInv, OutagesAreNoticed, InService, Waits, Ended
  <2>5. CASE PoolTimeout(q)
    <3>1. r = q
      BY <2>2, <2>5 DEF PoolTimeout, Fail, Leave
    <3> QED BY <2>5, <3>1 DEF PoolTimeout
  <2>6. CASE Broken(q)
    <3>1. r = q
      BY <2>2, <2>6 DEF Broken, Fail, Leave
    <3> QED BY <2>6, <3>1 DEF Broken, InductiveInv, OutagesAreNoticed
  <2>7. CASE Answer(q) \/ CommitRates(q) \/ EndRows(q) \/ Disconnect(q)
    BY <2>2, <2>7 DEF Answer, CommitRates, EndRows, Disconnect, Leave
  <2>8. CASE Begin(q)
    BY <2>2, <2>8 DEF Begin, Leave
  <2>9. CASE Finalise(q)
    BY <2>0, <2>9 DEF Finalise
  <2>10. CASE \E k \in Kind : Arrive(q, k)
    BY <2>2, <2>10 DEF Arrive
  <2> QED BY <2>1, <2>3, <2>4, <2>5, <2>6, <2>7, <2>8, <2>9, <2>10 DEF Serve
<1> QED BY Invariance, <1>1, PTL DEF Spec, FailuresHaveACause

=============================================================================
