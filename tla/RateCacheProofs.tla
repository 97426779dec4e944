--------------------------- MODULE RateCacheProofs ---------------------------
(***************************************************************************)
(* Proofs about RateCache, for every set of requests, currencies, days and *)
(* bulletins and every number of retries: its types, its promises, and     *)
(* that it implements RateBook.                                            *)
(***************************************************************************)
EXTENDS RateCache, SequenceTheorems, TLAPS

\* Rows committed or to be committed.
Rows == cache \cup UNION {inserted[r] : r \in Request}

SameKey(t, u) == t.currency = u.currency /\ t.requested = u.requested

\* The unique constraint: no two requests insert the same key, nor one that is
\* committed already.
OneRowPerKey == \A t, u \in Rows : SameKey(t, u) => t = u

\* A bulletin of day b is one that may answer for the day asked.
MayAnswer(b, day) ==
    /\ b <= day /\ day - b < MAX_FALLBACK_DAYS
    /\ \A d \in Published : d <= day => d <= b

CacheIsRight == \A t \in cache : MayAnswer(t.rate_date, t.requested)

Working == {"select", "insert"}

Idle(r) == pc[r] = "new" => asked[r].codes = <<>> /\ answers[r] = <<>>

Busy(r) == pc[r] \notin {"new"} \cup Ended => asked[r].codes # <<>>

\* The search for a bulletin begins with the day asked for.
Fresh(r) == pc[r] \in {"new", "lookup"} => back[r] = 0

\* A search that ran out has left no bulletin behind that was out from the start.
RanOut(r) ==
    pc[r] = "exhausted" =>
        \A d \in Published : d <= asked[r].day => asked[r].day - d >= MAX_FALLBACK_DAYS

\* While a request looks for a bulletin or stores one, no bulletin that was out
\* from the start lies between the day it asks for and the one it has come to.
LookedBack(r) ==
    pc[r] \in {"fetch"} \cup Working =>
        \A d \in Published : d <= asked[r].day => d <= asked[r].day - back[r]

\* A bulletin in hand is the one looked for; its currencies are still to do, or
\* have a row that the request can see.
Handled(r) ==
    pc[r] \in Working =>
        /\ fetched[r] = asked[r].day - back[r] /\ fetched[r] \in published
        /\ ToSet(todo[r]) \subseteq ToSet(Bulletin[fetched[r]])
        /\ \A c \in ToSet(Bulletin[fetched[r]]) \ ToSet(todo[r]) :
            Cached(cache \cup inserted[r], c, asked[r].day) # {}

\* The next currency is inserted only if the request has not inserted it yet.
NotYet(r) ==
    pc[r] = "insert" =>
        todo[r] # <<>> /\ Cached(inserted[r], Head(todo[r]), asked[r].day) = {}

\* What a request has inserted and not committed is of the bulletin in hand.
OfBulletin(r) ==
    \A t \in inserted[r] :
        /\ pc[r] \in Working
        /\ t.requested = asked[r].day /\ t.rate_date = fetched[r]
        /\ t.currency \in ToSet(Bulletin[fetched[r]])

\* An answer is a row of the cache.
FromCache(r) == ToSet(answers[r]) \subseteq cache

RequestInv(r) ==
    /\ Idle(r) /\ Busy(r) /\ Fresh(r) /\ RanOut(r)
    /\ LookedBack(r) /\ Handled(r) /\ NotYet(r) /\ OfBulletin(r) /\ FromCache(r)

AskedType == asked \in [Request -> [codes : Seq(Currency), day : Nat]]

InductiveInv ==
    /\ TypeOK /\ AskedType
    /\ fetched \in [Request -> Int]
    /\ Published \subseteq published
    /\ OneRowPerKey
    /\ CacheIsRight
    /\ \A r \in Request : RequestInv(r)

-----------------------------------------------------------------------------
(* Sequences as sets                                                       *)

LEMMA EmptyToSet == ToSet(<<>>) = {}
BY DEF ToSet

LEMMA TailToSet ==
    ASSUME NEW S, NEW s \in Seq(S), s # <<>>
    PROVE  /\ Head(s) \in S /\ Tail(s) \in Seq(S)
           /\ Head(s) \in ToSet(s) /\ ToSet(s) \subseteq S
           /\ ToSet(Tail(s)) \subseteq ToSet(s)
           /\ ToSet(s) = ToSet(Tail(s)) \cup {Head(s)}
<1>1. Head(s) = s[1] /\ Tail(s) \in Seq(S) /\ Len(s) \in Nat \ {0} /\ DOMAIN s = 1 .. Len(s)
  OBVIOUS
<1>2. /\ DOMAIN Tail(s) = 1 .. Len(s) - 1
      /\ \A i \in 1 .. Len(s) - 1 : Tail(s)[i] = s[i + 1]
  OBVIOUS
<1>3. \A i \in 1 .. Len(s) : s[i] \in S
  OBVIOUS
<1>4. ToSet(s) = {s[i] : i \in 1 .. Len(s)}
  BY <1>1 DEF ToSet
<1>5. ToSet(Tail(s)) = {s[i + 1] : i \in 1 .. Len(s) - 1}
  BY <1>2 DEF ToSet
<1>6. ToSet(Tail(s)) \subseteq ToSet(s) /\ s[1] \in ToSet(s) /\ ToSet(s) \subseteq S
  BY <1>1, <1>3, <1>4, <1>5
<1>7. ASSUME NEW c \in ToSet(s), c # s[1] PROVE c \in ToSet(Tail(s))
  <2>1. PICK i \in 1 .. Len(s) : c = s[i]
    BY <1>4
  <2>2. i - 1 \in 1 .. Len(s) - 1 /\ c = s[(i - 1) + 1]
    BY <1>1, <1>7, <2>1
  <2> QED BY <1>5, <2>2
<1> QED BY <1>1, <1>3, <1>6, <1>7

LEMMA AppendToSet ==
    ASSUME NEW S, NEW s \in Seq(S), NEW x \in S
    PROVE  Append(s, x) \in Seq(S) /\ ToSet(Append(s, x)) = ToSet(s) \cup {x}
<1>1. /\ Len(s) \in Nat /\ DOMAIN s = 1 .. Len(s)
      /\ Append(s, x) \in Seq(S) /\ DOMAIN Append(s, x) = 1 .. Len(s) + 1
      /\ \A i \in 1 .. Len(s) : Append(s, x)[i] = s[i]
      /\ Append(s, x)[Len(s) + 1] = x
  OBVIOUS
<1>2. \A i \in 1 .. Len(s) + 1 : i \in 1 .. Len(s) \/ i = Len(s) + 1
  BY <1>1
<1>3. ToSet(Append(s, x)) \subseteq ToSet(s) \cup {x}
  BY <1>1, <1>2 DEF ToSet
<1>4. ToSet(s) \cup {x} \subseteq ToSet(Append(s, x))
  <2>1. \A i \in 1 .. Len(s) : i \in 1 .. Len(s) + 1
    BY <1>1
  <2>2. Len(s) + 1 \in 1 .. Len(s) + 1
    BY <1>1
  <2> QED BY <1>1, <2>1, <2>2 DEF ToSet
<1> QED BY <1>1, <1>3, <1>4

-----------------------------------------------------------------------------
(* The steps                                                               *)

LEMMA InitInvariant == Init => InductiveInv
<1> SUFFICES ASSUME Init PROVE InductiveInv
  OBVIOUS
<1>1. TypeOK /\ AskedType /\ fetched \in [Request -> Int]
  BY BulletinAssumption, BoundAssumption DEF Init, TypeOK, AskedType
<1>2. OneRowPerKey /\ CacheIsRight /\ Published \subseteq published
  BY DEF Init, OneRowPerKey, Rows, CacheIsRight
<1>3. ASSUME NEW r \in Request PROVE RequestInv(r)
  <2>1. /\ pc[r] = "new" /\ inserted[r] = {} /\ back[r] = 0
        /\ answers[r] = <<>> /\ asked[r].codes = <<>>
    BY DEF Init
  <2> QED BY <2>1, EmptyToSet
      DEF RequestInv, Idle, Busy, Fresh, RanOut, LookedBack, Handled, NotYet, OfBulletin, FromCache, Working
<1> QED BY <1>1, <1>2, <1>3 DEF InductiveInv

\* Nothing that others do disturbs a request: the bank only publishes more, the
\* cache only grows.
LEMMA OthersKeepTheirs ==
    ASSUME NEW q \in Request, RequestInv(q),
           pc'[q] = pc[q], asked'[q] = asked[q], back'[q] = back[q], fetched'[q] = fetched[q],
           todo'[q] = todo[q], inserted'[q] = inserted[q], answers'[q] = answers[q],
           cache \subseteq cache', published \subseteq published'
    PROVE  RequestInv(q)'
<1>1. Idle(q)' /\ Busy(q)' /\ Fresh(q)' /\ RanOut(q)' /\ LookedBack(q)' /\ NotYet(q)' /\ OfBulletin(q)'
  BY DEF RequestInv, Idle, Busy, Fresh, RanOut, LookedBack, NotYet, OfBulletin, Cached
<1>2. Handled(q)'
  BY DEF RequestInv, Handled, Cached
<1>3. FromCache(q)'
  BY DEF RequestInv, FromCache
<1> QED BY <1>1, <1>2, <1>3 DEF RequestInv

\* A step that adds no row keeps rows unique.
LEMMA NoNewRow ==
    ASSUME OneRowPerKey, Rows' \subseteq Rows
    PROVE  OneRowPerKey'
BY DEF OneRowPerKey

LEMMA RowOfRequest ==
    ASSUME NEW t
    PROVE  t \in Rows <=> t \in cache \/ \E r \in Request : t \in inserted[r]
BY DEF Rows

\* get_rate returns a row of the cache.
LEMMA ReturnKeepsInv ==
    ASSUME InductiveInv, NEW r \in Request, NEW t \in Cached(cache, Code(r), asked[r].day),
           pc[r] \in {"lookup", "reread"}, Return(r, t),
           UNCHANGED <<published, cache, inserted>>
    PROVE  InductiveInv'
<1>0. /\ TypeOK /\ AskedType /\ fetched \in [Request -> Int] /\ Published \subseteq published
      /\ OneRowPerKey /\ CacheIsRight /\ \A q \in Request : RequestInv(q)
  BY DEF InductiveInv
<1>1. t \in Row /\ t \in cache
  BY <1>0 DEF Cached, TypeOK
<1>2. /\ asked[r].codes \in Seq(Currency) /\ asked[r].codes # <<>>
      /\ Tail(asked[r].codes) \in Seq(Currency) /\ asked[r].day \in Day
  <2>1. asked[r].codes \in Seq(Currency) /\ asked[r].day \in Day
    BY <1>0 DEF TypeOK
  <2>2. asked[r].codes # <<>>
    BY <1>0 DEF RequestInv, Busy, Ended
  <2> QED BY <2>1, <2>2, TailToSet
<1>3. /\ back' = [back EXCEPT ![r] = 0] /\ attempt' = [attempt EXCEPT ![r] = 0]
      /\ fetched' = [fetched EXCEPT ![r] = -1] /\ todo' = [todo EXCEPT ![r] = <<>>]
      /\ answers' = [answers EXCEPT ![r] = Append(@, t)]
      /\ asked' = [asked EXCEPT ![r].codes = Tail(@)]
      /\ pc' = [pc EXCEPT ![r] = IF asked'[r].codes = <<>> THEN "ok" ELSE "lookup"]
  BY DEF Return, Forget
<1>4. asked' \in [Request -> [codes : Seq(Currency), day : Nat]]
      /\ asked'[r].codes = Tail(asked[r].codes) /\ asked'[r].day = asked[r].day
      /\ \A q \in Request \ {r} : asked'[q] = asked[q]
  BY <1>0, <1>2, <1>3 DEF AskedType
<1>5. answers' \in [Request -> Seq(Row)] /\ ToSet(answers'[r]) = ToSet(answers[r]) \cup {t}
  BY <1>0, <1>1, <1>3, AppendToSet DEF TypeOK
<1>6. /\ pc'[r] \in {"ok", "lookup"}
      /\ pc'[r] = "lookup" => asked'[r].codes # <<>>
  BY <1>0, <1>3 DEF TypeOK
<1>7. TypeOK'
  <2>1. /\ back' \in [Request -> 0 .. MAX_FALLBACK_DAYS - 1]
        /\ attempt' \in [Request -> 0 .. MAX_RETRIES - 1]
    BY <1>0, <1>3, BoundAssumption DEF TypeOK
  <2>2. pc' \in [Request -> {"new", "lookup", "fetch", "select", "insert", "reread"} \cup Ended]
    BY <1>0, <1>3 DEF TypeOK, Ended
  <2>3. \A q \in Request : pc'[q] # "new" =>
            asked'[q].codes \in Seq(Currency) /\ asked'[q].day \in Day
    BY <1>0, <1>2, <1>3, <1>4 DEF TypeOK
  <2>4. todo' \in [Request -> Seq(Currency)]
    BY <1>0, <1>3 DEF TypeOK
  <2>5. \A q \in Request : fetched'[q] \in published' \cup {-1}
    BY <1>0, <1>3 DEF TypeOK
  <2> QED BY <1>0, <1>5, <2>1, <2>2, <2>3, <2>4, <2>5 DEF TypeOK
<1>8. OneRowPerKey' /\ CacheIsRight'
  BY <1>0 DEF OneRowPerKey, Rows, CacheIsRight
<1>9. RequestInv(r)'
  <2>1. inserted'[r] = {} /\ back'[r] = 0
    BY <1>0, <1>3 DEF RequestInv, OfBulletin, Working, TypeOK
  <2>2. FromCache(r)'
    BY <1>0, <1>1, <1>5 DEF RequestInv, FromCache
  <2> QED BY <1>6, <2>1, <2>2
      DEF RequestInv, Idle, Busy, Fresh, RanOut, LookedBack, Handled, NotYet, OfBulletin, Working, Ended
<1>10. ASSUME NEW q \in Request \ {r} PROVE RequestInv(q)'
  <2>1. /\ pc'[q] = pc[q] /\ asked'[q] = asked[q] /\ back'[q] = back[q]
        /\ fetched'[q] = fetched[q] /\ todo'[q] = todo[q] /\ answers'[q] = answers[q]
    BY <1>0, <1>3, <1>4 DEF TypeOK
  <2> QED BY <1>0, <2>1, OthersKeepTheirs
<1>11. fetched' \in [Request -> Int]
  BY <1>0, <1>3
<1> QED BY <1>0, <1>4, <1>7, <1>8, <1>9, <1>10, <1>11 DEF InductiveInv, AskedType

\* A request that ends without an answer leaves no row.
LEMMA FailingKeepsInv ==
    ASSUME InductiveInv, NEW r \in Request, pc[r] # "new",
           NEW outcome \in Ended, Fail(r, outcome),
           outcome = "exhausted" =>
               \A d \in Published : d <= asked[r].day => asked[r].day - d >= MAX_FALLBACK_DAYS
    PROVE  InductiveInv'
<1>0. /\ TypeOK /\ AskedType /\ fetched \in [Request -> Int] /\ Published \subseteq published
      /\ OneRowPerKey /\ CacheIsRight /\ \A q \in Request : RequestInv(q)
  BY DEF InductiveInv
<1>1. /\ back' = [back EXCEPT ![r] = 0] /\ attempt' = [attempt EXCEPT ![r] = 0]
      /\ fetched' = [fetched EXCEPT ![r] = -1] /\ todo' = [todo EXCEPT ![r] = <<>>]
      /\ inserted' = [inserted EXCEPT ![r] = {}]
      /\ pc' = [pc EXCEPT ![r] = outcome]
      /\ published' = published /\ cache' = cache /\ asked' = asked /\ answers' = answers
  BY DEF Fail, Forget
<1>2. TypeOK'
  <2>1. /\ back' \in [Request -> 0 .. MAX_FALLBACK_DAYS - 1]
        /\ attempt' \in [Request -> 0 .. MAX_RETRIES - 1]
    BY <1>0, <1>1, BoundAssumption DEF TypeOK
  <2>2. /\ pc' \in [Request -> {"new", "lookup", "fetch", "select", "insert", "reread"} \cup Ended]
        /\ todo' \in [Request -> Seq(Currency)]
        /\ inserted' \in [Request -> SUBSET Row]
    BY <1>0, <1>1 DEF TypeOK
  <2>3. \A q \in Request : pc'[q] # "new" =>
            asked'[q].codes \in Seq(Currency) /\ asked'[q].day \in Day
    BY <1>0, <1>1 DEF TypeOK
  <2>4. \A q \in Request : fetched'[q] \in published' \cup {-1}
    BY <1>0, <1>1 DEF TypeOK
  <2> QED BY <1>0, <1>1, <2>1, <2>2, <2>3, <2>4 DEF TypeOK
<1>3. OneRowPerKey'
  <2>1. Rows' \subseteq Rows
    BY <1>0, <1>1 DEF Rows, TypeOK
  <2> QED BY <1>0, <2>1, NoNewRow
<1>4. RequestInv(r)'
  <2>1. pc'[r] = outcome /\ inserted'[r] = {}
    BY <1>0, <1>1 DEF TypeOK
  <2> QED BY <1>0, <1>1, <2>1
      DEF RequestInv, Idle, Busy, Fresh, RanOut, LookedBack, Handled, NotYet, OfBulletin, FromCache,
          Working, Ended
<1>5. ASSUME NEW q \in Request \ {r} PROVE RequestInv(q)'
  <2>1. /\ pc'[q] = pc[q] /\ back'[q] = back[q] /\ inserted'[q] = inserted[q]
        /\ fetched'[q] = fetched[q] /\ todo'[q] = todo[q]
    BY <1>0, <1>1 DEF TypeOK
  <2> QED BY <1>0, <1>1, <2>1, OthersKeepTheirs
<1>6. CacheIsRight' /\ AskedType' /\ fetched' \in [Request -> Int] /\ Published \subseteq published'
  BY <1>0, <1>1 DEF CacheIsRight, AskedType
<1> QED BY <1>2, <1>3, <1>4, <1>5, <1>6 DEF InductiveInv

\* The last day to fall back to has no bulletin either.
LEMMA RunningOutKeepsInv ==
    ASSUME InductiveInv, NEW r \in Request, NoBulletin(r), Fail(r, "exhausted")
    PROVE  InductiveInv'
<1>1. /\ pc[r] = "fetch" /\ asked[r].day - back[r] \notin published
      /\ pc'[r] = "exhausted"
  BY DEF NoBulletin, Fail, InductiveInv, TypeOK
<1>2. back[r] + 1 = MAX_FALLBACK_DAYS
  <2>1. CASE back' = [back EXCEPT ![r] = @ + 1] /\ pc' = pc
    BY <1>1, <2>1
  <2> QED BY <1>1, <2>1 DEF NoBulletin
<1>3. ASSUME NEW d \in Published, d <= asked[r].day
      PROVE  asked[r].day - d >= MAX_FALLBACK_DAYS
  <2>1. d <= asked[r].day - back[r] /\ d # asked[r].day - back[r]
    BY <1>1, <1>3 DEF InductiveInv, RequestInv, LookedBack
  <2>2. d \in Nat /\ asked[r].day \in Nat /\ back[r] \in Nat
    BY BulletinAssumption, BoundAssumption DEF InductiveInv, AskedType, TypeOK
  <2> QED BY <1>2, <2>1, <2>2
<1>4. pc[r] # "new" /\ "exhausted" \in Ended
  BY <1>1 DEF Ended
<1> QED BY <1>3, <1>4, FailingKeepsInv

LEMMA AskKeepsInv ==
    ASSUME InductiveInv, NEW r \in Request, NEW codes \in Questions, NEW day \in Day,
           Ask(r, codes, day)
    PROVE  InductiveInv'
<1>0. /\ TypeOK /\ AskedType /\ fetched \in [Request -> Int] /\ Published \subseteq published
      /\ OneRowPerKey /\ CacheIsRight /\ \A q \in Request : RequestInv(q)
  BY DEF InductiveInv
<1>1. codes \in Seq(Currency) /\ codes # <<>>
  <2>1. CASE \E c \in Currency : codes = <<c>>
    BY <2>1
  <2>2. CASE \E c, d \in Currency : codes = <<c, d>>
    BY <2>2
  <2> QED BY <2>1, <2>2 DEF Questions
<1>2. /\ pc[r] = "new"
      /\ asked' = [asked EXCEPT ![r] = [codes |-> codes, day |-> day]]
      /\ pc' = [pc EXCEPT ![r] = "lookup"]
      /\ published' = published /\ cache' = cache /\ back' = back /\ attempt' = attempt
      /\ fetched' = fetched /\ todo' = todo /\ inserted' = inserted /\ answers' = answers
  BY DEF Ask
<1>3. AskedType'
  BY <1>0, <1>1, <1>2, DayAssumption DEF AskedType
<1>4. TypeOK'
  <2>1. pc' \in [Request -> {"new", "lookup", "fetch", "select", "insert", "reread"} \cup Ended]
    BY <1>0, <1>2 DEF TypeOK
  <2>2. \A q \in Request : pc'[q] # "new" =>
            asked'[q].codes \in Seq(Currency) /\ asked'[q].day \in Day
    BY <1>0, <1>1, <1>2 DEF TypeOK, AskedType
  <2> QED BY <1>0, <1>2, <2>1, <2>2 DEF TypeOK
<1>5. RequestInv(r)'
  <2>1. inserted[r] = {} /\ asked'[r].codes # <<>> /\ pc'[r] = "lookup"
    BY <1>0, <1>1, <1>2 DEF RequestInv, OfBulletin, Working, AskedType, TypeOK
  <2> QED BY <1>0, <1>2, <2>1
      DEF RequestInv, Idle, Busy, Fresh, RanOut, LookedBack, Handled, NotYet, OfBulletin, FromCache, Working
<1>6. ASSUME NEW q \in Request \ {r} PROVE RequestInv(q)'
  <2>1. pc'[q] = pc[q] /\ asked'[q] = asked[q]
    BY <1>0, <1>2 DEF TypeOK, AskedType
  <2> QED BY <1>0, <1>2, <2>1, OthersKeepTheirs
<1>7. OneRowPerKey' /\ CacheIsRight'
  BY <1>0, <1>2 DEF OneRowPerKey, Rows, CacheIsRight
<1> QED BY <1>0, <1>2, <1>3, <1>4, <1>5, <1>6, <1>7 DEF InductiveInv

LEMMA PublishKeepsInv ==
    ASSUME InductiveInv, Publish
    PROVE  InductiveInv'
<1>0. /\ TypeOK /\ AskedType /\ fetched \in [Request -> Int] /\ Published \subseteq published
      /\ OneRowPerKey /\ CacheIsRight /\ \A q \in Request : RequestInv(q)
  BY DEF InductiveInv
<1>1. /\ published \subseteq published' /\ published' \subseteq DOMAIN Bulletin
      /\ cache' = cache /\ pc' = pc /\ asked' = asked /\ back' = back /\ attempt' = attempt
      /\ fetched' = fetched /\ todo' = todo /\ inserted' = inserted /\ answers' = answers
  BY <1>0 DEF Publish, request, TypeOK
<1>2. TypeOK' /\ AskedType'
  BY <1>0, <1>1 DEF TypeOK, AskedType
<1>3. ASSUME NEW q \in Request PROVE RequestInv(q)'
  BY <1>0, <1>1, OthersKeepTheirs
<1>4. OneRowPerKey' /\ CacheIsRight'
  BY <1>0, <1>1 DEF OneRowPerKey, Rows, CacheIsRight
<1> QED BY <1>0, <1>1, <1>2, <1>3, <1>4 DEF InductiveInv

\* A step of r that leaves everybody's rows, questions and answers alone.
LEMMA SearchKeepsInv ==
    ASSUME InductiveInv, NEW r \in Request, pc[r] \notin {"new"} \cup Ended,
           NEW stage \in {"fetch", "select", "insert"}, pc' = [pc EXCEPT ![r] = stage],
           \A q \in Request \ {r} :
               back'[q] = back[q] /\ fetched'[q] = fetched[q] /\ todo'[q] = todo[q],
           back' \in [Request -> 0 .. MAX_FALLBACK_DAYS - 1],
           attempt' \in [Request -> 0 .. MAX_RETRIES - 1],
           fetched' \in [Request -> Int], fetched'[r] \in published \cup {-1},
           todo' \in [Request -> Seq(Currency)],
           UNCHANGED <<published, cache, asked, inserted, answers>>,
           LookedBack(r)' /\ Handled(r)' /\ NotYet(r)' /\ OfBulletin(r)'
    PROVE  InductiveInv'
<1>0. /\ TypeOK /\ AskedType /\ fetched \in [Request -> Int] /\ Published \subseteq published
      /\ OneRowPerKey /\ CacheIsRight /\ \A q \in Request : RequestInv(q)
  BY DEF InductiveInv
<1>1. /\ published' = published /\ cache' = cache /\ asked' = asked
      /\ inserted' = inserted /\ answers' = answers
  OBVIOUS
<1>2. pc' \in [Request -> {"new", "lookup", "fetch", "select", "insert", "reread"} \cup Ended]
  BY <1>0 DEF TypeOK
<1>3. TypeOK'
  <2>1. \A q \in Request : pc'[q] # "new" =>
            asked'[q].codes \in Seq(Currency) /\ asked'[q].day \in Day
    BY <1>0, <1>1 DEF TypeOK
  <2>2. \A q \in Request : fetched'[q] \in published' \cup {-1}
    BY <1>0, <1>1 DEF TypeOK
  <2> QED BY <1>0, <1>1, <1>2, <2>1, <2>2 DEF TypeOK
<1>4. RequestInv(r)'
  <2>1. Idle(r)' /\ Busy(r)' /\ Fresh(r)' /\ RanOut(r)'
    BY <1>0, <1>1 DEF RequestInv, Idle, Busy, Fresh, RanOut, Ended, TypeOK
  <2>2. FromCache(r)'
    BY <1>0, <1>1 DEF RequestInv, FromCache
  <2> QED BY <2>1, <2>2 DEF RequestInv
<1>5. ASSUME NEW q \in Request \ {r} PROVE RequestInv(q)'
  <2>1. pc'[q] = pc[q]
    BY <1>0 DEF TypeOK
  <2> QED BY <1>0, <1>1, <2>1, OthersKeepTheirs
<1>6. OneRowPerKey' /\ CacheIsRight'
  BY <1>0, <1>1 DEF OneRowPerKey, Rows, CacheIsRight
<1> QED BY <1>0, <1>1, <1>3, <1>4, <1>5, <1>6 DEF InductiveInv, AskedType

\* The bank is asked: a first time, again after a failure, for the day before.
LEMMA AskingTheBankKeepsInv ==
    ASSUME InductiveInv, NEW r \in Request,
           \/ /\ pc[r] = "lookup" /\ pc' = [pc EXCEPT ![r] = "fetch"]
              /\ UNCHANGED <<published, cache, asked, back, attempt, fetched, todo, inserted, answers>>
           \/ NetworkFailure(r) /\ attempt[r] + 1 < MAX_RETRIES
           \/ NoBulletin(r) /\ back[r] + 1 < MAX_FALLBACK_DAYS
    PROVE  InductiveInv'
<1>0. /\ TypeOK /\ AskedType /\ fetched \in [Request -> Int] /\ Published \subseteq published
      /\ OneRowPerKey /\ CacheIsRight /\ \A q \in Request : RequestInv(q)
  BY DEF InductiveInv
<1>1. /\ pc[r] \in {"lookup", "fetch"} /\ pc' = [pc EXCEPT ![r] = "fetch"]
      /\ UNCHANGED <<published, cache, asked, fetched, todo, inserted, answers>>
  BY <1>0, BoundAssumption DEF NetworkFailure, NoBulletin, TypeOK
<1>2. /\ \A q \in Request \ {r} : back'[q] = back[q]
      /\ back' \in [Request -> 0 .. MAX_FALLBACK_DAYS - 1]
      /\ attempt' \in [Request -> 0 .. MAX_RETRIES - 1]
  <2>1. CASE UNCHANGED <<back, attempt>>
    BY <1>0, <2>1 DEF TypeOK
  <2>2. CASE NetworkFailure(r) /\ attempt[r] + 1 < MAX_RETRIES
    BY <1>0, <2>2, BoundAssumption DEF NetworkFailure, TypeOK
  <2>3. CASE NoBulletin(r) /\ back[r] + 1 < MAX_FALLBACK_DAYS
    <3>1. MAX_FALLBACK_DAYS \in Nat \ {0} /\ MAX_RETRIES \in Nat \ {0} /\ back[r] \in Nat
      BY <1>0, BoundAssumption DEF TypeOK
    <3>2. back' = [back EXCEPT ![r] = @ + 1] /\ attempt' = [attempt EXCEPT ![r] = 0]
      BY <2>3, <3>1 DEF NoBulletin
    <3> QED BY <1>0, <2>3, <3>1, <3>2 DEF TypeOK
  <2> QED BY <2>1, <2>2, <2>3
<1>3. LookedBack(r)'
  <2> SUFFICES ASSUME NEW d \in Published, d <= asked[r].day
               PROVE  d <= asked[r].day - back'[r]
    BY <1>1 DEF LookedBack
  <2>1. d \in Nat /\ asked[r].day \in Nat /\ back[r] \in Nat
    BY <1>0, BulletinAssumption, BoundAssumption DEF AskedType, TypeOK
  <2>2. CASE pc[r] = "lookup" /\ back' = back
    <3>1. back[r] = 0
      BY <1>0, <2>2 DEF RequestInv, Fresh
    <3> QED BY <2>1, <2>2, <3>1
  <2>3. CASE pc[r] = "fetch" /\ back' = back
    BY <1>0, <2>3 DEF RequestInv, LookedBack
  <2>4. CASE NoBulletin(r) /\ back[r] + 1 < MAX_FALLBACK_DAYS
    <3>1. pc[r] = "fetch" /\ asked[r].day - back[r] \notin Published /\ back'[r] = back[r] + 1
      BY <1>0, <2>4, <2>1, BoundAssumption DEF NoBulletin, TypeOK
    <3>2. d <= asked[r].day - back[r] /\ d # asked[r].day - back[r]
      BY <1>0, <3>1 DEF RequestInv, LookedBack
    <3> QED BY <2>1, <3>1, <3>2
  <2>5. CASE NetworkFailure(r) /\ attempt[r] + 1 < MAX_RETRIES
    <3>1. pc[r] = "fetch" /\ back' = back
      BY <1>0, <2>5, BoundAssumption DEF NetworkFailure, TypeOK
    <3> QED BY <2>3, <3>1
  <2> QED BY <2>2, <2>3, <2>4, <2>5
<1>4. Handled(r)' /\ NotYet(r)' /\ OfBulletin(r)'
  <2>1. pc'[r] = "fetch" /\ inserted'[r] = {}
    BY <1>0, <1>1 DEF RequestInv, OfBulletin, Working, TypeOK
  <2> QED BY <2>1 DEF Handled, NotYet, OfBulletin, Working
<1>5. /\ pc[r] \notin {"new"} \cup Ended
      /\ fetched' \in [Request -> Int] /\ fetched'[r] \in published \cup {-1}
      /\ todo' \in [Request -> Seq(Currency)]
      /\ \A q \in Request \ {r} : fetched'[q] = fetched[q] /\ todo'[q] = todo[q]
  BY <1>0, <1>1 DEF Ended, TypeOK
<1> QED BY <1>1, <1>2, <1>3, <1>4, <1>5, SearchKeepsInv

LEMMA FetchedKeepsInv ==
    ASSUME InductiveInv, NEW r \in Request, Fetched(r)
    PROVE  InductiveInv'
<1>0. /\ TypeOK /\ AskedType /\ fetched \in [Request -> Int] /\ Published \subseteq published
      /\ OneRowPerKey /\ CacheIsRight /\ \A q \in Request : RequestInv(q)
  BY DEF InductiveInv
<1> DEFINE day == asked[r].day - back[r]
<1>1. /\ pc[r] = "fetch" /\ day \in published
      /\ fetched' = [fetched EXCEPT ![r] = day]
      /\ todo' = [todo EXCEPT ![r] = Bulletin[day]]
      /\ pc' = [pc EXCEPT ![r] = "select"]
      /\ UNCHANGED <<published, cache, asked, back, attempt, inserted, answers>>
  BY DEF Fetched
<1>2. day \in DOMAIN Bulletin /\ day \in Int /\ Bulletin[day] \in Seq(Currency)
  BY <1>0, <1>1, BulletinAssumption DEF TypeOK
<1> HIDE DEF day
<1>3. pc'[r] = "select" /\ fetched'[r] = day /\ todo'[r] = Bulletin[day] /\ inserted'[r] = {}
  BY <1>0, <1>1 DEF RequestInv, OfBulletin, Working, TypeOK
<1>4. LookedBack(r)'
  BY <1>0, <1>1 DEF RequestInv, LookedBack
<1>5. Handled(r)'
  BY <1>1, <1>3 DEF Handled, day
<1>6. NotYet(r)' /\ OfBulletin(r)'
  BY <1>3 DEF NotYet, OfBulletin
<1>7. /\ pc[r] \notin {"new"} \cup Ended
      /\ back' \in [Request -> 0 .. MAX_FALLBACK_DAYS - 1]
      /\ attempt' \in [Request -> 0 .. MAX_RETRIES - 1]
      /\ fetched' \in [Request -> Int] /\ fetched'[r] \in published \cup {-1}
      /\ todo' \in [Request -> Seq(Currency)]
      /\ \A q \in Request \ {r} :
            back'[q] = back[q] /\ fetched'[q] = fetched[q] /\ todo'[q] = todo[q]
  BY <1>0, <1>1, <1>2, <1>3 DEF Ended, TypeOK
<1> QED BY <1>1, <1>4, <1>5, <1>6, <1>7, SearchKeepsInv

LEMMA SelectKeepsInv ==
    ASSUME InductiveInv, NEW r \in Request, Select(r)
    PROVE  InductiveInv'
<1>0. /\ TypeOK /\ AskedType /\ fetched \in [Request -> Int] /\ Published \subseteq published
      /\ OneRowPerKey /\ CacheIsRight /\ \A q \in Request : RequestInv(q)
  BY DEF InductiveInv
<1>1. /\ pc[r] = "select" /\ todo[r] # <<>>
      /\ UNCHANGED <<published, cache, asked, back, attempt, fetched, inserted, answers>>
  BY DEF Select
<1>2. /\ todo[r] \in Seq(Currency) /\ Tail(todo[r]) \in Seq(Currency)
      /\ ToSet(Tail(todo[r])) \subseteq ToSet(todo[r])
      /\ ToSet(todo[r]) = ToSet(Tail(todo[r])) \cup {Head(todo[r])}
  BY <1>0, <1>1, TailToSet DEF TypeOK
<1>3. LookedBack(r) /\ Handled(r) /\ OfBulletin(r)
  BY <1>0 DEF RequestInv
<1>4. /\ pc[r] \notin {"new"} \cup Ended
      /\ back' \in [Request -> 0 .. MAX_FALLBACK_DAYS - 1]
      /\ attempt' \in [Request -> 0 .. MAX_RETRIES - 1]
      /\ fetched' \in [Request -> Int] /\ fetched'[r] \in published \cup {-1}
  BY <1>0, <1>1 DEF Ended, TypeOK
<1>5. CASE /\ Cached(cache \cup inserted[r], Head(todo[r]), asked[r].day) # {}
           /\ todo' = [todo EXCEPT ![r] = Tail(@)] /\ UNCHANGED pc
  <2>1. /\ pc' = [pc EXCEPT ![r] = "select"] /\ todo'[r] = Tail(todo[r])
        /\ todo' \in [Request -> Seq(Currency)]
        /\ \A q \in Request \ {r} : todo'[q] = todo[q]
    BY <1>0, <1>1, <1>2, <1>5 DEF TypeOK
  <2>2. Handled(r)'
    BY <1>1, <1>2, <1>3, <1>5, <2>1 DEF Handled
  <2>3. LookedBack(r)' /\ NotYet(r)' /\ OfBulletin(r)'
    BY <1>1, <1>3, <1>5 DEF LookedBack, NotYet, OfBulletin
  <2> QED BY <1>1, <1>4, <2>1, <2>2, <2>3, SearchKeepsInv
<1>6. CASE /\ Cached(cache \cup inserted[r], Head(todo[r]), asked[r].day) = {}
           /\ pc' = [pc EXCEPT ![r] = "insert"] /\ UNCHANGED todo
  <2>1. /\ pc'[r] = "insert" /\ todo' \in [Request -> Seq(Currency)]
    BY <1>0, <1>6 DEF TypeOK
  <2>2. Handled(r)' /\ LookedBack(r)' /\ OfBulletin(r)'
    BY <1>1, <1>3, <1>6, <2>1 DEF Handled, LookedBack, OfBulletin, Working
  <2>3. NotYet(r)'
    BY <1>1, <1>6, <2>1 DEF NotYet, Cached
  <2> QED BY <1>1, <1>4, <1>6, <2>1, <2>2, <2>3, SearchKeepsInv
<1> QED BY <1>5, <1>6 DEF Select

\* The only step that adds a row: nobody else has its key.
LEMMA InsertKeepsInv ==
    ASSUME InductiveInv, NEW r \in Request, Insert(r)
    PROVE  InductiveInv'
<1>0. /\ TypeOK /\ AskedType /\ fetched \in [Request -> Int] /\ Published \subseteq published
      /\ OneRowPerKey /\ CacheIsRight /\ \A q \in Request : RequestInv(q)
  BY DEF InductiveInv
<1> DEFINE code == Head(todo[r])
           row  == [currency |-> code, requested |-> asked[r].day, rate_date |-> fetched[r]]
<1>1. /\ pc[r] = "insert" /\ Holders(r) = {}
      /\ Cached(cache, code, asked[r].day) = {}
      /\ inserted' = [inserted EXCEPT ![r] = @ \cup {row}]
      /\ todo' = [todo EXCEPT ![r] = Tail(@)]
      /\ pc' = [pc EXCEPT ![r] = "select"]
      /\ published' = published /\ cache' = cache /\ asked' = asked /\ back' = back
      /\ attempt' = attempt /\ fetched' = fetched /\ answers' = answers
  BY DEF Insert
<1>2. /\ LookedBack(r) /\ Handled(r) /\ OfBulletin(r) /\ FromCache(r)
      /\ todo[r] # <<>> /\ Cached(inserted[r], code, asked[r].day) = {}
  BY <1>0, <1>1 DEF RequestInv, NotYet
<1>3. /\ todo[r] \in Seq(Currency) /\ code \in Currency /\ Tail(todo[r]) \in Seq(Currency)
      /\ code \in ToSet(todo[r]) /\ ToSet(Tail(todo[r])) \subseteq ToSet(todo[r])
      /\ ToSet(todo[r]) = ToSet(Tail(todo[r])) \cup {code}
  BY <1>0, <1>2, TailToSet DEF TypeOK
<1>4. row \in Row
  <2>1. asked[r].day \in Day
    BY <1>0, <1>1 DEF TypeOK
  <2>2. fetched[r] \in DOMAIN Bulletin
    BY <1>0, <1>1, <1>2 DEF Handled, Working, TypeOK
  <2> QED BY <1>3, <2>1, <2>2 DEF Row
<1>5. row.currency = code /\ row.requested = asked[r].day /\ row.rate_date = fetched[r]
  OBVIOUS
<1> HIDE DEF row, code
<1>6. /\ inserted' \in [Request -> SUBSET Row] /\ inserted'[r] = inserted[r] \cup {row}
      /\ todo' \in [Request -> Seq(Currency)] /\ todo'[r] = Tail(todo[r])
      /\ pc' \in [Request -> {"new", "lookup", "fetch", "select", "insert", "reread"} \cup Ended]
      /\ pc'[r] = "select"
      /\ \A q \in Request \ {r} :
            inserted'[q] = inserted[q] /\ todo'[q] = todo[q] /\ pc'[q] = pc[q]
  BY <1>0, <1>1, <1>3, <1>4 DEF TypeOK
<1>7. TypeOK'
  <2>1. \A q \in Request : pc'[q] # "new" =>
            asked'[q].codes \in Seq(Currency) /\ asked'[q].day \in Day
    BY <1>0, <1>1, <1>6 DEF TypeOK
  <2> QED BY <1>0, <1>1, <1>6, <2>1 DEF TypeOK
<1>8. OneRowPerKey'
  <2>1. ASSUME NEW t \in Rows PROVE ~SameKey(t, row)
    <3>1. CASE t \in cache
      BY <1>1, <1>5, <3>1 DEF SameKey, Cached
    <3>2. CASE \E q \in Request : t \in inserted[q]
      <4>1. PICK q \in Request : t \in inserted[q]
        BY <3>2
      <4>2. CASE q = r
        BY <1>2, <1>5, <4>1, <4>2 DEF SameKey, Cached
      <4>3. CASE q # r
        BY <1>1, <1>5, <4>1, <4>3 DEF SameKey, Cached, Holders, code
      <4> QED BY <4>2, <4>3
    <3> QED BY <2>1, <3>1, <3>2 DEF Rows
  <2>2. Rows' \subseteq Rows \cup {row}
    <3> SUFFICES ASSUME NEW t \in Rows' PROVE t \in Rows \cup {row}
      OBVIOUS
    <3>1. t \in cache \/ \E q \in Request : t \in inserted'[q]
      BY <1>1 DEF Rows
    <3>2. ASSUME NEW q \in Request, t \in inserted'[q] PROVE t \in inserted[q] \cup {row}
      BY <1>6, <3>2
    <3> QED BY <3>1, <3>2 DEF Rows
  <2>3. \A t : SameKey(row, t) <=> SameKey(t, row)
    BY DEF SameKey
  <2> QED BY <1>0, <2>1, <2>2, <2>3 DEF OneRowPerKey
<1>9. RequestInv(r)'
  <2>1. Handled(r)'
    <3>1. /\ fetched[r] = asked[r].day - back[r] /\ fetched[r] \in published
          /\ ToSet(todo[r]) \subseteq ToSet(Bulletin[fetched[r]])
          /\ \A c \in ToSet(Bulletin[fetched[r]]) \ ToSet(todo[r]) :
                Cached(cache \cup inserted[r], c, asked[r].day) # {}
      BY <1>1, <1>2 DEF Handled, Working
    <3>2. ASSUME NEW c \in ToSet(Bulletin[fetched[r]]) \ ToSet(Tail(todo[r]))
          PROVE  Cached(cache \cup inserted[r] \cup {row}, c, asked[r].day) # {}
      <4>1. CASE c = code
        BY <1>5, <4>1 DEF Cached
      <4>2. CASE c # code
        BY <1>3, <3>1, <4>2 DEF Cached
      <4> QED BY <4>1, <4>2
    <3> QED BY <1>1, <1>3, <1>6, <3>1, <3>2 DEF Handled
  <2>2. OfBulletin(r)'
    <3>1. row.currency \in ToSet(Bulletin[fetched[r]])
      BY <1>1, <1>2, <1>3, <1>5 DEF Handled, Working
    <3> QED BY <1>1, <1>2, <1>5, <1>6, <3>1 DEF OfBulletin, Working
  <2>3. Idle(r)' /\ Busy(r)' /\ Fresh(r)' /\ RanOut(r)' /\ LookedBack(r)' /\ NotYet(r)' /\ FromCache(r)'
    BY <1>0, <1>1, <1>2, <1>6
    DEF RequestInv, Idle, Busy, Fresh, RanOut, LookedBack, NotYet, FromCache, Working, Ended
  <2> QED BY <2>1, <2>2, <2>3 DEF RequestInv
<1>10. ASSUME NEW q \in Request \ {r} PROVE RequestInv(q)'
  BY <1>0, <1>1, <1>6, OthersKeepTheirs
<1>11. CacheIsRight' /\ AskedType' /\ fetched' \in [Request -> Int] /\ Published \subseteq published'
  BY <1>0, <1>1 DEF CacheIsRight, AskedType
<1> QED BY <1>7, <1>8, <1>9, <1>10, <1>11 DEF InductiveInv

\* What is committed is of a bulletin that may answer for its day.
LEMMA InsertedMayAnswer ==
    ASSUME InductiveInv, NEW r \in Request, NEW t \in inserted[r]
    PROVE  MayAnswer(t.rate_date, t.requested)
<1>1. /\ t.requested = asked[r].day /\ t.rate_date = asked[r].day - back[r]
      /\ \A d \in Published : d <= asked[r].day => d <= asked[r].day - back[r]
  BY DEF InductiveInv, RequestInv, OfBulletin, Handled, LookedBack, Working
<1>2. asked[r].day \in Nat /\ back[r] \in 0 .. MAX_FALLBACK_DAYS - 1
  BY DEF InductiveInv, AskedType, TypeOK
<1> QED BY <1>1, <1>2, BoundAssumption DEF MayAnswer

LEMMA CommitKeepsInv ==
    ASSUME InductiveInv, NEW r \in Request, CommitRates(r)
    PROVE  InductiveInv'
<1>0. /\ TypeOK /\ AskedType /\ fetched \in [Request -> Int] /\ Published \subseteq published
      /\ OneRowPerKey /\ CacheIsRight /\ \A q \in Request : RequestInv(q)
  BY DEF InductiveInv
<1> DEFINE next == IF Contains(Bulletin[fetched[r]], Code(r)) THEN "reread" ELSE "not_found"
<1>1. /\ pc[r] = "select"
      /\ cache' = cache \cup inserted[r]
      /\ inserted' = [inserted EXCEPT ![r] = {}]
      /\ pc' = [pc EXCEPT ![r] = next] /\ next \in {"reread", "not_found"}
      /\ published' = published /\ asked' = asked /\ back' = back /\ attempt' = attempt
      /\ fetched' = fetched /\ todo' = todo /\ answers' = answers
  BY DEF CommitRates
<1> HIDE DEF next
<1>2. /\ inserted' \in [Request -> SUBSET Row] /\ inserted'[r] = {}
      /\ pc' \in [Request -> {"new", "lookup", "fetch", "select", "insert", "reread"} \cup Ended]
      /\ pc'[r] \in {"reread", "not_found"}
      /\ \A q \in Request \ {r} : inserted'[q] = inserted[q] /\ pc'[q] = pc[q]
  BY <1>0, <1>1 DEF TypeOK, Ended
<1>3. TypeOK'
  <2>1. cache' \subseteq Row
    BY <1>0, <1>1 DEF TypeOK
  <2>2. answers' \in [Request -> Seq(Row)]
    BY <1>0, <1>1 DEF TypeOK
  <2>3. \A q \in Request : pc'[q] # "new" =>
            asked'[q].codes \in Seq(Currency) /\ asked'[q].day \in Day
    BY <1>0, <1>1, <1>2 DEF TypeOK
  <2> QED BY <1>0, <1>1, <1>2, <2>1, <2>2, <2>3 DEF TypeOK
<1>4. OneRowPerKey'
  <2>1. Rows' \subseteq Rows
    BY <1>1, <1>2 DEF Rows
  <2> QED BY <1>0, <2>1, NoNewRow
<1>5. CacheIsRight'
  BY <1>0, <1>1, InsertedMayAnswer DEF CacheIsRight
<1>6. RequestInv(r)'
  <2>1. FromCache(r)'
    BY <1>0, <1>1 DEF RequestInv, FromCache
  <2>2. asked[r].codes # <<>>
    BY <1>0, <1>1 DEF RequestInv, Busy, Ended
  <2> QED BY <1>1, <1>2, <2>1, <2>2
      DEF RequestInv, Idle, Busy, Fresh, RanOut, LookedBack, Handled, NotYet, OfBulletin, Working
<1>7. ASSUME NEW q \in Request \ {r} PROVE RequestInv(q)'
  BY <1>0, <1>1, <1>2, OthersKeepTheirs
<1>8. AskedType' /\ fetched' \in [Request -> Int] /\ Published \subseteq published'
  BY <1>0, <1>1 DEF AskedType
<1> QED BY <1>3, <1>4, <1>5, <1>6, <1>7, <1>8 DEF InductiveInv

LEMMA Invariance == Spec => []InductiveInv
<1>1. InductiveInv /\ [Next]_vars => InductiveInv'
  <2> SUFFICES ASSUME InductiveInv, [Next]_vars PROVE InductiveInv'
    OBVIOUS
  <2>1. CASE Publish
    BY <2>1, PublishKeepsInv
  <2>2. ASSUME NEW r \in Request, NEW codes \in Questions, NEW day \in Day, Ask(r, codes, day)
        PROVE  InductiveInv'
    BY <2>2, AskKeepsInv
  <2>3. ASSUME NEW r \in Request, Lookup(r) PROVE InductiveInv'
    <3>1. CASE \E t \in Cached(cache, Code(r), asked[r].day) : Return(r, t)
      BY <2>3, <3>1, ReturnKeepsInv DEF Lookup
    <3>2. CASE pc' = [pc EXCEPT ![r] = "fetch"] /\
               UNCHANGED <<asked, back, attempt, fetched, todo, answers>>
      BY <2>3, <3>2, AskingTheBankKeepsInv DEF Lookup
    <3> QED BY <2>3, <3>1, <3>2 DEF Lookup
  <2>4. ASSUME NEW r \in Request, NEW outcome \in Ended \ {"exhausted"},
               pc[r] # "new", Fail(r, outcome)
        PROVE  InductiveInv'
    BY <2>4, FailingKeepsInv
  <2>5. ASSUME NEW r \in Request, Bank(r) PROVE InductiveInv'
    <3>1. pc[r] # "new" /\ "unavailable" \in Ended \ {"exhausted"}
      BY <2>5 DEF Bank, NetworkFailure, BadAnswer, NoBulletin, Fetched, Ended
    <3>2. CASE Fail(r, "unavailable")
      BY <2>4, <3>1, <3>2
    <3>3. CASE Fetched(r)
      BY <3>3, FetchedKeepsInv
    <3>4. CASE \/ NetworkFailure(r) /\ attempt[r] + 1 < MAX_RETRIES
               \/ NoBulletin(r) /\ back[r] + 1 < MAX_FALLBACK_DAYS
      BY <3>4, AskingTheBankKeepsInv
    <3>5. CASE NoBulletin(r) /\ Fail(r, "exhausted")
      BY <3>5, RunningOutKeepsInv
    <3> QED BY <2>5, <3>2, <3>3, <3>4, <3>5 DEF Bank, NetworkFailure, BadAnswer, NoBulletin
  <2>6. ASSUME NEW r \in Request, Select(r) \/ Insert(r) \/ CommitRates(r) PROVE InductiveInv'
    BY <2>6, SelectKeepsInv, InsertKeepsInv, CommitKeepsInv
  <2>7. ASSUME NEW r \in Request, InsertRefused(r) \/ DeadlockAbort(r) PROVE InductiveInv'
    <3>1. Fail(r, "error") /\ pc[r] = "insert" /\ "error" \in Ended \ {"exhausted"}
      BY <2>7 DEF InsertRefused, DeadlockAbort, Ended
    <3> QED BY <2>4, <3>1
  <2>8. ASSUME NEW r \in Request, Reread(r) PROVE InductiveInv'
    BY <2>8, ReturnKeepsInv DEF Reread
  <2>9. CASE UNCHANGED vars
    <3>1. /\ published' = published /\ cache' = cache /\ pc' = pc /\ asked' = asked
          /\ back' = back /\ attempt' = attempt /\ fetched' = fetched /\ todo' = todo
          /\ inserted' = inserted /\ answers' = answers
      BY <2>9 DEF vars, request
    <3>2. \A q \in Request : RequestInv(q)'
      BY <3>1, OthersKeepTheirs DEF InductiveInv
    <3> QED BY <3>1, <3>2
        DEF InductiveInv, TypeOK, AskedType, OneRowPerKey, Rows, CacheIsRight
  <2> QED BY <2>1, <2>2, <2>3, <2>5, <2>6, <2>7, <2>8, <2>9 DEF Next, Serve
<1> QED BY InitInvariant, <1>1, PTL DEF Spec

-----------------------------------------------------------------------------
(* The promises                                                            *)

\* Every variable of RateCache keeps its type; the counters of retries and of
\* days stay below their bounds, whatever the bank answers.
THEOREM TypeCorrect == Spec => []TypeOK
BY Invariance, PTL DEF InductiveInv

LEMMA AnsweredIsCached ==
    ASSUME InductiveInv
    PROVE  Answered \subseteq cache
<1> SUFFICES ASSUME NEW t \in Answered PROVE t \in cache
  OBVIOUS
<1>1. PICK r \in Request : t \in ToSet(answers[r])
  BY DEF Answered
<1> QED BY <1>1 DEF InductiveInv, RequestInv, FromCache

\* Whatever is stored or answered for a day is of the last bulletin up to that
\* day of those that were out from the start (get_rate's fallback), for every
\* calendar of bulletins and whatever retries, failures and races there are.
THEOREM SettledRates == Spec => []SettledRatesAreLast
<1>1. InductiveInv => SettledRatesAreLast
  BY AnsweredIsCached
  DEF InductiveInv, CacheIsRight, MayAnswer, RequestInv, RanOut, SettledRatesAreLast
<1> QED BY Invariance, <1>1, PTL

\* Any two answers for the same currency and day are the same, however many
\* requests missed the cache at once (the unique constraint of save_rates).
THEOREM SameAnswers == Spec => []AnswersAgree
<1>1. InductiveInv => AnswersAgree
  BY AnsweredIsCached DEF InductiveInv, OneRowPerKey, SameKey, Rows, AnswersAgree
<1> QED BY Invariance, <1>1, PTL

\* The commit of a request enters its bulletin into the book.
LEMMA CommitStores ==
    ASSUME InductiveInv, NEW r \in Request, CommitRates(r)
    PROVE  /\ fetched[r] \in published /\ asked[r].codes # <<>>
           /\ Book!Store(asked[r].day, fetched[r])
<1> DEFINE b == fetched[r]
           day == asked[r].day
           Missing == {k \in ToSet(Bulletin[b]) :
                          \A t \in cache : ~(t.currency = k /\ t.requested = day)}
<1>0. RequestInv(r) /\ OneRowPerKey /\ TypeOK /\ AskedType
  BY DEF InductiveInv
<1>1. /\ pc[r] = "select" /\ todo[r] = <<>> /\ cache' = cache \cup inserted[r]
      /\ published' = published /\ asked' = asked /\ answers' = answers
  BY DEF CommitRates
<1>2. /\ b = day - back[r] /\ b \in published
      /\ \A c \in ToSet(Bulletin[b]) : Cached(cache \cup inserted[r], c, day) # {}
      /\ \A d \in Published : d <= day => d <= day - back[r]
      /\ \A t \in inserted[r] :
            t.requested = day /\ t.rate_date = b /\ t.currency \in ToSet(Bulletin[b])
      /\ asked[r].codes # <<>>
  BY <1>0, <1>1, EmptyToSet
  DEF RequestInv, Handled, LookedBack, OfBulletin, Busy, Working, Ended
<1>3. b \in Book!Eligible(day)
  <2>1. day \in Nat /\ back[r] \in 0 .. MAX_FALLBACK_DAYS - 1
    BY <1>0 DEF AskedType, TypeOK
  <2>2. b <= day /\ day - b < MAX_FALLBACK_DAYS
    BY <1>2, <2>1, BoundAssumption
  <2> QED BY <1>2, <2>2 DEF Book!Eligible
<1>4. \A t \in inserted[r] : t = Book!Entry(t.currency, day, b)
  <2> SUFFICES ASSUME NEW t \in inserted[r] PROVE t = Book!Entry(t.currency, day, b)
    OBVIOUS
  <2>1. t \in Row
    BY <1>0 DEF TypeOK
  <2> QED BY <1>2, <2>1 DEF Row, Book!Entry
<1>5. cache \cup inserted[r] \subseteq cache \cup {Book!Entry(c, day, b) : c \in Missing}
  <2> SUFFICES ASSUME NEW t \in inserted[r], t \notin cache
               PROVE  t \in {Book!Entry(c, day, b) : c \in Missing}
    OBVIOUS
  <2>1. \A u \in cache : ~(u.currency = t.currency /\ u.requested = day)
    BY <1>0, <1>2 DEF OneRowPerKey, SameKey, Rows
  <2>2. t.currency \in Missing
    BY <1>2, <2>1
  <2> QED BY <1>4, <2>2
<1>6. {Book!Entry(c, day, b) : c \in Missing} \subseteq cache \cup inserted[r]
  <2> SUFFICES ASSUME NEW c \in Missing PROVE Book!Entry(c, day, b) \in inserted[r]
    OBVIOUS
  <2>1. PICK t \in cache \cup inserted[r] : t.currency = c /\ t.requested = day
    BY <1>2 DEF Cached
  <2>2. t \in inserted[r]
    BY <2>1
  <2> QED BY <1>4, <2>1, <2>2
<1>7. cache' = cache \cup {Book!Entry(c, day, b) : c \in Missing}
  BY <1>1, <1>5, <1>6
<1> QED BY <1>1, <1>2, <1>3, <1>7 DEF Book!Store, ToSet, Book!ToSet

\* An answer that is returned is one read from the book.
LEMMA ReturnAnswers ==
    ASSUME InductiveInv, NEW r \in Request, pc[r] \in {"lookup", "reread"},
           NEW t \in Cached(cache, Code(r), asked[r].day), Return(r, t),
           UNCHANGED <<published, cache>>
    PROVE  Book!Answer(r)
<1>1. asked[r].codes # <<>>
  BY DEF InductiveInv, RequestInv, Busy, Ended
<1> QED BY <1>1 DEF Return, Cached, Code, Book!Answer

\* The cache with its misses, retries, open transactions and races implements a
\* book that is written a whole bulletin at a time and never corrected.
THEOREM RatesImplementBook == Spec => RatesAreABook
<1>1. Init => Book!Init
  BY DEF Init, Book!Init
<1>2. InductiveInv /\ [Next]_vars => [Book!Next]_(Book!vars)
  <2> SUFFICES ASSUME InductiveInv, [Next]_vars PROVE [Book!Next]_(Book!vars)
    OBVIOUS
  <2>1. CASE Publish
    BY <2>1 DEF Publish, request, Book!Publish, Book!Next
  <2>2. ASSUME NEW r \in Request, NEW codes \in Questions, NEW day \in Day, Ask(r, codes, day)
        PROVE  Book!Next
    <3>1. asked[r].codes = <<>> /\ answers[r] = <<>>
      BY <2>2 DEF Ask, InductiveInv, RequestInv, Idle
    <3>2. Book!Ask(r, codes, day)
      BY <2>2, <3>1 DEF Ask, Book!Ask
    <3>3. codes \in Book!Questions
      BY DEF Questions, Book!Questions
    <3> QED BY <3>2, <3>3 DEF Book!Next
  <2>3. ASSUME NEW r \in Request, CommitRates(r) PROVE Book!Next
    BY <2>3, CommitStores DEF Book!Next
  <2>4. ASSUME NEW r \in Request, NEW t \in Cached(cache, Code(r), asked[r].day),
               Lookup(r) \/ Reread(r), Return(r, t)
        PROVE  Book!Next
    <3>1. pc[r] \in {"lookup", "reread"} /\ UNCHANGED <<published, cache>>
      BY <2>4 DEF Lookup, Reread
    <3> QED BY <2>4, <3>1, ReturnAnswers DEF Book!Next
  <2>5. ASSUME NEW r \in Request, Lookup(r) \/ Reread(r)
        PROVE  Book!Next \/ UNCHANGED <<published, cache, asked, answers>>
    BY <2>4, <2>5 DEF Lookup, Reread
  <2>6. ASSUME NEW r \in Request,
               Bank(r) \/ Select(r) \/ Insert(r) \/ InsertRefused(r) \/ DeadlockAbort(r)
        PROVE  UNCHANGED <<published, cache, asked, answers>>
    BY <2>6 DEF Bank, NetworkFailure, BadAnswer, NoBulletin, Fetched, Select, Insert,
                InsertRefused, DeadlockAbort, Fail
  <2>7. CASE UNCHANGED vars
    BY <2>7 DEF vars, request, Book!vars
  <2> QED BY <2>1, <2>2, <2>3, <2>5, <2>6, <2>7 DEF Next, Serve, Book!vars
<1> QED BY Invariance, <1>1, <1>2, PTL DEF Spec, RatesAreABook, Book!Spec

=============================================================================
