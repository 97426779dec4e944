----------------------------- MODULE RateCache -----------------------------
(***************************************************************************)
(* Exchange rates: the table exchange_rates as a cache of the bulletins of *)
(* the central bank (services/exchange_rates.py,                           *)
(* repositories/exchange_rates.py, models/exchange_rate.py).               *)
(*                                                                         *)
(* The cache is keyed by currency and requested day.  A miss asks the bank *)
(* for the bulletin of that day and, where there is none, of the days      *)
(* before it; every currency of the bulletin found is stored under the     *)
(* requested day, those already stored excepted.  A request is one         *)
(* database session at READ COMMITTED: what it has inserted and not yet    *)
(* committed is kept in inserted[r].                                       *)
(*                                                                         *)
(* A rate is what a bulletin says of a currency, so it is named by the     *)
(* currency and the day of the bulletin; the quotient of the conversion    *)
(* itself is left out.                                                     *)
(***************************************************************************)
EXTENDS Integers, Sequences, SequencesExt, FiniteSets

CONSTANTS
    Request,        \* the requests to /rates and /convert
    Currency,
    Day,            \* days a client may ask for
    Bulletin,       \* Bulletin[d]: the currencies of the bulletin of d, in order
    Published,      \* days whose bulletin is out from the start
    MAX_RETRIES, MAX_FALLBACK_DAYS

ASSUME DayAssumption == Day \subseteq Nat
ASSUME BulletinAssumption ==
    /\ DOMAIN Bulletin \subseteq Nat /\ Published \subseteq DOMAIN Bulletin
    /\ \A d \in DOMAIN Bulletin :
        Bulletin[d] \in Seq(Currency) /\ IsInjective(Bulletin[d])
ASSUME BoundAssumption == MAX_RETRIES \in Nat \ {0} /\ MAX_FALLBACK_DAYS \in Nat \ {0}

VARIABLES
    published,      \* days whose bulletin the bank serves
    cache,          \* committed rows of exchange_rates
    pc,             \* pc[r]: what request r does next
    asked,          \* asked[r]: the currencies still to answer, and the day
    back,           \* back[r]: days_back
    attempt,        \* attempt[r]: network failures in a row
    fetched,        \* fetched[r]: day of the bulletin r has fetched
    todo,           \* todo[r]: its currencies not handled yet
    inserted,       \* inserted[r]: rows r inserted and did not commit yet
    answers         \* answers[r]: the rows r has answered with

request == <<pc, asked, back, attempt, fetched, todo, inserted, answers>>
vars == <<published, cache, request>>

Row == [currency : Currency, requested : Day, rate_date : DOMAIN Bulletin]

\* "exhausted" and "unavailable" are one BulletinUnavailableError: the first when
\* the days to fall back to run out, the second when the bank gives no answer.
Ended == {"ok", "not_found", "exhausted", "unavailable", "error"}

TypeOK ==
    /\ published \subseteq DOMAIN Bulletin
    /\ cache \subseteq Row
    /\ pc \in [Request -> {"new", "lookup", "fetch", "select", "insert", "reread"}
                          \cup Ended]
    /\ \A r \in Request : pc[r] # "new" =>
        asked[r].codes \in Seq(Currency) /\ asked[r].day \in Day
    /\ back \in [Request -> 0 .. MAX_FALLBACK_DAYS - 1]
    /\ attempt \in [Request -> 0 .. MAX_RETRIES - 1]
    /\ \A r \in Request : fetched[r] \in published \cup {-1}
    /\ todo \in [Request -> Seq(Currency)]
    /\ inserted \in [Request -> SUBSET Row]
    /\ answers \in [Request -> Seq(Row)]

Init ==
    /\ published = Published
    /\ cache = {}
    /\ pc = [r \in Request |-> "new"]
    /\ asked = [r \in Request |-> [codes |-> <<>>, day |-> 0]]
    /\ back = [r \in Request |-> 0]
    /\ attempt = [r \in Request |-> 0]
    /\ fetched = [r \in Request |-> -1]
    /\ todo = [r \in Request |-> <<>>]
    /\ inserted = [r \in Request |-> {}]
    /\ answers = [r \in Request |-> <<>>]

-----------------------------------------------------------------------------

\* The bank publishes the next bulletin.
Publish ==
    /\ \E d \in DOMAIN Bulletin \ published :
        /\ \A c \in DOMAIN Bulletin \ published : d <= c
        /\ published' = published \cup {d}
    /\ UNCHANGED <<cache, request>>

\* GET /rates asks for one currency, GET /convert for up to two (the lira
\* needs no rate), for any day.
Ask(r, codes, day) ==
    /\ pc[r] = "new"
    /\ asked' = [asked EXCEPT ![r] = [codes |-> codes, day |-> day]]
    /\ pc' = [pc EXCEPT ![r] = "lookup"]
    /\ UNCHANGED <<published, cache, back, attempt, fetched, todo, inserted, answers>>

Code(r) == Head(asked[r].codes)

\* find_cached_rate, for exactly the requested day.
Cached(rows, code, day) == {t \in rows : t.currency = code /\ t.requested = day}

\* The local variables of get_rate go out of scope.
Forget(r) ==
    /\ back' = [back EXCEPT ![r] = 0]
    /\ attempt' = [attempt EXCEPT ![r] = 0]
    /\ fetched' = [fetched EXCEPT ![r] = -1]
    /\ todo' = [todo EXCEPT ![r] = <<>>]

\* get_rate returns row t; convert goes on with the next currency.
Return(r, t) ==
    /\ Forget(r)
    /\ answers' = [answers EXCEPT ![r] = Append(@, t)]
    /\ asked' = [asked EXCEPT ![r].codes = Tail(@)]
    /\ pc' = [pc EXCEPT ![r] = IF asked'[r].codes = <<>> THEN "ok" ELSE "lookup"]

\* The first look into the cache.
Lookup(r) ==
    /\ pc[r] = "lookup"
    /\ \/ \E t \in Cached(cache, Code(r), asked[r].day) :
            Return(r, t)
       \/ /\ Cached(cache, Code(r), asked[r].day) = {}
          /\ pc' = [pc EXCEPT ![r] = "fetch"]
          /\ UNCHANGED <<asked, back, attempt, fetched, todo, answers>>
    /\ UNCHANGED <<published, cache, inserted>>

\* The request ends without an answer; its transaction is rolled back.
Fail(r, outcome) ==
    /\ pc' = [pc EXCEPT ![r] = outcome]
    /\ inserted' = [inserted EXCEPT ![r] = {}]
    /\ Forget(r)
    /\ UNCHANGED <<published, cache, asked, answers>>

\* Faulty: the last failure is not noticed and the count starts again.
RetryForEver(r) ==
    /\ pc[r] = "fetch"
    /\ attempt' = [attempt EXCEPT ![r] = (@ + 1) % MAX_RETRIES]
    /\ UNCHANGED <<published, cache, pc, asked, back, fetched, todo, inserted, answers>>

\* Faulty: one failure too many is tried again.
RetryOnceMore(r) ==
    /\ pc[r] = "fetch"
    /\ attempt[r] < MAX_RETRIES
    /\ attempt' = [attempt EXCEPT ![r] = @ + 1]
    /\ UNCHANGED <<published, cache, pc, asked, back, fetched, todo, inserted, answers>>

\* Faulty: a bank that does not answer is taken for a day without bulletin.
FallBackOnFailure(r) ==
    /\ pc[r] = "fetch"
    /\ back[r] + 1 < MAX_FALLBACK_DAYS
    /\ back' = [back EXCEPT ![r] = @ + 1]
    /\ UNCHANGED <<published, cache, pc, asked, attempt, fetched, todo, inserted, answers>>

\* The bank does not answer: the request is sent again, MAX_RETRIES times in all.
NetworkFailure(r) ==
    /\ pc[r] = "fetch"
    /\ \/ /\ attempt[r] + 1 < MAX_RETRIES
          /\ attempt' = [attempt EXCEPT ![r] = @ + 1]
          /\ UNCHANGED <<published, cache, pc, asked, back, fetched, todo, inserted, answers>>
       \/ attempt[r] + 1 = MAX_RETRIES /\ Fail(r, "unavailable")

\* It answers with an error other than 404, or with what is no bulletin.
BadAnswer(r) == pc[r] = "fetch" /\ Fail(r, "unavailable")

\* 404, there is no bulletin for the day: the day before is asked for.
NoBulletin(r) ==
    /\ pc[r] = "fetch"
    /\ asked[r].day - back[r] \notin published
    /\ \/ /\ back[r] + 1 < MAX_FALLBACK_DAYS
          /\ back' = [back EXCEPT ![r] = @ + 1]
          /\ attempt' = [attempt EXCEPT ![r] = 0]
          /\ UNCHANGED <<published, cache, pc, asked, fetched, todo, inserted, answers>>
       \/ back[r] + 1 = MAX_FALLBACK_DAYS /\ Fail(r, "exhausted")

Fetched(r) ==
    LET day == asked[r].day - back[r]
    IN  /\ pc[r] = "fetch"
        /\ day \in published
        /\ fetched' = [fetched EXCEPT ![r] = day]
        /\ todo' = [todo EXCEPT ![r] = Bulletin[day]]
        /\ pc' = [pc EXCEPT ![r] = "select"]
        /\ UNCHANGED <<published, cache, asked, back, attempt, inserted, answers>>

\* save_rates, for one currency: nothing to do if the session sees its row.
Select(r) ==
    /\ pc[r] = "select" /\ todo[r] # <<>>
    /\ \/ /\ Cached(cache \cup inserted[r], Head(todo[r]), asked[r].day) # {}
          /\ todo' = [todo EXCEPT ![r] = Tail(@)]
          /\ UNCHANGED pc
       \/ /\ Cached(cache \cup inserted[r], Head(todo[r]), asked[r].day) = {}
          /\ pc' = [pc EXCEPT ![r] = "insert"]
          /\ UNCHANGED todo
    /\ UNCHANGED <<published, cache, asked, back, attempt, fetched, inserted, answers>>

\* The requests whose open transaction has inserted the key r inserts.
Holders(r) ==
    {q \in Request \ {r} : Cached(inserted[q], Head(todo[r]), asked[r].day) # {}}

\* Faulty: every row is committed as it is inserted.
InsertCommitted(r) ==
    /\ pc[r] = "insert"
    /\ Holders(r) = {}
    /\ Cached(cache, Head(todo[r]), asked[r].day) = {}
    /\ cache' = cache \cup
            {[currency |-> Head(todo[r]), requested |-> asked[r].day,
              rate_date |-> fetched[r]]}
    /\ todo' = [todo EXCEPT ![r] = Tail(@)]
    /\ pc' = [pc EXCEPT ![r] = "select"]
    /\ UNCHANGED <<published, asked, back, attempt, fetched, inserted, answers>>

\* The row is flushed.  The unique constraint makes it wait for others that
\* insert the same key, and refuses it once one of them has committed.
Insert(r) ==
    /\ pc[r] = "insert"
    /\ Holders(r) = {}
    /\ Cached(cache, Head(todo[r]), asked[r].day) = {}
    /\ inserted' = [inserted EXCEPT ![r] = @ \cup
            {[currency |-> Head(todo[r]), requested |-> asked[r].day,
              rate_date |-> fetched[r]]}]
    /\ todo' = [todo EXCEPT ![r] = Tail(@)]
    /\ pc' = [pc EXCEPT ![r] = "select"]
    /\ UNCHANGED <<published, cache, asked, back, attempt, fetched, answers>>

\* Nothing catches the IntegrityError: the request ends with an error.
InsertRefused(r) ==
    /\ pc[r] = "insert"
    /\ Cached(cache, Head(todo[r]), asked[r].day) # {}
    /\ Fail(r, "error")

\* Requests that wait for each other's keys: PostgreSQL aborts one of them.
DeadlockAbort(r) ==
    /\ \E S \in SUBSET {q \in Request : pc[q] = "insert" /\ Holders(q) # {}} :
        r \in S /\ S = UNION {Holders(q) : q \in S}
    /\ Fail(r, "error")

\* Every currency is handled: the rows are committed, whether or not the one
\* asked for is among them.
CommitRates(r) ==
    /\ pc[r] = "select" /\ todo[r] = <<>>
    /\ cache' = cache \cup inserted[r]
    /\ inserted' = [inserted EXCEPT ![r] = {}]
    /\ pc' = [pc EXCEPT ![r] =
          IF Contains(Bulletin[fetched[r]], Code(r)) THEN "reread" ELSE "not_found"]
    /\ UNCHANGED <<published, asked, back, attempt, fetched, todo, answers>>

\* Faulty: the answer is taken from the bulletin, not from the cache.
AnswerAsFetched(r) ==
    /\ pc[r] = "reread"
    /\ Return(r, [currency |-> Code(r), requested |-> asked[r].day,
                  rate_date |-> fetched[r]])
    /\ UNCHANGED <<published, cache, inserted>>

\* The answer is what the cache holds now.  There is one: no row of the cache
\* is ever deleted.
Reread(r) ==
    /\ pc[r] = "reread"
    /\ \E t \in Cached(cache, Code(r), asked[r].day) : Return(r, t)
    /\ UNCHANGED <<published, cache, inserted>>

Bank(r)  == NetworkFailure(r) \/ BadAnswer(r) \/ NoBulletin(r) \/ Fetched(r)
Serve(r) ==
    \/ Lookup(r) \/ Bank(r) \/ Select(r) \/ Insert(r) \/ InsertRefused(r)
    \/ CommitRates(r) \/ Reread(r) \/ DeadlockAbort(r)

Questions == {<<c>> : c \in Currency} \cup {<<c, d>> : c, d \in Currency}

Next ==
    \/ Publish
    \/ \E r \in Request :
        Serve(r) \/ \E codes \in Questions, day \in Day : Ask(r, codes, day)

Spec == Init /\ [][Next]_vars

\* A request that is being served goes on; the bank may never publish again.
FairSpec == Spec /\ \A r \in Request : WF_vars(Serve(r))

-----------------------------------------------------------------------------
(* What the rates promise                                                  *)

Answered == UNION {ToSet(answers[r]) : r \in Request}

\* README: "falling back to the last published bulletin".  For a day whose
\* bulletins were all out from the start, whatever is stored or answered is of
\* the last bulletin up to that day, and within the days a fallback reaches:
\* no retry, failure or race makes it an earlier one.  And the fallback reaches
\* all of these days: it runs out only if none of them had a bulletin.
SettledRatesAreLast ==
    /\ \A t \in cache \cup Answered :
        (\A d \in DOMAIN Bulletin : d <= t.requested => d \in Published) =>
            /\ t.rate_date <= t.requested
            /\ t.requested - t.rate_date < MAX_FALLBACK_DAYS
            /\ \A d \in Published : d <= t.requested => d <= t.rate_date
    /\ \A r \in Request : pc[r] = "exhausted" =>
        \A d \in Published : d <= asked[r].day => asked[r].day - d >= MAX_FALLBACK_DAYS

\* README: "cached per requested day".  Two requests that are answered for
\* the same currency and day are answered the same, also when both missed the
\* cache and were given different bulletins by the bank.
AnswersAgree ==
    \A t, u \in cache \cup Answered :
        t.currency = u.currency /\ t.requested = u.requested => t = u

\* Every request comes to an end, whatever the bank answers and whoever else
\* is inserting the same rates.
EveryRequestEnds ==
    \A r \in Request : pc[r] # "new" ~> pc[r] \in Ended

\* Hits, misses, retries and overlapping inserts together are a book that is
\* written a whole bulletin at a time: the committed rows are the book, what a
\* request has inserted and not committed is hidden.  No answer is of anything
\* but the book, and no bulletin is ever stored in part.
Book == INSTANCE RateBook WITH
    published <- published, book <- cache, asked <- asked, answers <- answers
RatesAreABook == Book!Spec
=============================================================================
