------------------------------- MODULE Serving -------------------------------
(***************************************************************************)
(* Requests and the connection pool (core/database.py, main.py,            *)
(* api/exports.py, api/budgets.py, api/exchange_rates.py, api/ready.py).   *)
(*                                                                         *)
(* A request has one session, which checks a connection out at its first   *)
(* query, that of the token's owner, and gives it back at a commit and     *)
(* after the response.  Who finds no room in the pool waits, for a bounded *)
(* time.  A CSV export opens a second session inside its response and      *)
(* keeps the first; an event stream keeps its own while it sleeps; a rate  *)
(* that was not cached gives its own back and needs another to re-read.    *)
(*                                                                         *)
(* What a handler does with its connection is the subject of the other     *)
(* modules: "ok" is whatever it answers, a refusal included.               *)
(***************************************************************************)
EXTENDS Integers, FiniteSets, FiniteSetsExt

CONSTANTS
    Request,
    Kinds,          \* Kinds[r]: what request r may ask for
    PoolSize,       \* connections the pool keeps
    MaxOverflow,    \* and how many it opens beyond them
    MaxOutages      \* how often the database may stop

Kind == {"plain", "ready", "rate", "stream", "export"}

ASSUME RequestAssumption == IsFiniteSet(Request)
ASSUME KindAssumption == Kinds \in [Request -> SUBSET Kind]
ASSUME PoolAssumption ==
    PoolSize \in Nat \ {0} /\ MaxOverflow \in Nat /\ MaxOutages \in Nat

Capacity == PoolSize + MaxOverflow

VARIABLES
    kind,       \* kind[r]: what request r asks for
    pc,         \* pc[r]: how far request r is, or how it ended
    out,        \* connections checked out, as the pool counts them
    idle,       \* connections in the pool
    stale,      \* those of them the database has dropped
    lost,       \* requests whose connection in use the database has dropped
    orphan,     \* ended exports whose generator still has its session open
    up,         \* the database is reachable
    outages,    \* how often it stopped
    disturbed   \* requests during which it was not up all the time

pool     == <<out, idle, stale>>
database == <<up, outages, disturbed>>
vars     == <<kind, pc, pool, lost, orphan, database>>

Ended == {"ok", "error", "unavailable", "cut", "gone"}

\* Checked out by r, going by where r is.
Held(r) ==
    CASE pc[r] \in {"busy", "reread", "second", "streaming", "sent"} -> 1
      [] pc[r] = "reading" -> 2
      [] OTHER -> 0

\* Sessions with a connection, as pairs of a request and a number: the second
\* session of a request is that of its export.
Connections == {c \in Request \X (1 .. 2) : c[2] <= Held(c[1])}

InService(r) == pc[r] \notin {"new"} \cup Ended

TypeOK ==
    /\ kind \in [Request -> Kind \cup {"none"}]
    /\ pc \in [Request -> {"new", "first", "busy", "again", "reread", "second",
                           "reading", "streaming", "sent"} \cup Ended]
    /\ out \in 0 .. Capacity
    /\ idle \in 0 .. PoolSize /\ stale \in 0 .. idle
    /\ lost \subseteq Request /\ orphan \subseteq Request /\ disturbed \subseteq Request
    /\ up \in BOOLEAN /\ outages \in 0 .. MaxOutages

Init ==
    /\ kind = [r \in Request |-> "none"]
    /\ pc = [r \in Request |-> "new"]
    /\ out = 0 /\ idle = 0 /\ stale = 0
    /\ lost = {} /\ orphan = {}
    /\ up = TRUE /\ outages = 0 /\ disturbed = {}

-----------------------------------------------------------------------------
(* The pool                                                                *)

\* Faulty: the pool is configured without a bound.
AlwaysRoom == TRUE

Room == out < Capacity

Waits(r) == pc[r] \in {"first", "again", "second"}

GoOn(r) ==
    pc' = [pc EXCEPT ![r] =
              CASE @ = "first" -> "busy" [] @ = "again" -> "reread"
                [] @ = "second" -> "reading"]

\* Faulty: the engine is created without pool_pre_ping.
CheckoutUnpinged(r) ==
    /\ Waits(r) /\ Room /\ up
    /\ \/ idle > stale /\ idle' = idle - 1 /\ UNCHANGED <<stale, lost>>
       \/ stale > 0 /\ idle' = idle - 1 /\ stale' = stale - 1 /\ lost' = lost \cup {r}
       \/ idle = 0 /\ UNCHANGED <<idle, stale, lost>>
    /\ out' = out + 1
    /\ GoOn(r)
    /\ UNCHANGED <<kind, orphan, database>>

\* A connection is checked out: one that is idle or, if none is, a new one.
\* An idle one is pinged first, and replaced if the database has dropped it.
Checkout(r) ==
    /\ Waits(r) /\ Room /\ up
    /\ \/ idle > stale /\ idle' = idle - 1 /\ UNCHANGED stale
       \/ stale > 0 /\ idle' = idle - 1 /\ stale' = stale - 1
       \/ idle = 0 /\ UNCHANGED <<idle, stale>>
    /\ out' = out + 1
    /\ GoOn(r)
    /\ UNCHANGED <<kind, lost, orphan, database>>

\* n connections come back.  The pool keeps PoolSize of them; one that was
\* lost is noticed when it is reset, and replaced at its next use.
GiveBack(n) ==
    /\ out' = out - n
    /\ idle' = Min({idle + n, PoolSize})
    /\ UNCHANGED stale

\* Request r goes to state next and gives n connections back.
Leave(r, n, next) ==
    /\ pc' = [pc EXCEPT ![r] = next]
    /\ GiveBack(n)
    /\ lost' = lost \ {r}
    /\ UNCHANGED <<kind, database>>

\* What a client is told when the database or the pool fails its request: 500,
\* except that readiness says 503, and that a response already begun breaks off.
Failure(r) ==
    CASE pc[r] \in {"second", "reading", "streaming"} -> "cut"
      [] kind[r] = "ready" -> "unavailable"
      [] OTHER -> "error"

Fail(r) == Leave(r, Held(r), Failure(r)) /\ UNCHANGED orphan

ConnectRefused(r) == Waits(r) /\ Room /\ ~up /\ Fail(r)

\* Faulty: the pool has no timeout.
WaitForEver(r) == Waits(r) /\ ~Room /\ UNCHANGED vars

PoolTimeout(r) == Waits(r) /\ ~Room /\ Fail(r)

\* A query on a connection the database has dropped.
Broken(r) == r \in lost /\ Fail(r)

-----------------------------------------------------------------------------
(* The requests                                                            *)

Arrive(r, k) ==
    /\ pc[r] = "new" /\ k \in Kinds[r]
    /\ kind' = [kind EXCEPT ![r] = k]
    /\ pc' = [pc EXCEPT ![r] = "first"]
    /\ disturbed' = IF up THEN disturbed ELSE disturbed \cup {r}
    /\ UNCHANGED <<pool, lost, orphan, up, outages>>

\* The response is sent, after it the session is closed.
Answer(r) ==
    /\ \/ pc[r] = "busy" /\ kind[r] \in {"plain", "ready", "rate"}
       \/ pc[r] \in {"reread", "streaming", "sent"}
    /\ Leave(r, 1, "ok")
    /\ UNCHANGED orphan

\* Faulty: the rates are flushed and not committed before they are read again.
CommitKeepingConnection(r) ==
    /\ pc[r] = "busy" /\ kind[r] = "rate" /\ r \notin lost
    /\ Leave(r, 0, "again")
    /\ UNCHANGED orphan

\* A bulletin was fetched: save_rates commits, and the rate is looked up again.
CommitRates(r) ==
    /\ pc[r] = "busy" /\ kind[r] = "rate" /\ r \notin lost
    /\ Leave(r, 1, "again")
    /\ UNCHANGED orphan

\* The owner of the token is known: a stream, or the header of an export, goes
\* out with status 200 before anything is read.  An export now opens a session
\* of its own, the request's one still having its connection.
Begin(r) ==
    /\ pc[r] = "busy" /\ kind[r] \in {"stream", "export"}
    /\ Leave(r, 0, IF kind[r] = "stream" THEN "streaming" ELSE "second")
    /\ UNCHANGED orphan

\* Faulty: the session of the export is not closed with its rows.
EndRowsOpen(r) ==
    /\ pc[r] = "reading" /\ r \notin lost
    /\ Leave(r, 0, "sent")
    /\ UNCHANGED orphan

\* The rows are exhausted, the session of the export is closed.
EndRows(r) ==
    /\ pc[r] = "reading" /\ r \notin lost
    /\ Leave(r, 1, "sent")
    /\ UNCHANGED orphan

\* The client goes away from a response under way, which is cancelled.  An
\* export cancelled while it sends, not while it reads, leaves its generator
\* suspended, with the session open, until the event loop finalises it.
Disconnect(r) ==
    \/ /\ pc[r] \in {"streaming", "second", "reading"}
       /\ Leave(r, Held(r), "gone")
       /\ UNCHANGED orphan
    \/ /\ pc[r] = "reading"
       /\ Leave(r, 1, "gone")
       /\ orphan' = orphan \cup {r}

Finalise(r) ==
    /\ r \in orphan
    /\ orphan' = orphan \ {r}
    /\ GiveBack(1)
    /\ UNCHANGED <<kind, pc, lost, database>>

-----------------------------------------------------------------------------

\* The database stops, and every connection it had is gone.
DatabaseStops ==
    /\ up /\ outages < MaxOutages
    /\ up' = FALSE /\ outages' = outages + 1
    /\ stale' = idle
    /\ lost' = {r \in Request : pc[r] \in {"busy", "reread", "reading", "streaming"}}
    /\ disturbed' = disturbed \cup {r \in Request : InService(r)}
    /\ UNCHANGED <<kind, pc, out, idle, orphan>>

DatabaseStarts ==
    /\ ~up /\ up' = TRUE
    /\ UNCHANGED <<kind, pc, pool, lost, orphan, outages, disturbed>>

Serve(r) ==
    \/ Checkout(r) \/ ConnectRefused(r) \/ PoolTimeout(r) \/ Broken(r)
    \/ Answer(r) \/ CommitRates(r) \/ Begin(r) \/ EndRows(r) \/ Finalise(r)

Next ==
    \/ \E r \in Request, k \in Kind : Arrive(r, k)
    \/ \E r \in Request : Serve(r) \/ Disconnect(r)
    \/ DatabaseStops \/ DatabaseStarts

Spec == Init /\ [][Next]_vars

\* A request in service goes on: the bank and the pool have timeouts, a stream
\* closes when it has slept without news, a client reads or goes away.  The
\* database need not come back.
FairSpec == Spec /\ \A r \in Request : WF_vars(Serve(r))

-----------------------------------------------------------------------------
(* What serving promises                                                   *)

\* No path of a request keeps a connection, nor gives one back twice: not an
\* error, a broken-off response, a client that leaves in the middle of an
\* export, or an outage.  What the pool counts as checked out is what the
\* requests in service, and generators to be finalised, really have.
ConnectionsComeBack ==
    out = Cardinality(Connections) + Cardinality(orphan)

\* Only exports wait for a connection while they have one.  The pool is wedged,
\* everybody with a connection waiting for another, only by as many exports
\* waiting for their second as there are connections; streams, slow rates and
\* anything else, in any number, cannot do it.
Wedged ==
    /\ \E r \in Request : Waits(r)
    /\ ~Room /\ orphan = {}
    /\ \A r \in Request : Held(r) > 0 => Waits(r)

WedgedOnlyByExports ==
    Wedged => Cardinality({r \in Request : kind[r] = "export" /\ Waits(r)}) >= Capacity

\* A request fails for the database's or the pool's sake only if the database
\* was down at some time since it arrived, or if it waits and there is no room.
\* Dead connections an outage left in the pool fail nobody who came later.
FailuresHaveACause ==
    [][\A r \in Request :
        pc[r] \notin Ended /\ pc'[r] \in {"error", "unavailable", "cut"} =>
            r \in disturbed \/ (Waits(r) /\ ~Room)]_vars

\* Every request comes to an end and leaves nothing open, also when exports
\* wedge the pool or the database never comes back.  An ended request stays
\* ended, so it is enough that there comes a time with none in service.
EveryRequestEnds ==
    (\E r \in Request : InService(r)) ~>
        (orphan = {} /\ \A r \in Request : ~InService(r))
=============================================================================
