---------------------------- MODULE EventStream ----------------------------
(***************************************************************************)
(* GET /budgets/events: one user's budget events, as one browser follows   *)
(* them (api/budgets.py, repositories/budgets.py, models/budget.py).       *)
(*                                                                         *)
(* An event is written by a request that creates a transaction.  Its       *)
(* created_at is the database's now(), the time the request's database     *)
(* transaction began; it becomes visible when that transaction commits.    *)
(* A stream sends what comes after the last id its client named, in the    *)
(* order (created_at, id).  The client, an EventSource, reconnects with    *)
(* the id of the last event it received; what is under way when the        *)
(* connection breaks is lost.                                              *)
(***************************************************************************)
EXTENDS Naturals, Sequences, FiniteSets, SequencesExt

CONSTANTS
    Event,           \* ids of the events that may be recorded
    None,            \* no event seen yet
    MaxOpen,         \* how many requests record an event at the same time
    ClockStep,       \* least advance of the clock from one begin to the next
    MaxDrops         \* how often the connection breaks

ASSUME EventAssumption == Event \subseteq Nat /\ None \notin Event
ASSUME BoundAssumption ==
    MaxOpen \in Nat /\ MaxDrops \in Nat /\ ClockStep \in {0, 1}

VARIABLES
    now,             \* the database's clock
    begun,           \* events whose request's transaction has begun
    created_at,      \* created_at[e], for e in begun
    committed,       \* the rows of budget_events other transactions see
    overtaken,       \* those committed after an event that follows them in the
                     \* stream's order; nothing in the program reads it
    pc,              \* what the server's end of the stream does
    last_event_id,   \* the server's cursor
    events,          \* the query's result, as far as it is not sent yet
    events_sent,     \* events were sent since the last wait
    wire,            \* sent, not received yet
    received,        \* everything the client has received, in order
    drops            \* how often the connection has broken

server == <<pc, last_event_id, events, events_sent>>
vars == <<now, begun, created_at, committed, overtaken, pc, last_event_id,
          events, events_sent, wire, received, drops>>
recorder == <<now, begun, created_at, committed, overtaken>>

TypeOK ==
    /\ now \in Nat
    /\ created_at \in [Event -> Nat]
    /\ overtaken \subseteq committed /\ committed \subseteq begun
    /\ begun \subseteq Event
    /\ pc \in {"closed", "query", "send", "wait", "lastWait"}
    /\ last_event_id \in committed \cup {None}
    /\ events \in Seq(committed) /\ wire \in Seq(committed)
    /\ received \in Seq(committed)
    /\ events_sent \in BOOLEAN
    /\ drops \in 0 .. MaxDrops

Init ==
    /\ now = 0
    /\ begun = {} /\ committed = {} /\ overtaken = {}
    /\ created_at = [e \in Event |-> 0]
    /\ pc = "closed"
    /\ last_event_id = None
    /\ events = <<>> /\ events_sent = FALSE
    /\ wire = <<>> /\ received = <<>>
    /\ drops = 0

-----------------------------------------------------------------------------
(* The requests that record the events                                     *)

\* The order of the stream.
Before(d, e) ==
    \/ created_at[d] < created_at[e]
    \/ created_at[d] = created_at[e] /\ d < e

Begin(e) ==
    /\ e \notin begun
    /\ Cardinality(begun \ committed) < MaxOpen
    /\ now' \in now + ClockStep .. now + 1
    /\ begun' = begun \cup {e}
    /\ created_at' = [created_at EXCEPT ![e] = now']
    /\ UNCHANGED <<committed, overtaken, server, wire, received, drops>>

Commit(e) ==
    /\ e \in begun \ committed
    /\ committed' = committed \cup {e}
    /\ overtaken' = IF \E d \in committed : Before(e, d)
                    THEN overtaken \cup {e} ELSE overtaken
    /\ UNCHANGED <<now, begun, created_at, server, wire, received, drops>>

-----------------------------------------------------------------------------
(* The server's end: event_stream                                          *)

\* Faulty: the query sees events whose request has not committed.
UnreadDirty(cursor) == {e \in begun : cursor = None \/ Before(cursor, e)}

\* Faulty: the cursor's own event is sent again.
UnreadAndLast(cursor) ==
    {e \in committed : cursor = None \/ cursor = e \/ Before(cursor, e)}

\* Events after a cursor; all of them where there is none.
Unread(cursor) == {e \in committed : cursor = None \/ Before(cursor, e)}

\* Faulty: the newest first.
NewestFirst(S) ==
    CHOOSE s \in [1 .. Cardinality(S) -> S] :
        \A i, k \in DOMAIN s : i < k => Before(s[k], s[i])

\* list_budget_events: the rows in the stream's order.
Ordered(S) ==
    CHOOSE s \in [1 .. Cardinality(S) -> S] :
        \A i, k \in DOMAIN s : i < k => Before(s[i], s[k])

\* What the client has seen: the id it reconnects with.
LastReceived == IF received = <<>> THEN None ELSE Last(received)

\* Faulty: the browser's Last-Event-ID is what the server has sent.
ConnectAsSent ==
    /\ pc = "closed" /\ wire = <<>>
    /\ pc' = "query"
    /\ UNCHANGED last_event_id
    /\ events' = <<>> /\ events_sent' = FALSE
    /\ UNCHANGED <<recorder, wire, received, drops>>

\* A request with the Last-Event-ID the client has.
Connect ==
    /\ pc = "closed" /\ wire = <<>>
    /\ pc' = "query"
    /\ last_event_id' = LastReceived
    /\ events' = <<>> /\ events_sent' = FALSE
    /\ UNCHANGED <<recorder, wire, received, drops>>

\* Read what is unread.  With nothing to send the stream waits: once more to
\* look again, if it has sent something since the last wait, else to close.
Query ==
    /\ pc = "query"
    /\ events' = Ordered(Unread(last_event_id))
    /\ pc' = CASE events' # <<>> -> "send"
               [] events' = <<>> /\ events_sent -> "wait"
               [] OTHER -> "lastWait"
    /\ UNCHANGED <<recorder, last_event_id, events_sent,
                   wire, received, drops>>

\* Send one event and move the cursor to it.
Send ==
    /\ pc = "send"
    /\ wire' = Append(wire, Head(events))
    /\ last_event_id' = Head(events)
    /\ events_sent' = TRUE
    /\ events' = Tail(events)
    /\ pc' = IF events' = <<>> THEN "query" ELSE "send"
    /\ UNCHANGED <<recorder, received, drops>>

\* The wait after something was sent is over: look again.
Awake ==
    /\ pc = "wait"
    /\ pc' = "query"
    /\ events_sent' = FALSE
    /\ UNCHANGED <<recorder, last_event_id, events,
                   wire, received, drops>>

\* The other wait is over: close, without another look.
Close ==
    /\ pc = "lastWait"
    /\ pc' = "closed"
    /\ UNCHANGED <<recorder, last_event_id, events,
                   events_sent, wire, received, drops>>

-----------------------------------------------------------------------------
(* The network and the client                                              *)

Receive ==
    /\ wire # <<>>
    /\ received' = Append(received, Head(wire))
    /\ wire' = Tail(wire)
    /\ UNCHANGED <<recorder, server, drops>>

\* The connection breaks: what is under way is lost, and the server gives up.
Drop ==
    /\ pc # "closed" \/ wire # <<>>
    /\ drops < MaxDrops
    /\ drops' = drops + 1
    /\ pc' = "closed" /\ wire' = <<>>
    /\ UNCHANGED <<recorder, last_event_id, events,
                   events_sent, received>>

Serve == Query \/ Send \/ Awake \/ Close

Next ==
    \/ \E e \in Event : Begin(e) \/ Commit(e)
    \/ Serve \/ Connect \/ Receive \/ Drop

Spec == Init /\ [][Next]_vars

\* The server goes on, the network delivers, an EventSource reconnects.
FairSpec == Spec /\ WF_vars(Serve) /\ WF_vars(Connect) /\ WF_vars(Receive)

-----------------------------------------------------------------------------
(* What the stream promises                                                *)

HasReceived(e) == \E i \in DOMAIN received : received[i] = e

\* However often the connection breaks, the client sees no event twice and
\* none after a later one.
InOrderWithoutRepeats ==
    \A i, k \in DOMAIN received : i < k => Before(received[i], received[k])

\* What the cursor passes over is lost for good: the client has received
\* every event that precedes one it received, as far as the events were
\* committed in the stream's order.
OnlyOvertakenPassedOver ==
    \A e \in committed \ overtaken : \A i \in DOMAIN received :
        Before(e, received[i]) => \E k \in 1 .. i - 1 : received[k] = e

\* The same without the condition.  test_stage_8: the client reconnects with
\* Last-Event-ID, "so nothing is lost".
NothingPassedOver ==
    \A e \in committed : \A i \in DOMAIN received :
        Before(e, received[i]) => \E k \in 1 .. i - 1 : received[k] = e

\* An event that is not overtaken reaches the client in the end, whatever
\* closes or breaks on the way.
EventuallyReceived ==
    \A e \in Event : e \in committed \ overtaken ~> HasReceived(e)

\* event_stream: "Yield unread events, then wait once for new events before
\* closing."  A stream that closes by itself leaves no event unsent.
ClosesWithNothingNew == [][Close => Unread(last_event_id) = {}]_vars
=============================================================================
