---------------------------- MODULE BudgetAlerts ----------------------------
(***************************************************************************)
(* Spending against budgets, and the events that report a budget exceeded  *)
(* (services/transactions.py, services/budgets.py, repositories/budgets.py,*)
(* models/budget.py).                                                      *)
(*                                                                         *)
(* An envelope is what a budget limits: one user's spending in one         *)
(* category and one month; the envelopes here are those of one user and    *)
(* one month.  POST .../transactions is one database transaction at READ   *)
(* COMMITTED, with four steps others may come between: it inserts its row, *)
(* reads the budget, sums the spending and records an event if the row     *)
(* takes the sum over the limit, and commits.  A step sees what is         *)
(* committed by then, and the request's own row.                           *)
(*                                                                         *)
(* Amounts are in tenths of a cent, negative for expenses: a request may   *)
(* carry more digits than the NUMERIC(20, 2) columns store.                *)
(***************************************************************************)
EXTENDS Integers, FiniteSets, FiniteSetsExt

CONSTANTS
    Request,          \* the requests that create a transaction
    ImportedRow,      \* the rows the statement worker commits
    Envelope,         \* a user's category and month
    NoEnvelope,       \* of a transaction without a category
    Amount,           \* amounts a client or a statement may give
    Limit,            \* limits a budget may be given
    NoBudget,         \* an envelope has no budget
    InitialBudget,    \* the budgets there are at first
    MaxConcurrent     \* how many requests are served at the same time

ASSUME EnvelopeAssumption == NoEnvelope \notin Envelope
ASSUME AmountAssumption == Amount \subseteq Int
ASSUME LimitAssumption == Limit \subseteq Nat \ {0} /\ NoBudget \notin Nat
ASSUME InitialAssumption == InitialBudget \in [Envelope -> Nat \cup {NoBudget}]
ASSUME RequestAssumption == Request \cap ImportedRow = {}
ASSUME LoadAssumption == MaxConcurrent \in Nat

VARIABLES
    budget,          \* budget[e]: its limit as stored, or NoBudget
    transactions,    \* committed rows
    events,          \* committed rows of budget_events
    pc,              \* pc[r]: how far request r is
    sent,            \* sent[r]: the category and amount r carries
    found,           \* found[r]: the limit r has read
    spent,           \* spent[r]: the sum r has read, its own row included
    alert,           \* alert[r]: the events r has recorded and not committed
    recategorized    \* rows have been given other categories; only said of here

vars == <<budget, transactions, events, pc, sent, found, spent, alert,
          recategorized>>

Row   == [id : Request \cup ImportedRow, envelope : Envelope \cup {NoEnvelope},
          amount : Int]
Event == [request : Request, envelope : Envelope, limit : Nat, spent : Nat]
Body  == [envelope : Envelope \cup {NoEnvelope}, amount : Amount]

TypeOK ==
    /\ budget \in [Envelope -> Nat \cup {NoBudget}]
    /\ transactions \subseteq Row
    /\ events \subseteq Event
    /\ pc \in [Request -> {"new", "added", "found", "checked", "ended"}]
    /\ \A r \in Request : pc[r] # "new" => sent[r] \in Body
    /\ found \in [Request -> Nat \cup {NoBudget}]
    /\ spent \in [Request -> Nat]
    /\ alert \in [Request -> SUBSET Event]
    /\ recategorized \in BOOLEAN

NoBody == [envelope |-> NoEnvelope, amount |-> 0]

Init ==
    /\ budget = InitialBudget
    /\ transactions = {}
    /\ events = {}
    /\ pc = [r \in Request |-> "new"]
    /\ sent = [r \in Request |-> NoBody]
    /\ found = [r \in Request |-> NoBudget]
    /\ spent = [r \in Request |-> 0]
    /\ alert = [r \in Request |-> {}]
    /\ recategorized = FALSE

-----------------------------------------------------------------------------

\* What a NUMERIC(20, 2) column keeps of an amount: whole cents, half a cent
\* rounded away from zero.
Cents(a)  == IF a < 0 THEN -(((5 - a) \div 10) * 10) ELSE ((a + 5) \div 10) * 10

\* calculate_spent: the expenses of an envelope among the rows a query sees.
Spent(rows, e) ==
    MapThenSumSet(LAMBDA t : -t.amount,
                  {t \in rows : t.envelope = e /\ t.amount < 0})

Served == {r \in Request : pc[r] \in {"added", "found", "checked"}}
HasRoom == Cardinality(Served) < MaxConcurrent

OwnRow(r) == [id |-> r, envelope |-> sent[r].envelope, amount |-> Cents(sent[r].amount)]

\* Faulty: the queries see rows of other requests that are not committed.
DirtyRows(r) == transactions \cup {OwnRow(q) : q \in Served}

\* The rows a query of request r sees.
VisibleRows(r) == transactions \cup {OwnRow(r)}

\* POST /budgets: refused if the envelope has a budget (also when two requests
\* race: the unique constraint refuses the second).
CreateBudget(e, limit) ==
    /\ HasRoom
    /\ budget[e] = NoBudget
    /\ budget' = [budget EXCEPT ![e] = Cents(limit)]
    /\ UNCHANGED <<transactions, events, pc, sent, found, spent, alert, recategorized>>

\* Faulty: what the request carries is not kept.
AddNothing(r, body) ==
    /\ HasRoom
    /\ pc[r] = "new"
    /\ pc' = [pc EXCEPT ![r] = "added"]
    /\ UNCHANGED <<budget, transactions, events, sent, found, spent, alert, recategorized>>

\* create_transaction up to the flush of the new row.  The category is the
\* one given, or the one the user's rules give, or none.
AddTransaction(r, body) ==
    /\ HasRoom
    /\ pc[r] = "new"
    /\ pc' = [pc EXCEPT ![r] = "added"]
    /\ sent' = [sent EXCEPT ![r] = body]
    /\ UNCHANGED <<budget, transactions, events, found, spent, alert, recategorized>>

\* record_budget_crossing: nothing to do without a category, for an income
\* or for an envelope without a budget.
FindBudget(r) ==
    LET e == sent[r].envelope
        watched == e \in Envelope /\ sent[r].amount < 0
    IN  /\ pc[r] = "added"
        /\ \/ /\ watched /\ budget[e] # NoBudget
              /\ found' = [found EXCEPT ![r] = budget[e]]
              /\ pc' = [pc EXCEPT ![r] = "found"]
           \/ /\ watched => budget[e] = NoBudget
              /\ pc' = [pc EXCEPT ![r] = "checked"]
              /\ UNCHANGED found
        /\ UNCHANGED <<budget, transactions, events, sent, spent, alert, recategorized>>

\* Faulty: every expense over the limit is reported.
IsOver(limit, sum, amount) == sum > limit

\* The row takes the spending from at most the limit to over it.
Crosses(limit, sum, amount) == sum > limit /\ sum + amount <= limit

CheckCrossing(r) ==
    LET e == sent[r].envelope
        sum == Spent(VisibleRows(r), e)
    IN  /\ pc[r] = "found"
        /\ spent' = [spent EXCEPT ![r] = sum]
        /\ alert' = [alert EXCEPT ![r] =
              IF Crosses(found[r], sum, sent[r].amount)
              THEN {[request |-> r, envelope |-> e, limit |-> found[r], spent |-> sum]}
              ELSE {}]
        /\ pc' = [pc EXCEPT ![r] = "checked"]
        /\ UNCHANGED <<budget, transactions, events, sent, found, recategorized>>

\* The row and its event are committed together.
Commit(r) ==
    /\ pc[r] = "checked"
    /\ transactions' = transactions \cup {OwnRow(r)}
    /\ events' = events \cup alert[r]
    /\ pc' = [pc EXCEPT ![r] = "ended"]
    /\ UNCHANGED <<budget, sent, found, spent, alert, recategorized>>

\* The request fails, or its process dies, before the commit: nothing is kept.
Abort(r) ==
    /\ r \in Served
    /\ pc' = [pc EXCEPT ![r] = "ended"]
    /\ UNCHANGED <<budget, transactions, events, sent, found, spent, alert, recategorized>>

\* The statement worker commits the rows of a job.  It applies the rules and
\* stops there: no budget is looked at.
ImportStatement(bodies) ==
    /\ HasRoom
    /\ \A t \in transactions : t.id \notin DOMAIN bodies
    /\ transactions' = transactions \cup
        {[id |-> i, envelope |-> bodies[i].envelope, amount |-> Cents(bodies[i].amount)] :
            i \in DOMAIN bodies}
    /\ UNCHANGED <<budget, events, pc, sent, found, spent, alert, recategorized>>

\* What a job may bring: finitely many rows, and at least one.
Jobs == UNION {[I -> Body] : I \in {J \in SUBSET ImportedRow : IsFiniteSet(J) /\ J # {}}}

\* recategorize_transactions gives every row the category the rules give it
\* now, possibly none; no budget is looked at.
Recategorize(category) ==
    /\ HasRoom
    /\ transactions' = {[t EXCEPT !.envelope = category[t]] : t \in transactions}
    /\ recategorized' = TRUE
    /\ UNCHANGED <<budget, events, pc, sent, found, spent, alert>>

Next ==
    \/ \E e \in Envelope, limit \in Limit : CreateBudget(e, limit)
    \/ \E r \in Request, body \in Body : AddTransaction(r, body)
    \/ \E r \in Request : FindBudget(r) \/ CheckCrossing(r) \/ Commit(r) \/ Abort(r)
    \/ \E bodies \in Jobs : ImportStatement(bodies)
    \/ \E category \in [transactions -> Envelope \cup {NoEnvelope}] :
        Recategorize(category)

Spec == Init /\ [][Next]_vars

-----------------------------------------------------------------------------
(* What the alerts promise                                                 *)

\* "over" in GET /budgets.
IsExceeded(e) == budget[e] # NoBudget /\ Spent(transactions, e) > budget[e]

\* An alert is never false: a budget an event names is exceeded, by at least
\* what the event says, however requests overlap and whichever of them fail,
\* as long as no row has been given another category.
NoFalseAlarm ==
    ~recategorized => \A v \in events :
        /\ IsExceeded(v.envelope)
        /\ v.limit = budget[v.envelope]
        /\ v.limit < v.spent /\ v.spent <= Spent(transactions, v.envelope)

\* A step takes an envelope with a budget from within its limit to over it.
CrossingStep(e) == budget[e] # NoBudget /\ ~IsExceeded(e) /\ IsExceeded(e)'

\* What request r has read is still so when it commits.
IsUndisturbed(r) ==
    LET e == sent[r].envelope
    IN  e \in Envelope =>
          /\ sent[r].amount < 0 => found[r] = budget[e]
          /\ found[r] # NoBudget => spent[r] = Spent(VisibleRows(r), e)

\* record_budget_crossing: "Record an event only when a transaction crosses
\* from under to over."  A request whose reads still hold when it commits
\* records an event if, and only if, its commit is what exceeds the budget,
\* whatever was imported, re-categorised or budgeted before.
AlertsExactlyAtCrossings ==
    [][\A r \in Request : Commit(r) /\ IsUndisturbed(r) =>
        \A e \in Envelope :
            CrossingStep(e) <=> \E v \in events' \ events : v.envelope = e]_vars

\* test_stage_8: crossing the limit raises one alert, not one per transaction.
\* Where no row changes its category, spending never falls, so a budget is
\* exceeded once and for all and has at most one event.
OneAlertPerBudget ==
    ~recategorized => \A v, w \in events : v.envelope = w.envelope => v = w

\* test_stage_8: crossing the limit raises an alert.  A commit of a request by
\* which a budget comes to be exceeded records an event.
EveryCrossingAlerts ==
    [][\A r \in Request, e \in Envelope : Commit(r) /\ CrossingStep(e) =>
        \E v \in events' \ events : v.envelope = e]_vars
=============================================================================
