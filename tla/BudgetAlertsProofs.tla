------------------------- MODULE BudgetAlertsProofs -------------------------
(***************************************************************************)
(* Proofs about BudgetAlerts, for every number of requests, envelopes and  *)
(* imported rows, every amount and limit: its types, that no alert is ever *)
(* false, and, of amounts in whole cents, that an undisturbed request      *)
(* alerts exactly at a crossing; then that overlapping requests and parts  *)
(* of a cent are all that keeps one alert from being the rule.             *)
(***************************************************************************)
EXTENDS BudgetAlerts, SumTheorems

\* Rows come one by one; what a request carries is kept.
RowsAreFinite == IsFiniteSet(transactions)
SentIsKept == sent \in [Request -> Body \cup {NoBody}]

\* A request that has found a budget is an expense in its envelope, and the
\* budget is still the one found.
FoundIsTrue ==
    \A r \in Request :
        /\ pc[r] \in {"new", "added"} => found[r] = NoBudget
        /\ pc[r] \in {"new", "added", "found"} => spent[r] = 0
        /\ pc[r] = "found" => found[r] # NoBudget
        /\ found[r] # NoBudget =>
              /\ sent[r].envelope \in Envelope
              /\ sent[r].amount < 0
              /\ budget[sent[r].envelope] = found[r]

\* The events of a request are what it has read says.
AlertsAreRight ==
    \A r \in Request :
        alert[r] = IF found[r] # NoBudget /\ Crosses(found[r], spent[r], sent[r].amount)
                   THEN {[request |-> r, envelope |-> sent[r].envelope,
                          limit |-> found[r], spent |-> spent[r]]}
                   ELSE {}

\* Spending does not fall below what a request has read.
SpendingStays ==
    ~recategorized => \A r \in Request :
        pc[r] = "checked" /\ found[r] # NoBudget =>
            spent[r] <= Spent(VisibleRows(r), sent[r].envelope)

\* A row or an event of a request is not there before it has ended.
EndedOnly ==
    /\ \A t \in transactions : t.id \in Request => pc[t.id] = "ended"
    /\ \A v \in events : pc[v.request] = "ended"

InductiveInv ==
    /\ TypeOK
    /\ RowsAreFinite
    /\ SentIsKept
    /\ FoundIsTrue
    /\ AlertsAreRight
    /\ SpendingStays
    /\ EndedOnly
    /\ NoFalseAlarm

-----------------------------------------------------------------------------
(* Amounts and sums                                                        *)

LEMMA TenDivides == \A n \in Nat : n \div 10 \in Nat
OBVIOUS

\* Rounding keeps the sign.
LEMMA CentsSign ==
    ASSUME NEW a \in Int
    PROVE  /\ Cents(a) \in Int
           /\ a < 0 => Cents(a) <= 0
           /\ a >= 0 => Cents(a) \in Nat
<1>1. CASE a < 0
  <2>1. (5 - a) \div 10 \in Nat
    BY <1>1, 5 - a \in Nat, TenDivides
  <2> QED BY <1>1, <2>1 DEF Cents
<1>2. CASE a >= 0
  <2>1. (a + 5) \div 10 \in Nat
    BY <1>2, a + 5 \in Nat, TenDivides
  <2> QED BY <1>2, <2>1 DEF Cents
<1> QED BY <1>1, <1>2

Expenses(rows, e) == {t \in rows : t.envelope = e /\ t.amount < 0}
Weight == [t \in Row |-> -t.amount]

LEMMA SpentIsTotal ==
    ASSUME NEW rows \in SUBSET Row, NEW e
    PROVE  Spent(rows, e) = Total(Weight, Expenses(rows, e))
<1> DEFINE S == Expenses(rows, e)
           F(g) == [s \in SUBSET S |-> IF s = {} THEN 0
                                       ELSE -(Pick(s)).amount + g[s \ {Pick(s)}]]
<1>1. \A g : F(g) = Iter(Weight, S, g)
  <2>1. \A s \in SUBSET S : s # {} => Pick(s) \in Row
    BY PickIsElement DEF Expenses
  <2> QED BY <2>1 DEF Iter, Weight
<1>2. Spent(rows, e) = (CHOOSE g : g = F(g))[S]
  BY DEF Spent, Expenses, Pick, MapThenSumSet, MapThenFoldSet
<1> HIDE DEF F, S
<1>3. (CHOOSE g : g = F(g)) = (CHOOSE g : g = Iter(Weight, S, g))
  BY <1>1
<1>4. Total(Weight, S) = (CHOOSE g : g = Iter(Weight, S, g))[S]
  BY TotalIsIter
<1> QED BY <1>2, <1>3, <1>4 DEF S

LEMMA ExpensesWeigh ==
    ASSUME NEW rows \in SUBSET Row, IsFiniteSet(rows), NEW e
    PROVE  /\ IsFiniteSet(Expenses(rows, e))
           /\ \A t \in Expenses(rows, e) : Weight[t] \in Nat
<1>1. Expenses(rows, e) \in SUBSET rows
  BY DEF Expenses
<1>2. \A t \in Expenses(rows, e) : t \in Row /\ t.amount \in Int /\ t.amount < 0
  BY DEF Expenses, Row
<1>3. \A t \in Expenses(rows, e) : Weight[t] \in Nat
  BY <1>2 DEF Weight
<1> QED BY <1>1, <1>3, FS_Subset

LEMMA SpentIsNatural ==
    ASSUME NEW rows \in SUBSET Row, IsFiniteSet(rows), NEW e
    PROVE  Spent(rows, e) \in Nat
BY SpentIsTotal, ExpensesWeigh, SumOfNaturals

\* With more rows, there is no less spent.
LEMMA SpentGrows ==
    ASSUME NEW more \in SUBSET Row, IsFiniteSet(more), NEW rows \in SUBSET more, NEW e
    PROVE  Spent(rows, e) <= Spent(more, e)
<1>1. Expenses(rows, e) \subseteq Expenses(more, e)
  BY DEF Expenses
<1>2. Total(Weight, Expenses(rows, e)) <= Total(Weight, Expenses(more, e))
  BY <1>1, ExpensesWeigh, SumOfSubset
<1> QED BY <1>2, SpentIsTotal

LEMMA SpentOneMore ==
    ASSUME NEW rows \in SUBSET Row, IsFiniteSet(rows), NEW t \in Row, t \notin rows, NEW e
    PROVE  Spent(rows \cup {t}, e) =
              Spent(rows, e) + IF t.envelope = e /\ t.amount < 0 THEN -t.amount ELSE 0
<1> DEFINE more == rows \cup {t}
<1>1. more \in SUBSET Row /\ IsFiniteSet(more)
  BY FS_AddElement
<1>2. /\ Spent(more, e) = Total(Weight, Expenses(more, e))
      /\ Spent(rows, e) = Total(Weight, Expenses(rows, e))
  BY <1>1, SpentIsTotal
<1>3. CASE t.envelope = e /\ t.amount < 0
  <2>1. Expenses(more, e) = Expenses(rows, e) \cup {t} /\ t \notin Expenses(rows, e)
    BY <1>3 DEF Expenses
  <2>2. IsFiniteSet(Expenses(rows, e)) /\ \A x \in Expenses(more, e) : Weight[x] \in Int
    BY <1>1, ExpensesWeigh
  <2>3. Total(Weight, Expenses(rows, e) \cup {t}) = Total(Weight, Expenses(rows, e)) + Weight[t]
    BY <2>1, <2>2, SumOfOneMore
  <2>4. Weight[t] = -t.amount
    BY DEF Weight
  <2> QED BY <1>2, <1>3, <2>1, <2>3, <2>4
<1>4. CASE ~(t.envelope = e /\ t.amount < 0)
  <2>1. Expenses(more, e) = Expenses(rows, e)
    BY <1>4 DEF Expenses
  <2>2. Spent(rows, e) \in Nat
    BY SpentIsNatural
  <2> QED BY <1>2, <1>4, <2>1, <2>2
<1> QED BY <1>3, <1>4

-----------------------------------------------------------------------------
(* Types, and what requests have found                                     *)

Basics == TypeOK /\ RowsAreFinite /\ SentIsKept /\ FoundIsTrue

LEMMA CentsOfLimit == \A limit \in Limit : Cents(limit) \in Nat
BY LimitAssumption, CentsSign

LEMMA OwnRowIsRow ==
    ASSUME SentIsKept, NEW r \in Request
    PROVE  OwnRow(r) \in Row
<1>1. sent[r] \in Body \cup {NoBody}
  BY DEF SentIsKept
<1>2. sent[r].envelope \in Envelope \cup {NoEnvelope} /\ sent[r].amount \in Int
  <2>1. CASE sent[r] \in Body
    BY <2>1, AmountAssumption DEF Body
  <2>2. CASE sent[r] = NoBody
    BY <2>2 DEF NoBody
  <2> QED BY <1>1, <2>1, <2>2
<1> QED BY <1>2, CentsSign DEF OwnRow, Row

LEMMA VisibleAreRows ==
    ASSUME TypeOK, RowsAreFinite, SentIsKept, NEW r \in Request
    PROVE  VisibleRows(r) \in SUBSET Row /\ IsFiniteSet(VisibleRows(r))
<1>1. transactions \in SUBSET Row
  BY DEF TypeOK
<1>2. IsFiniteSet(transactions \cup {OwnRow(r)})
  BY FS_AddElement DEF RowsAreFinite
<1> QED BY <1>1, <1>2, OwnRowIsRow DEF VisibleRows

LEMMA InitBasics == Init => Basics
<1> SUFFICES ASSUME Init PROVE Basics
  OBVIOUS
<1>1. TypeOK
  BY InitialAssumption DEF Init, TypeOK
<1>2. RowsAreFinite
  BY FS_EmptySet DEF Init, RowsAreFinite
<1>3. SentIsKept
  BY DEF Init, SentIsKept
<1>4. FoundIsTrue
  BY DEF Init, FoundIsTrue
<1> QED BY <1>1, <1>2, <1>3, <1>4 DEF Basics

LEMMA CreateBudgetBasics ==
    ASSUME Basics, NEW e \in Envelope, NEW limit \in Limit, CreateBudget(e, limit)
    PROVE  Basics'
<1>1. TypeOK'
  BY CentsOfLimit DEF Basics, CreateBudget, TypeOK
<1>2. RowsAreFinite' /\ SentIsKept'
  BY DEF Basics, CreateBudget, RowsAreFinite, SentIsKept
<1>3. FoundIsTrue'
  BY DEF Basics, CreateBudget, FoundIsTrue, TypeOK
<1> QED BY <1>1, <1>2, <1>3 DEF Basics

LEMMA AddTransactionBasics ==
    ASSUME Basics, NEW r \in Request, NEW body \in Body, AddTransaction(r, body)
    PROVE  Basics'
<1>1. TypeOK'
  BY DEF Basics, AddTransaction, TypeOK, SentIsKept
<1>2. RowsAreFinite' /\ SentIsKept'
  BY DEF Basics, AddTransaction, RowsAreFinite, SentIsKept
<1>3. FoundIsTrue'
  BY DEF Basics, AddTransaction, FoundIsTrue, TypeOK, SentIsKept
<1> QED BY <1>1, <1>2, <1>3 DEF Basics

LEMMA FindBudgetBasics ==
    ASSUME Basics, NEW r \in Request, FindBudget(r)
    PROVE  Basics'
<1>1. TypeOK'
  BY DEF Basics, FindBudget, TypeOK
<1>2. RowsAreFinite' /\ SentIsKept'
  BY DEF Basics, FindBudget, RowsAreFinite, SentIsKept
<1>3. FoundIsTrue'
  BY DEF Basics, FindBudget, FoundIsTrue, TypeOK
<1> QED BY <1>1, <1>2, <1>3 DEF Basics

LEMMA CheckCrossingBasics ==
    ASSUME Basics, NEW r \in Request, CheckCrossing(r)
    PROVE  Basics'
<1> DEFINE sum == Spent(VisibleRows(r), sent[r].envelope)
<1>1. sum \in Nat
  BY VisibleAreRows, SpentIsNatural DEF Basics
<1>2. /\ sent[r].envelope \in Envelope
      /\ found[r] \in Nat
  BY DEF Basics, CheckCrossing, FoundIsTrue, TypeOK
<1>3. /\ spent' = [spent EXCEPT ![r] = sum]
      /\ alert' \in [Request -> SUBSET Event]
      /\ pc' = [pc EXCEPT ![r] = "checked"]
      /\ UNCHANGED <<budget, transactions, events, sent, found, recategorized>>
  <2> DEFINE new == IF Crosses(found[r], sum, sent[r].amount)
                    THEN {[request |-> r, envelope |-> sent[r].envelope,
                           limit |-> found[r], spent |-> sum]}
                    ELSE {}
  <2>1. new \in SUBSET Event
    BY <1>1, <1>2 DEF Event
  <2>2. alert' = [alert EXCEPT ![r] = new]
    BY DEF CheckCrossing
  <2> HIDE DEF new
  <2>3. alert' \in [Request -> SUBSET Event]
    BY <2>1, <2>2 DEF Basics, TypeOK
  <2> QED BY <2>3 DEF CheckCrossing
<1> HIDE DEF sum
<1>4. TypeOK'
  <2>1. spent' \in [Request -> Nat]
    BY <1>1, <1>3 DEF Basics, TypeOK
  <2>2. pc' \in [Request -> {"new", "added", "found", "checked", "ended"}]
    BY <1>3 DEF Basics, TypeOK
  <2>3. \A q \in Request : pc'[q] # "new" => sent[q] \in Body
    BY <1>3 DEF Basics, TypeOK, CheckCrossing
  <2> QED BY <1>3, <2>1, <2>2, <2>3 DEF Basics, TypeOK
<1>5. RowsAreFinite' /\ SentIsKept'
  BY <1>3 DEF Basics, RowsAreFinite, SentIsKept
<1>6. FoundIsTrue'
  BY <1>3 DEF Basics, FoundIsTrue, TypeOK, CheckCrossing
<1> QED BY <1>4, <1>5, <1>6 DEF Basics

LEMMA CommitBasics ==
    ASSUME Basics, NEW r \in Request, Commit(r)
    PROVE  Basics'
<1>1. TypeOK'
  BY OwnRowIsRow DEF Basics, Commit, TypeOK
<1>2. RowsAreFinite' /\ SentIsKept'
  BY FS_AddElement DEF Basics, Commit, RowsAreFinite, SentIsKept
<1>3. FoundIsTrue'
  BY DEF Basics, Commit, FoundIsTrue, TypeOK
<1> QED BY <1>1, <1>2, <1>3 DEF Basics

LEMMA AbortBasics ==
    ASSUME Basics, NEW r \in Request, Abort(r)
    PROVE  Basics'
<1>1. TypeOK'
  BY DEF Basics, Abort, TypeOK, Served
<1>2. RowsAreFinite' /\ SentIsKept'
  BY DEF Basics, Abort, RowsAreFinite, SentIsKept
<1>3. FoundIsTrue'
  BY DEF Basics, Abort, FoundIsTrue, TypeOK, Served
<1> QED BY <1>1, <1>2, <1>3 DEF Basics

NewRows(bodies) ==
    {[id |-> i, envelope |-> bodies[i].envelope, amount |-> Cents(bodies[i].amount)] :
        i \in DOMAIN bodies}

LEMMA NewRowsAreRows ==
    ASSUME NEW bodies \in Jobs
    PROVE  /\ NewRows(bodies) \in SUBSET Row
           /\ IsFiniteSet(NewRows(bodies))
           /\ DOMAIN bodies \in SUBSET ImportedRow
<1>1. PICK I \in SUBSET ImportedRow : IsFiniteSet(I) /\ bodies \in [I -> Body]
  BY DEF Jobs
<1>2. ASSUME NEW i \in I
      PROVE  [id |-> i, envelope |-> bodies[i].envelope,
              amount |-> Cents(bodies[i].amount)] \in Row
  <2>1. bodies[i].envelope \in Envelope \cup {NoEnvelope} /\ bodies[i].amount \in Int
    BY <1>1, <1>2, AmountAssumption DEF Body
  <2> QED BY <2>1, CentsSign DEF Row
<1>3. DOMAIN bodies = I
  BY <1>1
<1>4. NewRows(bodies) \in SUBSET Row
  BY <1>2, <1>3 DEF NewRows
<1>5. IsFiniteSet(NewRows(bodies))
  <2> DEFINE f(i) == [id |-> i, envelope |-> bodies[i].envelope,
                      amount |-> Cents(bodies[i].amount)]
             image == [i \in I |-> f(i)]
  <2>1. NewRows(bodies) = {image[i] : i \in I}
    BY <1>3 DEF NewRows
  <2>2. image \in [I -> Row]
    BY <1>2
  <2> HIDE DEF image
  <2> QED BY <1>1, <2>1, <2>2, FiniteImage
<1> QED BY <1>3, <1>4, <1>5

LEMMA ImportBasics ==
    ASSUME Basics, NEW bodies \in Jobs, ImportStatement(bodies)
    PROVE  Basics'
<1>1. /\ transactions' = transactions \cup NewRows(bodies)
      /\ UNCHANGED <<budget, events, pc, sent, found, spent, alert, recategorized>>
  BY DEF ImportStatement, NewRows
<1>2. TypeOK'
  BY <1>1, NewRowsAreRows DEF Basics, TypeOK
<1>3. RowsAreFinite' /\ SentIsKept'
  BY <1>1, NewRowsAreRows, FS_Union DEF Basics, RowsAreFinite, SentIsKept
<1>4. FoundIsTrue'
  BY <1>1 DEF Basics, FoundIsTrue
<1> QED BY <1>2, <1>3, <1>4 DEF Basics

LEMMA RecategorizeBasics ==
    ASSUME Basics, NEW category \in [transactions -> Envelope \cup {NoEnvelope}],
           Recategorize(category)
    PROVE  Basics'
<1>1. transactions' = {[t EXCEPT !.envelope = category[t]] : t \in transactions}
  BY DEF Recategorize
<1>2. transactions' \in SUBSET Row
  BY <1>1 DEF Basics, TypeOK, Row
<1>3. IsFiniteSet(transactions')
  <2> DEFINE image == [t \in transactions |-> [t EXCEPT !.envelope = category[t]]]
  <2>1. transactions' = {image[t] : t \in transactions}
    BY <1>1
  <2>2. image \in [transactions -> Row]
    BY DEF Basics, TypeOK, Row
  <2> HIDE DEF image
  <2> QED BY <2>1, <2>2, FiniteImage DEF Basics, RowsAreFinite
<1>4. TypeOK'
  BY <1>2 DEF Basics, TypeOK, Recategorize
<1>5. RowsAreFinite' /\ SentIsKept' /\ FoundIsTrue'
  BY <1>3 DEF Basics, RowsAreFinite, SentIsKept, FoundIsTrue, Recategorize
<1> QED BY <1>4, <1>5 DEF Basics

LEMMA NextBasics == Basics /\ [Next]_vars => Basics'
<1> SUFFICES ASSUME Basics, [Next]_vars PROVE Basics'
  OBVIOUS
<1>1. ASSUME NEW e \in Envelope, NEW limit \in Limit, CreateBudget(e, limit) PROVE Basics'
  BY <1>1, CreateBudgetBasics
<1>2. ASSUME NEW r \in Request, NEW body \in Body, AddTransaction(r, body) PROVE Basics'
  BY <1>2, AddTransactionBasics
<1>3. ASSUME NEW r \in Request, FindBudget(r) \/ CheckCrossing(r) \/ Commit(r) \/ Abort(r)
      PROVE  Basics'
  BY <1>3, FindBudgetBasics, CheckCrossingBasics, CommitBasics, AbortBasics
<1>4. ASSUME NEW bodies \in Jobs, ImportStatement(bodies) PROVE Basics'
  BY <1>4, ImportBasics
<1>5. ASSUME NEW category \in [transactions -> Envelope \cup {NoEnvelope}],
             Recategorize(category)
      PROVE  Basics'
  BY <1>5, RecategorizeBasics
<1>6. CASE UNCHANGED vars
  BY <1>6 DEF vars, Basics, TypeOK, RowsAreFinite, SentIsKept, FoundIsTrue
<1> QED BY <1>1, <1>2, <1>3, <1>4, <1>5, <1>6 DEF Next

\* The variables keep their types: in particular sums and limits are never
\* negative, and an event is about an envelope (TransactionCreate, Budget,
\* BudgetEvent).
THEOREM TypeCorrect == Spec => []TypeOK
<1>1. Basics => TypeOK
  BY DEF Basics
<1> QED BY <1>1, InitBasics, NextBasics, PTL DEF Spec

-----------------------------------------------------------------------------
(* No alert is false                                                       *)

Alarm(r, limit, sum, body) ==
    IF limit # NoBudget /\ Crosses(limit, sum, body.amount)
    THEN {[request |-> r, envelope |-> body.envelope, limit |-> limit, spent |-> sum]}
    ELSE {}

IsTrueAlarm(v, limits, rows) ==
    /\ limits[v.envelope] # NoBudget
    /\ Spent(rows, v.envelope) > limits[v.envelope]
    /\ v.limit = limits[v.envelope]
    /\ v.limit < v.spent
    /\ v.spent <= Spent(rows, v.envelope)

LEMMA AlertsRestated ==
    AlertsAreRight <=>
        \A r \in Request : alert[r] = Alarm(r, found[r], spent[r], sent[r])
BY DEF AlertsAreRight, Alarm

LEMMA NoFalseAlarmRestated ==
    NoFalseAlarm <=> (~recategorized => \A v \in events : IsTrueAlarm(v, budget, transactions))
BY DEF NoFalseAlarm, IsTrueAlarm, IsExceeded

\* A budget stays, and so does what is spent.
BudgetsStay == \A e \in Envelope : budget[e] # NoBudget => budget'[e] = budget[e]
RowsStay == transactions \subseteq transactions'

\* Whatever adds rows and budgets leaves a true alarm true.
LEMMA AlarmsStayTrue ==
    ASSUME Basics, Basics', BudgetsStay, RowsStay,
           NEW v \in Event, IsTrueAlarm(v, budget, transactions)
    PROVE  IsTrueAlarm(v, budget', transactions')
<1> DEFINE e == v.envelope
<1>1. e \in Envelope
  BY DEF Event
<1>2. budget'[e] = budget[e] /\ budget[e] \in Nat
  BY <1>1 DEF BudgetsStay, IsTrueAlarm, Basics, TypeOK
<1>3. /\ transactions' \in SUBSET Row /\ IsFiniteSet(transactions')
      /\ transactions \in SUBSET Row /\ IsFiniteSet(transactions)
      /\ transactions \in SUBSET transactions'
  BY DEF Basics, TypeOK, RowsAreFinite, RowsStay
<1>4. Spent(transactions, e) <= Spent(transactions', e)
  BY <1>3, SpentGrows
<1>5. Spent(transactions, e) \in Nat /\ Spent(transactions', e) \in Nat
  BY <1>3, SpentIsNatural
<1>6. v.spent \in Nat
  BY DEF Event
<1> QED BY <1>2, <1>4, <1>5, <1>6 DEF IsTrueAlarm

\* What a request has read of the spending is not undone.
LEMMA SpendingStaysFor ==
    ASSUME Basics, Basics', RowsStay, NEW r \in Request, sent'[r] = sent[r],
           spent[r] <= Spent(VisibleRows(r), sent[r].envelope)
    PROVE  spent[r] <= Spent(VisibleRows(r)', sent[r].envelope)
<1> DEFINE e == sent[r].envelope
<1>1. VisibleRows(r)' = transactions' \cup {OwnRow(r)}
  BY DEF VisibleRows, OwnRow
<1>2. VisibleRows(r) \in SUBSET VisibleRows(r)'
  BY <1>1 DEF VisibleRows, RowsStay
<1>3. VisibleRows(r)' \in SUBSET Row /\ IsFiniteSet(VisibleRows(r)')
  <2>1. transactions' \in SUBSET Row /\ IsFiniteSet(transactions')
    BY DEF Basics, TypeOK, RowsAreFinite
  <2>2. OwnRow(r) \in Row
    BY OwnRowIsRow DEF Basics
  <2>3. IsFiniteSet(transactions' \cup {OwnRow(r)})
    BY <2>1, FS_AddElement
  <2> QED BY <1>1, <2>1, <2>2, <2>3
<1> DEFINE before == VisibleRows(r)
           after == VisibleRows(r)'
<1>4. before \in SUBSET Row /\ IsFiniteSet(before)
  BY VisibleAreRows DEF Basics
<1> HIDE DEF before, after, e
<1>5. Spent(before, e) <= Spent(after, e)
  BY <1>2, <1>3, SpentGrows DEF before, after
<1>6. Spent(before, e) \in Nat /\ Spent(after, e) \in Nat
  BY <1>3, <1>4, SpentIsNatural DEF after
<1>7. spent[r] \in Nat
  BY DEF Basics, TypeOK
<1>8. spent[r] <= Spent(before, e)
  BY DEF before, e
<1>9. spent[r] <= Spent(after, e)
  BY <1>5, <1>6, <1>7, <1>8
<1> QED BY <1>9 DEF after, e

\* Steps that only add, and read nothing for a request.
LEMMA AddingStep ==
    ASSUME Basics, Basics', BudgetsStay, RowsStay, recategorized' = recategorized,
           NoFalseAlarm, SpendingStays, events' = events,
           \A r \in Request :
              pc'[r] = "checked" /\ found'[r] # NoBudget =>
                  /\ pc[r] = "checked" /\ found[r] # NoBudget
                  /\ sent'[r] = sent[r] /\ spent'[r] = spent[r]
    PROVE  NoFalseAlarm' /\ SpendingStays'
<1>1. NoFalseAlarm'
  <2>1. ASSUME ~recategorized, NEW v \in events PROVE IsTrueAlarm(v, budget', transactions')
    <3>1. IsTrueAlarm(v, budget, transactions) /\ v \in Event
      BY <2>1, NoFalseAlarmRestated DEF Basics, TypeOK
    <3> QED BY <3>1, AlarmsStayTrue
  <2> QED BY <2>1 DEF NoFalseAlarm, IsTrueAlarm, IsExceeded
<1>2. SpendingStays'
  <2>1. ASSUME ~recategorized, NEW r \in Request, pc'[r] = "checked", found'[r] # NoBudget
        PROVE  spent'[r] <= Spent(VisibleRows(r)', sent'[r].envelope)
    <3>1. spent[r] <= Spent(VisibleRows(r), sent[r].envelope)
      BY <2>1 DEF SpendingStays
    <3>2. sent'[r] = sent[r] /\ spent'[r] = spent[r]
      BY <2>1
    <3>3. spent[r] <= Spent(VisibleRows(r)', sent[r].envelope)
      BY <3>1, <3>2, SpendingStaysFor
    <3> QED BY <3>2, <3>3
  <2> QED BY <2>1 DEF SpendingStays
<1> QED BY <1>1, <1>2

LEMMA InitInvariant == Init => InductiveInv
<1> SUFFICES ASSUME Init PROVE InductiveInv
  OBVIOUS
<1>1. TypeOK /\ RowsAreFinite /\ SentIsKept /\ FoundIsTrue
  BY InitBasics DEF Basics
<1>2. /\ transactions = {} /\ events = {}
      /\ \A r \in Request : pc[r] = "new" /\ found[r] = NoBudget /\ alert[r] = {}
  BY Zenon DEF Init
<1>3. AlertsAreRight
  BY <1>2 DEF AlertsAreRight
<1>4. SpendingStays
  BY <1>2 DEF SpendingStays
<1>5. EndedOnly /\ NoFalseAlarm
  BY <1>2 DEF EndedOnly, NoFalseAlarm
<1> QED BY <1>1, <1>3, <1>4, <1>5 DEF InductiveInv

LEMMA CreateBudgetInvariant ==
    ASSUME InductiveInv, Basics, Basics',
           NEW e \in Envelope, NEW limit \in Limit, CreateBudget(e, limit)
    PROVE  InductiveInv'
<1>1. /\ UNCHANGED <<transactions, events, pc, sent, found, spent, alert, recategorized>>
      /\ budget[e] = NoBudget
      /\ budget' = [budget EXCEPT ![e] = Cents(limit)]
  BY DEF CreateBudget
<1>2. BudgetsStay /\ RowsStay
  BY <1>1 DEF BudgetsStay, RowsStay, Basics, TypeOK
<1>3. NoFalseAlarm' /\ SpendingStays'
  BY <1>1, <1>2, AddingStep DEF InductiveInv
<1>4. AlertsAreRight' /\ EndedOnly'
  BY <1>1 DEF InductiveInv, AlertsAreRight, EndedOnly
<1> QED BY <1>3, <1>4 DEF InductiveInv, Basics

LEMMA AddTransactionInvariant ==
    ASSUME InductiveInv, Basics, Basics',
           NEW r \in Request, NEW body \in Body, AddTransaction(r, body)
    PROVE  InductiveInv'
<1>1. /\ UNCHANGED <<budget, transactions, events, found, spent, alert, recategorized>>
      /\ pc[r] = "new"
      /\ pc' = [pc EXCEPT ![r] = "added"]
      /\ sent' = [sent EXCEPT ![r] = body]
  BY DEF AddTransaction
<1>2. BudgetsStay /\ RowsStay
  BY <1>1 DEF BudgetsStay, RowsStay
<1>3. \A q \in Request : pc'[q] = "checked" => q # r /\ pc[q] = "checked" /\ sent'[q] = sent[q]
  BY <1>1 DEF Basics, TypeOK, SentIsKept
<1>4. NoFalseAlarm' /\ SpendingStays'
  BY <1>1, <1>2, <1>3, AddingStep DEF InductiveInv
<1>5. AlertsAreRight'
  <2>1. found[r] = NoBudget
    BY <1>1 DEF Basics, FoundIsTrue
  <2>2. \A q \in Request : q # r => sent'[q] = sent[q]
    BY <1>1
  <2> QED BY <1>1, <2>1, <2>2 DEF InductiveInv, AlertsAreRight
<1>6. EndedOnly'
  <2>1. \A q \in Request : pc[q] = "ended" => pc'[q] = "ended"
    BY <1>1 DEF Basics, TypeOK
  <2>2. \A v \in events : v.request \in Request
    BY DEF Basics, TypeOK, Event
  <2> QED BY <1>1, <2>1, <2>2 DEF InductiveInv, EndedOnly
<1> QED BY <1>4, <1>5, <1>6 DEF InductiveInv, Basics

LEMMA FindBudgetInvariant ==
    ASSUME InductiveInv, Basics, Basics', NEW r \in Request, FindBudget(r)
    PROVE  InductiveInv'
<1>1. /\ UNCHANGED <<budget, transactions, events, sent, spent, alert, recategorized>>
      /\ pc[r] = "added"
  BY DEF FindBudget
<1>2. /\ \A q \in Request : q # r => pc'[q] = pc[q] /\ found'[q] = found[q]
      /\ pc'[r] = "checked" => found'[r] = NoBudget
  BY DEF FindBudget, Basics, TypeOK, FoundIsTrue
<1>3. BudgetsStay /\ RowsStay
  BY <1>1 DEF BudgetsStay, RowsStay
<1>4. NoFalseAlarm' /\ SpendingStays'
  BY <1>1, <1>2, <1>3, AddingStep DEF InductiveInv
<1>5. AlertsAreRight'
  <2>1. found[r] = NoBudget /\ spent[r] = 0
    BY <1>1 DEF Basics, FoundIsTrue
  <2>2. alert[r] = {}
    BY <2>1 DEF InductiveInv, AlertsAreRight
  <2>3. found'[r] \in Nat \cup {NoBudget}
    BY DEF Basics, TypeOK
  <2>4. ~(found'[r] # NoBudget /\ Crosses(found'[r], spent[r], sent[r].amount))
    BY <2>1, <2>3 DEF Crosses
  <2>5. \A q \in Request : q # r =>
            alert[q] = IF found'[q] # NoBudget /\ Crosses(found'[q], spent[q], sent[q].amount)
                       THEN {[request |-> q, envelope |-> sent[q].envelope,
                              limit |-> found'[q], spent |-> spent[q]]}
                       ELSE {}
    BY <1>2 DEF InductiveInv, AlertsAreRight
  <2> QED BY <1>1, <2>2, <2>4, <2>5 DEF AlertsAreRight
<1>6. EndedOnly'
  <2>1. \A q \in Request : pc[q] = "ended" => pc'[q] = "ended"
    BY <1>1, <1>2
  <2>2. \A v \in events : v.request \in Request
    BY DEF Basics, TypeOK, Event
  <2> QED BY <1>1, <2>1, <2>2 DEF InductiveInv, EndedOnly
<1> QED BY <1>4, <1>5, <1>6 DEF InductiveInv, Basics

LEMMA CheckCrossingInvariant ==
    ASSUME InductiveInv, Basics, Basics', NEW r \in Request, CheckCrossing(r)
    PROVE  InductiveInv'
<1> DEFINE sum == Spent(VisibleRows(r), sent[r].envelope)
           new == IF Crosses(found[r], sum, sent[r].amount)
                  THEN {[request |-> r, envelope |-> sent[r].envelope,
                         limit |-> found[r], spent |-> sum]}
                  ELSE {}
<1>1. /\ UNCHANGED <<budget, transactions, events, sent, found, recategorized>>
      /\ pc[r] = "found"
      /\ pc' = [pc EXCEPT ![r] = "checked"]
      /\ spent' = [spent EXCEPT ![r] = sum]
      /\ alert' = [alert EXCEPT ![r] = new]
  BY DEF CheckCrossing
<1>2. sum \in Nat
  BY VisibleAreRows, SpentIsNatural DEF Basics
<1>3. found[r] # NoBudget
  BY <1>1 DEF Basics, FoundIsTrue
<1>4. \A q \in Request : q # r =>
          pc'[q] = pc[q] /\ spent'[q] = spent[q] /\ alert'[q] = alert[q]
  BY <1>1 DEF Basics, TypeOK
<1>5. pc'[r] = "checked" /\ spent'[r] = sum /\ alert'[r] = new
  BY <1>1 DEF Basics, TypeOK
<1>6. NoFalseAlarm'
  BY <1>1 DEF InductiveInv, NoFalseAlarm, IsExceeded
<1>7. SpendingStays'
  <2>1. \A q \in Request : VisibleRows(q)' = VisibleRows(q)
    BY <1>1 DEF VisibleRows, OwnRow
  <2>2. ASSUME ~recategorized, NEW q \in Request, pc'[q] = "checked", found[q] # NoBudget
        PROVE  spent'[q] <= Spent(VisibleRows(q), sent[q].envelope)
    <3>1. CASE q = r
      BY <1>2, <1>5, <3>1
    <3>2. CASE q # r
      BY <1>4, <2>2, <3>2 DEF InductiveInv, SpendingStays
    <3> QED BY <3>1, <3>2
  <2> HIDE DEF sum, new
  <2>3. ~recategorized => \A q \in Request : pc'[q] = "checked" /\ found'[q] # NoBudget =>
            spent'[q] <= Spent(VisibleRows(q)', sent'[q].envelope)
    BY <1>1, <2>1, <2>2
  <2> QED BY <1>1, <2>3 DEF SpendingStays
<1>8. AlertsAreRight'
  <2>1. \A q \in Request : q # r =>
            alert'[q] = IF found[q] # NoBudget /\ Crosses(found[q], spent'[q], sent[q].amount)
                        THEN {[request |-> q, envelope |-> sent[q].envelope,
                               limit |-> found[q], spent |-> spent'[q]]}
                        ELSE {}
    BY <1>4 DEF InductiveInv, AlertsAreRight
  <2> HIDE DEF sum
  <2> QED BY <1>1, <1>3, <1>5, <2>1 DEF AlertsAreRight
<1>9. EndedOnly'
  <2>1. \A q \in Request : pc[q] = "ended" => pc'[q] = "ended"
    BY <1>1, <1>4
  <2>2. \A v \in events : v.request \in Request
    BY DEF Basics, TypeOK, Event
  <2> QED BY <1>1, <2>1, <2>2 DEF InductiveInv, EndedOnly
<1> QED BY <1>6, <1>7, <1>8, <1>9 DEF InductiveInv, Basics

LEMMA CommitInvariant ==
    ASSUME InductiveInv, Basics, Basics', NEW r \in Request, Commit(r)
    PROVE  InductiveInv'
<1>1. /\ UNCHANGED <<budget, sent, found, spent, alert, recategorized>>
      /\ pc[r] = "checked"
      /\ transactions' = transactions \cup {OwnRow(r)}
      /\ events' = events \cup alert[r]
      /\ pc' = [pc EXCEPT ![r] = "ended"]
  BY DEF Commit
<1>2. BudgetsStay /\ RowsStay
  BY <1>1 DEF BudgetsStay, RowsStay
<1>3. \A q \in Request : q # r => pc'[q] = pc[q]
  BY <1>1
<1>4. pc'[r] = "ended"
  BY <1>1 DEF Basics, TypeOK
<1>5. ASSUME NEW v \in alert[r]
      PROVE  /\ found[r] # NoBudget
             /\ Crosses(found[r], spent[r], sent[r].amount)
             /\ v = [request |-> r, envelope |-> sent[r].envelope,
                     limit |-> found[r], spent |-> spent[r]]
  BY <1>5 DEF InductiveInv, AlertsAreRight
<1>6. ASSUME ~recategorized, NEW v \in events' PROVE IsTrueAlarm(v, budget', transactions')
  <2>1. CASE v \in events
    <3>1. IsTrueAlarm(v, budget, transactions) /\ v \in Event
      BY <1>6, <2>1, NoFalseAlarmRestated DEF InductiveInv, TypeOK
    <3> QED BY <1>2, <3>1, AlarmsStayTrue
  <2>2. CASE v \in alert[r]
    <3>1. /\ found[r] # NoBudget
          /\ spent[r] > found[r]
          /\ v.envelope = sent[r].envelope /\ v.limit = found[r] /\ v.spent = spent[r]
      BY <1>5, <2>2 DEF Crosses
    <3>2. budget[v.envelope] = found[r] /\ found[r] \in Nat /\ spent[r] \in Nat
      BY <3>1 DEF Basics, TypeOK, FoundIsTrue
    <3>3. spent[r] <= Spent(VisibleRows(r), sent[r].envelope)
      BY <1>1, <1>6, <3>1 DEF InductiveInv, SpendingStays
    <3>4. VisibleRows(r) = transactions'
      BY <1>1 DEF VisibleRows
    <3>5. spent[r] <= Spent(transactions', v.envelope)
      BY <3>1, <3>3, <3>4
    <3>6. Spent(transactions', v.envelope) \in Nat
      BY SpentIsNatural DEF Basics, TypeOK, RowsAreFinite
    <3> QED BY <1>1, <3>1, <3>2, <3>5, <3>6 DEF IsTrueAlarm
  <2> QED BY <1>1, <2>1, <2>2
<1>7. NoFalseAlarm'
  BY <1>1, <1>6 DEF NoFalseAlarm, IsTrueAlarm, IsExceeded
<1>8. SpendingStays'
  <2>1. ASSUME ~recategorized, NEW q \in Request, pc'[q] = "checked", found[q] # NoBudget
        PROVE  spent[q] <= Spent(VisibleRows(q)', sent[q].envelope)
    <3>1. q # r /\ pc[q] = "checked"
      BY <1>3, <1>4, <2>1
    <3>2. spent[q] <= Spent(VisibleRows(q), sent[q].envelope)
      BY <2>1, <3>1 DEF InductiveInv, SpendingStays
    <3> QED BY <1>1, <1>2, <3>2, SpendingStaysFor
  <2> QED BY <1>1, <2>1 DEF SpendingStays
<1>9. AlertsAreRight'
  BY <1>1 DEF InductiveInv, AlertsAreRight
<1>10. EndedOnly'
  <2>1. \A q \in Request : pc[q] = "ended" => pc'[q] = "ended"
    BY <1>3, <1>4
  <2>2. \A v \in events : v.request \in Request
    BY DEF Basics, TypeOK, Event
  <2>3. \A v \in alert[r] : v.request = r
    BY <1>5
  <2>4. OwnRow(r).id = r
    BY DEF OwnRow
  <2> QED BY <1>1, <1>4, <2>1, <2>2, <2>3, <2>4 DEF InductiveInv, EndedOnly
<1> QED BY <1>7, <1>8, <1>9, <1>10 DEF InductiveInv, Basics

LEMMA AbortInvariant ==
    ASSUME InductiveInv, Basics, Basics', NEW r \in Request, Abort(r)
    PROVE  InductiveInv'
<1>1. /\ UNCHANGED <<budget, transactions, events, sent, found, spent, alert, recategorized>>
      /\ pc' = [pc EXCEPT ![r] = "ended"]
  BY DEF Abort
<1>2. BudgetsStay /\ RowsStay
  BY <1>1 DEF BudgetsStay, RowsStay
<1>3. \A q \in Request : pc'[q] = pc[q] \/ pc'[q] = "ended"
  BY <1>1 DEF Basics, TypeOK
<1>4. NoFalseAlarm' /\ SpendingStays'
  BY <1>1, <1>2, <1>3, AddingStep DEF InductiveInv
<1>5. AlertsAreRight'
  BY <1>1 DEF InductiveInv, AlertsAreRight
<1>6. EndedOnly'
  <2>1. \A q \in Request : pc[q] = "ended" => pc'[q] = "ended"
    BY <1>3
  <2>2. \A v \in events : v.request \in Request
    BY DEF Basics, TypeOK, Event
  <2> QED BY <1>1, <2>1, <2>2 DEF InductiveInv, EndedOnly
<1> QED BY <1>4, <1>5, <1>6 DEF InductiveInv, Basics

LEMMA ImportInvariant ==
    ASSUME InductiveInv, Basics, Basics', NEW bodies \in Jobs, ImportStatement(bodies)
    PROVE  InductiveInv'
<1>1. /\ transactions' = transactions \cup NewRows(bodies)
      /\ UNCHANGED <<budget, events, pc, sent, found, spent, alert, recategorized>>
  BY DEF ImportStatement, NewRows
<1>2. BudgetsStay /\ RowsStay
  BY <1>1 DEF BudgetsStay, RowsStay
<1>3. NoFalseAlarm' /\ SpendingStays'
  BY <1>1, <1>2, AddingStep DEF InductiveInv
<1>4. AlertsAreRight'
  BY <1>1 DEF InductiveInv, AlertsAreRight
<1>5. EndedOnly'
  <2>1. \A t \in NewRows(bodies) : t.id \in ImportedRow
    <3>1. \A i \in DOMAIN bodies : i \in ImportedRow
      BY NewRowsAreRows
    <3> QED BY <3>1 DEF NewRows
  <2>2. \A t \in NewRows(bodies) : t.id \notin Request
    BY <2>1, RequestAssumption
  <2> QED BY <1>1, <2>2 DEF InductiveInv, EndedOnly
<1> QED BY <1>3, <1>4, <1>5 DEF InductiveInv, Basics

LEMMA RecategorizeInvariant ==
    ASSUME InductiveInv, Basics, Basics',
           NEW category \in [transactions -> Envelope \cup {NoEnvelope}],
           Recategorize(category)
    PROVE  InductiveInv'
<1>1. /\ transactions' = {[t EXCEPT !.envelope = category[t]] : t \in transactions}
      /\ recategorized' = TRUE
      /\ UNCHANGED <<budget, events, pc, sent, found, spent, alert>>
  BY DEF Recategorize
<1>2. NoFalseAlarm' /\ SpendingStays'
  BY <1>1, Zenon DEF NoFalseAlarm, SpendingStays
<1>3. AlertsAreRight'
  BY <1>1 DEF InductiveInv, AlertsAreRight
<1>4. EndedOnly'
  <2>1. \A t \in transactions : t \in Row
    BY DEF Basics, TypeOK
  <2>2. \A t \in transactions' : \E u \in transactions : t.id = u.id
    BY <1>1, <2>1 DEF Row
  <2> QED BY <1>1, <2>2 DEF InductiveInv, EndedOnly
<1> QED BY <1>2, <1>3, <1>4 DEF InductiveInv, Basics

LEMMA NextInvariant == InductiveInv /\ [Next]_vars => InductiveInv'
<1> SUFFICES ASSUME InductiveInv, [Next]_vars PROVE InductiveInv'
  OBVIOUS
<1>1. Basics
  BY DEF InductiveInv, Basics
<1>2. Basics'
  BY <1>1, NextBasics
<1>3. ASSUME NEW e \in Envelope, NEW limit \in Limit, CreateBudget(e, limit)
      PROVE  InductiveInv'
  BY <1>1, <1>2, <1>3, CreateBudgetInvariant
<1>4. ASSUME NEW r \in Request, NEW body \in Body, AddTransaction(r, body)
      PROVE  InductiveInv'
  BY <1>1, <1>2, <1>4, AddTransactionInvariant
<1>5. ASSUME NEW r \in Request, FindBudget(r) \/ CheckCrossing(r) \/ Commit(r) \/ Abort(r)
      PROVE  InductiveInv'
  BY <1>1, <1>2, <1>5, FindBudgetInvariant, CheckCrossingInvariant, CommitInvariant,
     AbortInvariant
<1>6. ASSUME NEW bodies \in Jobs, ImportStatement(bodies) PROVE InductiveInv'
  BY <1>1, <1>2, <1>6, ImportInvariant
<1>7. ASSUME NEW category \in [transactions -> Envelope \cup {NoEnvelope}],
             Recategorize(category)
      PROVE  InductiveInv'
  BY <1>1, <1>2, <1>7, RecategorizeInvariant
<1>8. CASE UNCHANGED vars
  <2>1. AlertsAreRight' /\ EndedOnly' /\ NoFalseAlarm'
    BY <1>8 DEF vars, InductiveInv, AlertsAreRight, EndedOnly, NoFalseAlarm, IsExceeded
  <2>2. SpendingStays'
    BY <1>8 DEF vars, InductiveInv, SpendingStays, VisibleRows, OwnRow
  <2> QED BY <1>2, <2>1, <2>2 DEF InductiveInv, Basics
<1> QED BY <1>3, <1>4, <1>5, <1>6, <1>7, <1>8 DEF Next

THEOREM Invariant == Spec => []InductiveInv
BY InitInvariant, NextInvariant, PTL DEF Spec

\* No alert is false: a budget an event names is exceeded, by at least what the
\* event says, however many requests overlap and whichever fail, as long as no
\* row is given another category (record_budget_crossing, calculate_spent).
THEOREM AlertsAreTrue == Spec => []NoFalseAlarm
<1>1. InductiveInv => NoFalseAlarm
  BY DEF InductiveInv
<1> QED BY <1>1, Invariant, PTL

-----------------------------------------------------------------------------
(* Alerts and crossings, of amounts in whole cents                         *)

WholeAmounts == \A a \in Amount : Cents(a) = a

\* The spending of an envelope before and after the commit of a request.
LEMMA CommittedSpending ==
    ASSUME InductiveInv, WholeAmounts, NEW r \in Request, Commit(r), NEW e \in Envelope
    PROVE  /\ Spent(transactions, e) \in Nat
           /\ Spent(transactions', e) =
                 Spent(transactions, e)
                   + IF sent[r].envelope = e /\ sent[r].amount < 0 THEN -sent[r].amount ELSE 0
           /\ transactions' = VisibleRows(r)
           /\ sent[r].amount \in Int
<1>1. transactions \in SUBSET Row /\ IsFiniteSet(transactions)
  BY DEF InductiveInv, TypeOK, RowsAreFinite
<1>2. OwnRow(r) \in Row
  BY OwnRowIsRow DEF InductiveInv
<1>3. OwnRow(r) \notin transactions
  <2>1. OwnRow(r).id = r
    BY DEF OwnRow
  <2>2. \A t \in transactions : t.id = r => pc[r] = "ended"
    BY DEF InductiveInv, EndedOnly
  <2>3. pc[r] = "checked"
    BY DEF Commit
  <2> QED BY <2>1, <2>2, <2>3
<1>4. sent[r] \in Body
  BY DEF InductiveInv, TypeOK, Commit
<1>5. /\ OwnRow(r).envelope = sent[r].envelope
      /\ OwnRow(r).amount = sent[r].amount
      /\ sent[r].amount \in Int
  BY <1>4, AmountAssumption DEF WholeAmounts, OwnRow, Body
<1> DEFINE t == OwnRow(r)
<1>6. transactions' = transactions \cup {t}
  BY DEF Commit
<1> HIDE DEF t
<1>7. Spent(transactions \cup {t}, e) =
          Spent(transactions, e) + IF t.envelope = e /\ t.amount < 0 THEN -t.amount ELSE 0
  BY <1>1, <1>2, <1>3, SpentOneMore DEF t
<1>8. t.envelope = sent[r].envelope /\ t.amount = sent[r].amount
  BY <1>5 DEF t
<1>9. Spent(transactions, e) \in Nat
  BY <1>1, SpentIsNatural
<1> QED BY <1>5, <1>6, <1>7, <1>8, <1>9 DEF VisibleRows, t

LEMMA AlarmIsOwn ==
    ASSUME NEW r, NEW limit, NEW sum, NEW body
    PROVE  /\ \A v \in Alarm(r, limit, sum, body) :
                  v.request = r /\ v.envelope = body.envelope
           /\ Alarm(r, limit, sum, body) # {} <=>
                  limit # NoBudget /\ Crosses(limit, sum, body.amount)
<1> DEFINE v == [request |-> r, envelope |-> body.envelope, limit |-> limit, spent |-> sum]
<1>1. v.request = r /\ v.envelope = body.envelope
  OBVIOUS
<1>2. Alarm(r, limit, sum, body) =
          IF limit # NoBudget /\ Crosses(limit, sum, body.amount) THEN {v} ELSE {}
  BY DEF Alarm
<1> HIDE DEF v
<1> QED BY <1>1, <1>2

\* The events a commit adds are those of its request, and they are new.
LEMMA CommittedEvents ==
    ASSUME InductiveInv, NEW r \in Request, Commit(r)
    PROVE  events' \ events = alert[r]
<1>1. \A v \in alert[r] : v.request = r
  <2>1. alert[r] = Alarm(r, found[r], spent[r], sent[r])
    BY AlertsRestated DEF InductiveInv
  <2> QED BY <2>1, AlarmIsOwn
<1>2. pc[r] # "ended" /\ events' = events \cup alert[r]
  BY DEF Commit
<1>3. \A v \in events : pc[v.request] = "ended"
  BY DEF InductiveInv, EndedOnly
<1> QED BY <1>1, <1>2, <1>3

LEMMA ExactlyAtCrossings ==
    ASSUME InductiveInv, WholeAmounts, NEW r \in Request, Commit(r), IsUndisturbed(r),
           NEW e \in Envelope
    PROVE  CrossingStep(e) <=> \E v \in events' \ events : v.envelope = e
<1> DEFINE a == sent[r].amount
           before == Spent(transactions, e)
           after == Spent(transactions', e)
<1>1. /\ before \in Nat
      /\ after = before + IF sent[r].envelope = e /\ a < 0 THEN -a ELSE 0
      /\ transactions' = VisibleRows(r)
      /\ a \in Int
  BY CommittedSpending
<1>2. events' \ events = alert[r]
  BY CommittedEvents
<1>3. /\ found[r] \in Nat \cup {NoBudget}
      /\ budget[e] \in Nat \cup {NoBudget}
      /\ spent[r] \in Nat
  BY DEF InductiveInv, TypeOK
<1>4. CrossingStep(e) <=> budget[e] # NoBudget /\ ~(before > budget[e]) /\ after > budget[e]
  BY Zenon DEF CrossingStep, IsExceeded, Commit
<1>5. alert[r] = Alarm(r, found[r], spent[r], sent[r])
  BY AlertsRestated DEF InductiveInv
<1>6. (\E v \in alert[r] : v.envelope = e) <=>
          found[r] # NoBudget /\ Crosses(found[r], spent[r], a) /\ sent[r].envelope = e
  BY <1>5, AlarmIsOwn
<1>7. /\ found[r] # NoBudget => a < 0 /\ budget[sent[r].envelope] = found[r]
      /\ sent[r].envelope = e /\ a < 0 => found[r] = budget[e]
      /\ sent[r].envelope = e /\ found[r] # NoBudget => spent[r] = after
  BY <1>1 DEF IsUndisturbed, InductiveInv, FoundIsTrue
<1> HIDE DEF a, before, after
<1>8. CASE sent[r].envelope = e /\ a < 0
  <2>1. after = before - a /\ found[r] = budget[e]
    BY <1>1, <1>7, <1>8
  <2>2. CASE budget[e] = NoBudget
    BY <1>2, <1>4, <1>6, <2>1, <2>2
  <2>3. CASE budget[e] # NoBudget
    <3>1. spent[r] = after /\ budget[e] \in Nat
      BY <1>3, <1>7, <1>8, <2>1, <2>3
    <3>2. Crosses(found[r], spent[r], a) <=> after > budget[e] /\ before <= budget[e]
      BY <1>1, <2>1, <3>1 DEF Crosses
    <3>3. before <= budget[e] <=> ~(before > budget[e])
      BY <1>1, <3>1
    <3> QED BY <1>2, <1>4, <1>6, <1>8, <2>1, <2>3, <3>2, <3>3
  <2> QED BY <2>2, <2>3
<1>9. CASE ~(sent[r].envelope = e /\ a < 0)
  <2>1. after = before
    BY <1>1, <1>9
  <2> QED BY <1>2, <1>4, <1>6, <1>7, <1>9, <2>1
<1> QED BY <1>8, <1>9

\* Of amounts in whole cents, a request whose reads still hold when it commits
\* records an event if, and only if, its commit is what exceeds the budget
\* (record_budget_crossing: "only when a transaction crosses from under to
\* over").  Of parts of a cent this is false: BudgetAlertsSubCent.
THEOREM AlertsAtCrossings ==
    ASSUME WholeAmounts
    PROVE  Spec => AlertsExactlyAtCrossings
<1>1. ASSUME InductiveInv
      PROVE  \A r \in Request : Commit(r) /\ IsUndisturbed(r) =>
                \A e \in Envelope :
                    CrossingStep(e) <=> \E v \in events' \ events : v.envelope = e
  BY <1>1, ExactlyAtCrossings
<1> QED BY <1>1, Invariant, PTL DEF AlertsExactlyAtCrossings

-----------------------------------------------------------------------------
(* One request at a time                                                   *)

OneAtATime == \A r, q \in Served : r = q
Undisturbed == \A r \in Request : pc[r] = "checked" => IsUndisturbed(r)

SerialInv == OneAtATime /\ Undisturbed /\ OneAlertPerBudget

LEMMA RoomIsEmpty ==
    ASSUME MaxConcurrent = 1, OneAtATime, HasRoom
    PROVE  Served = {}
<1> SUFFICES ASSUME NEW r \in Served PROVE FALSE
  OBVIOUS
<1>1. Served = {r}
  BY DEF OneAtATime
<1>2. Cardinality({r}) = 1
  BY FS_Singleton
<1> QED BY <1>1, <1>2 DEF HasRoom

\* Steps taken when no request is served, and after which none has read.
LEMMA IdleStep ==
    ASSUME Served = {}, events' = events, UNCHANGED recategorized \/ recategorized',
           OneAlertPerBudget, NEW r,
           \A q \in Request : pc'[q] = pc[q] \/ (q = r /\ pc'[q] = "added")
    PROVE  SerialInv'
<1>1. \A q \in Request : pc[q] \notin {"added", "found", "checked"}
  BY DEF Served
<1>2. \A q \in Request : pc'[q] \in {"added", "found", "checked"} => q = r /\ pc'[q] = "added"
  BY <1>1
<1>3. OneAtATime'
  BY <1>2 DEF OneAtATime, Served
<1>4. \A q \in Request : pc'[q] # "checked"
  BY <1>2
<1>5. Undisturbed'
  BY <1>4 DEF Undisturbed
<1>6. OneAlertPerBudget'
  <2>1. ~recategorized' => ~recategorized
    BY Zenon
  <2>2. ~recategorized => \A v, w \in events : v.envelope = w.envelope => v = w
    BY Zenon DEF OneAlertPerBudget
  <2>3. events' = events
    OBVIOUS
  <2> QED BY <2>1, <2>2, <2>3, Zenon DEF OneAlertPerBudget
<1> QED BY <1>3, <1>5, <1>6 DEF SerialInv

\* Steps of the one request that is served.
LEMMA ServedStep ==
    ASSUME OneAtATime, NEW r \in Served,
           \A q \in Request : q # r => pc'[q] = pc[q],
           pc'[r] = "checked" => IsUndisturbed(r)'
    PROVE  OneAtATime' /\ Undisturbed'
<1>1. \A q \in Request : q # r => pc[q] \notin {"added", "found", "checked"}
  BY DEF OneAtATime, Served
<1>2. \A q \in Request : q # r => pc'[q] \notin {"added", "found", "checked"}
  BY <1>1
<1>3. OneAtATime'
  BY <1>2 DEF OneAtATime, Served
<1>4. \A q \in Request : pc'[q] = "checked" => q = r
  BY <1>2
<1>5. Undisturbed'
  BY <1>4 DEF Undisturbed
<1> QED BY <1>3, <1>5

LEMMA InitSerial == Init => SerialInv
<1> SUFFICES ASSUME Init PROVE SerialInv
  OBVIOUS
<1>1. events = {} /\ \A r \in Request : pc[r] = "new"
  BY Zenon DEF Init
<1> QED BY <1>1 DEF SerialInv, OneAtATime, Undisturbed, OneAlertPerBudget, Served

LEMMA FindBudgetSerial ==
    ASSUME InductiveInv, SerialInv, NEW r \in Request, FindBudget(r)
    PROVE  SerialInv'
<1>1. /\ pc[r] = "added"
      /\ UNCHANGED <<budget, transactions, events, sent, spent, alert, recategorized>>
  BY DEF FindBudget
<1>2. r \in Served
  BY <1>1 DEF Served
<1>3. \A q \in Request : q # r => pc'[q] = pc[q]
  BY DEF FindBudget, InductiveInv, TypeOK
<1>4. ASSUME pc'[r] = "checked" PROVE IsUndisturbed(r)'
  <2>1. /\ sent[r].envelope \in Envelope /\ sent[r].amount < 0 =>
              budget[sent[r].envelope] = NoBudget
        /\ found' = found
    BY <1>4 DEF FindBudget, InductiveInv, TypeOK
  <2>2. found[r] = NoBudget
    BY <1>1 DEF InductiveInv, FoundIsTrue
  <2> QED BY <1>1, <2>1, <2>2 DEF IsUndisturbed
<1>5. OneAtATime' /\ Undisturbed'
  BY <1>2, <1>3, <1>4, ServedStep DEF SerialInv
<1>6. OneAlertPerBudget'
  BY <1>1, Zenon DEF SerialInv, OneAlertPerBudget
<1> QED BY <1>5, <1>6 DEF SerialInv

LEMMA CheckCrossingSerial ==
    ASSUME InductiveInv, SerialInv, NEW r \in Request, CheckCrossing(r)
    PROVE  SerialInv'
<1>1. /\ pc[r] = "found"
      /\ pc' = [pc EXCEPT ![r] = "checked"]
      /\ spent' = [spent EXCEPT ![r] = Spent(VisibleRows(r), sent[r].envelope)]
      /\ UNCHANGED <<budget, transactions, events, sent, found, recategorized>>
  BY DEF CheckCrossing
<1>2. r \in Served
  BY <1>1 DEF Served
<1>3. \A q \in Request : q # r => pc'[q] = pc[q]
  BY <1>1
<1>4. IsUndisturbed(r)'
  <2>1. VisibleRows(r)' = VisibleRows(r)
    BY <1>1 DEF VisibleRows, OwnRow
  <2>2. spent'[r] = Spent(VisibleRows(r), sent[r].envelope)
    BY <1>1 DEF InductiveInv, TypeOK
  <2>3. found[r] = budget[sent[r].envelope]
    BY <1>1 DEF InductiveInv, FoundIsTrue
  <2> QED BY <1>1, <2>1, <2>2, <2>3 DEF IsUndisturbed
<1>5. OneAtATime' /\ Undisturbed'
  BY <1>2, <1>3, <1>4, ServedStep DEF SerialInv
<1>6. OneAlertPerBudget'
  BY <1>1, Zenon DEF SerialInv, OneAlertPerBudget
<1> QED BY <1>5, <1>6 DEF SerialInv

\* The event of a commit is the first of its budget: there was no crossing
\* before, or the budget would have been exceeded already.
LEMMA CommitSerial ==
    ASSUME InductiveInv, SerialInv, WholeAmounts, NEW r \in Request, Commit(r)
    PROVE  SerialInv'
<1>1. /\ pc[r] = "checked"
      /\ pc' = [pc EXCEPT ![r] = "ended"]
      /\ events' = events \cup alert[r]
      /\ UNCHANGED <<budget, recategorized>>
  BY DEF Commit
<1>2. r \in Served
  BY <1>1 DEF Served
<1>3. /\ \A q \in Request : q # r => pc'[q] = pc[q]
      /\ pc'[r] # "checked"
  BY <1>1 DEF InductiveInv, TypeOK
<1>4. OneAtATime' /\ Undisturbed'
  BY <1>2, <1>3, ServedStep DEF SerialInv
<1>5. IsUndisturbed(r)
  BY <1>1 DEF SerialInv, Undisturbed
<1>6. events' \ events = alert[r]
  BY CommittedEvents
<1>7. ASSUME ~recategorized, NEW v \in alert[r], NEW w \in events PROVE v.envelope # w.envelope
  <2>1. v.envelope \in Envelope
    BY DEF InductiveInv, TypeOK, Event
  <2>2. CrossingStep(v.envelope)
    BY <1>5, <1>6, <2>1, ExactlyAtCrossings
  <2>3. ~IsExceeded(v.envelope)
    BY <2>2 DEF CrossingStep
  <2>4. IsExceeded(w.envelope)
    BY <1>7 DEF InductiveInv, NoFalseAlarm
  <2> QED BY <2>3, <2>4
<1>8. \A v, w \in alert[r] : v = w
  BY DEF InductiveInv, AlertsAreRight
<1>9. ASSUME ~recategorized, NEW v \in events', NEW w \in events', v.envelope = w.envelope
      PROVE  v = w
  <2>1. CASE v \in events /\ w \in events
    BY <1>9, <2>1 DEF SerialInv, OneAlertPerBudget
  <2>2. CASE v \in alert[r] /\ w \in alert[r]
    BY <1>8, <2>2
  <2>3. CASE v \in alert[r] /\ w \in events
    BY <1>7, <1>9, <2>3
  <2>4. CASE v \in events /\ w \in alert[r]
    BY <1>7, <1>9, <2>4
  <2> QED BY <1>1, <2>1, <2>2, <2>3, <2>4
<1>10. OneAlertPerBudget'
  BY <1>1, <1>9, Zenon DEF OneAlertPerBudget
<1> QED BY <1>4, <1>10 DEF SerialInv

LEMMA NextSerial ==
    ASSUME InductiveInv, SerialInv, [Next]_vars, WholeAmounts, MaxConcurrent = 1
    PROVE  SerialInv'
<1>1. HasRoom => Served = {}
  BY RoomIsEmpty DEF SerialInv
<1>2. OneAlertPerBudget
  BY DEF SerialInv
<1>3. ASSUME NEW e \in Envelope, NEW limit \in Limit, CreateBudget(e, limit)
      PROVE  SerialInv'
  <2>1. Served = {} /\ events' = events /\ pc' = pc /\ UNCHANGED recategorized
    BY <1>1, <1>3 DEF CreateBudget
  <2> QED BY <1>2, <2>1, IdleStep
<1>4. ASSUME NEW r \in Request, NEW body \in Body, AddTransaction(r, body)
      PROVE  SerialInv'
  <2>1. Served = {} /\ events' = events /\ UNCHANGED recategorized
    BY <1>1, <1>4 DEF AddTransaction
  <2>2. \A q \in Request : pc'[q] = pc[q] \/ (q = r /\ pc'[q] = "added")
    BY <1>4 DEF AddTransaction, InductiveInv, TypeOK
  <2> QED BY <1>2, <2>1, <2>2, IdleStep
<1>5. ASSUME NEW r \in Request, Abort(r) PROVE SerialInv'
  <2>1. /\ r \in Served /\ events' = events /\ UNCHANGED recategorized
        /\ \A q \in Request : q # r => pc'[q] = pc[q]
        /\ pc'[r] # "checked"
    BY <1>5 DEF Abort, InductiveInv, TypeOK, Served
  <2>2. OneAtATime' /\ Undisturbed'
    BY <2>1, ServedStep DEF SerialInv
  <2>3. OneAlertPerBudget'
    BY <1>2, <2>1, Zenon DEF OneAlertPerBudget
  <2> QED BY <2>2, <2>3 DEF SerialInv
<1>6. ASSUME NEW r \in Request, FindBudget(r) \/ CheckCrossing(r) \/ Commit(r)
      PROVE  SerialInv'
  BY <1>6, FindBudgetSerial, CheckCrossingSerial, CommitSerial
<1>7. ASSUME NEW bodies \in Jobs, ImportStatement(bodies) PROVE SerialInv'
  <2>1. Served = {} /\ events' = events /\ pc' = pc /\ UNCHANGED recategorized
    BY <1>1, <1>7 DEF ImportStatement
  <2> QED BY <1>2, <2>1, IdleStep
<1>8. ASSUME NEW category \in [transactions -> Envelope \cup {NoEnvelope}],
             Recategorize(category)
      PROVE  SerialInv'
  <2>1. Served = {} /\ events' = events /\ pc' = pc /\ recategorized'
    BY <1>1, <1>8, Zenon DEF Recategorize
  <2> QED BY <1>2, <2>1, IdleStep
<1>9. CASE UNCHANGED vars
  <2>1. OneAtATime' /\ OneAlertPerBudget'
    BY <1>9, Zenon DEF vars, SerialInv, OneAtATime, Served, OneAlertPerBudget
  <2>2. Undisturbed'
    BY <1>9 DEF vars, SerialInv, Undisturbed, IsUndisturbed, VisibleRows, OwnRow
  <2> QED BY <2>1, <2>2 DEF SerialInv
<1> QED BY <1>3, <1>4, <1>5, <1>6, <1>7, <1>8, <1>9 DEF Next

\* If nothing else is committed while a request is served, and amounts are
\* whole cents, a budget has one event at most, as test_stage_8 expects.  Of
\* requests that overlap this is false: BudgetAlertsDouble.
THEOREM OneAlertInTurn ==
    ASSUME WholeAmounts, MaxConcurrent = 1
    PROVE  Spec => []OneAlertPerBudget
<1>1. SerialInv => OneAlertPerBudget
  BY DEF SerialInv
<1>2. InductiveInv /\ SerialInv /\ [Next]_vars => SerialInv'
  BY NextSerial
<1> QED BY <1>1, <1>2, InitSerial, Invariant, PTL DEF Spec

\* Under the same hypotheses no crossing by a request goes without an event
\* (record_budget_crossing).  Of parts of a cent this is false, even one
\* request at a time: BudgetAlertsSubCent.
THEOREM EveryCrossingInTurn ==
    ASSUME WholeAmounts, MaxConcurrent = 1
    PROVE  Spec => EveryCrossingAlerts
<1>1. ASSUME InductiveInv, SerialInv
      PROVE  \A r \in Request, e \in Envelope : Commit(r) /\ CrossingStep(e) =>
                \E v \in events' \ events : v.envelope = e
  <2> SUFFICES ASSUME NEW r \in Request, NEW e \in Envelope, Commit(r), CrossingStep(e)
               PROVE  \E v \in events' \ events : v.envelope = e
    OBVIOUS
  <2>1. IsUndisturbed(r)
    BY <1>1 DEF Commit, SerialInv, Undisturbed
  <2> QED BY <1>1, <2>1, ExactlyAtCrossings
<1>2. InductiveInv /\ SerialInv /\ [Next]_vars => SerialInv'
  BY NextSerial
<1> QED BY <1>1, <1>2, InitSerial, Invariant, PTL DEF Spec, EveryCrossingAlerts
=============================================================================
