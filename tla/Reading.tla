------------------------------- MODULE Reading ------------------------------
(***************************************************************************)
(* One user's ledger while it is written and read: rules and               *)
(* re-categorising (services/transactions.py, repositories/rules.py),      *)
(* pages (repositories/transactions.py), reports and exports               *)
(* (services/reports.py, repositories/reports.py, repositories/exports.py).*)
(*                                                                         *)
(* Every SQL statement sees what is committed when it starts, and a        *)
(* request of several statements may see several ledgers.  Steps are       *)
(* statements.  All queries are filtered by the user; the model holds only *)
(* what belongs to one.  Budgets are left to BudgetAlerts.                 *)
(***************************************************************************)
EXTENDS Calendar, FiniteSets, FiniteSetsExt

CONSTANTS
    Id,           \* ids rows may get, in the order the database sorts them
    Account,      \* the user's accounts
    Currency,     \* Currency[a]: the currency of account a
    Category,     \* the user's categories; none is ever removed
    NoCategory,   \* of a row without a category, of a list without the filter
    Filter,       \* what clients list: pairs of an account and a category
    Pattern,      \* patterns of rules
    Text,         \* descriptions of rows
    Contains,     \* the pairs of a description and a pattern within it
    Entry,        \* what requests and statements enter: account, day, amount,
                  \* text, and a category or NoCategory
    NewRule,      \* rules the user may create: id, priority, pattern, category
    Limit,        \* page lengths a client may ask for
    Writer,       \* who writes: as many requests are under way at once
    Month,        \* months the user asks a report of
    MaxConcurrent \* how much is under way at the same time

ASSUME IdAssumption == Id \subseteq Nat
ASSUME CurrencyAssumption == DOMAIN Currency = Account /\ IsFiniteSet(Account)
ASSUME CategoryAssumption == NoCategory \notin Category
ASSUME FilterAssumption == Filter \subseteq Account \X (Category \cup {NoCategory})
ASSUME ContainsAssumption == Contains \subseteq Text \X Pattern
ASSUME EntryAssumption ==
    \A e \in Entry : /\ e.account \in Account /\ IsDay(e.day) /\ e.amount \in Int
                     /\ e.text \in Text /\ e.category \in Category \cup {NoCategory}
ASSUME RuleAssumption ==
    \A q \in NewRule : /\ q.id \in Nat /\ q.priority \in Int
                       /\ q.pattern \in Pattern /\ q.category \in Category
ASSUME UniqueRuleIds == \A p, q \in NewRule : p.id = q.id => p = q
ASSUME LimitAssumption == Limit \subseteq Nat \ {0}
ASSUME MonthAssumption == \A m \in Month : IsMonth(m)

VARIABLES
    rows,      \* committed transactions
    rules,     \* committed rules
    pc,        \* pc[w]: how far writer w is
    entry,     \* entry[w]: what w enters
    chosen,    \* chosen[w]: the category w gives its row
    known,     \* known[w]: the rules a re-categorising w has read
    changes,   \* changes[w]: the categories it will write, by id of the row
    loaded,    \* loaded[w]: the ids of the rows it has read; only said of here
    overtaken, \* overtaken[w]: rules, or the categories of rows, have been
               \* committed by others since w began; only said of here
    pager,     \* a client that lists an account page by page
    report     \* a monthly report being put together

vars == <<rows, rules, pc, entry, chosen, known, changes, loaded, overtaken, pager, report>>
writers == <<pc, entry, chosen, known, changes, loaded, overtaken>>

Categories == Category \cup {NoCategory}
Row == [id : Id, account : Account, day : {e.day : e \in Entry},
        amount : {e.amount : e \in Entry}, text : Text, category : Categories]

TypeOK ==
    /\ rows \subseteq Row
    /\ \A s, t \in rows : s.id = t.id => s = t
    /\ rules \subseteq NewRule
    /\ pc \in [Writer -> {"idle", "entering", "recategorizing", "loaded"}]
    /\ \A w \in Writer : /\ pc[w] = "entering" => entry[w] \in Entry
                         /\ known[w] \subseteq NewRule
                         /\ changes[w] \subseteq [id : Id, category : Categories]
                         /\ loaded[w] \subseteq Id
    /\ chosen \in [Writer -> Categories]
    /\ overtaken \in [Writer -> BOOLEAN]
    /\ pager.at \in {"closed", "open", "end"}
    /\ pager.seen \subseteq Id /\ pager.steady \subseteq Id
    /\ report.at \in {"none", "totals", "made"}
    /\ report.income \in Nat /\ report.expenses \in Nat

NoPager  == [at |-> "closed", account |-> NoCategory, category |-> NoCategory,
             cursor |-> {}, seen |-> {}, steady |-> {}]
NoReport == [at |-> "none", month |-> <<1, 1>>, currency |-> NoCategory, income |-> 0,
             expenses |-> 0, by_category |-> {}, meanwhile |-> {}]

Init ==
    /\ rows = {}
    /\ rules = {}
    /\ pc = [w \in Writer |-> "idle"]
    /\ entry = [w \in Writer |-> NoCategory]
    /\ chosen = [w \in Writer |-> NoCategory]
    /\ known = [w \in Writer |-> {}]
    /\ changes = [w \in Writer |-> {}]
    /\ loaded = [w \in Writer |-> {}]
    /\ overtaken = [w \in Writer |-> FALSE]
    /\ pager = NoPager
    /\ report = NoReport

-----------------------------------------------------------------------------

\* Bounds: one thing is read at a time, and with the writers at most
\* MaxConcurrent are under way.
IsRead  == pager.at # "closed" \/ report.at # "none"
HasRoom == Cardinality({w \in Writer : pc[w] # "idle"})
             + (IF IsRead THEN 1 ELSE 0) < MaxConcurrent

\* The reader is done with what it has read.
PutAway ==
    /\ pager.at = "end" \/ report.at = "made"
    /\ pager' = NoPager
    /\ report' = NoReport
    /\ UNCHANGED <<rows, rules, writers>>

-----------------------------------------------------------------------------
(* Rules *)

Before(p, q) == p.priority < q.priority \/ (p.priority = q.priority /\ p.id < q.id)

\* Faulty: the rules in the order of their creation.
Older(p, q) == p.id < q.id

\* The category of the first rule, in the order of list_owned_rules, whose
\* pattern is in the description.
MatchingCategory(ruleset, text) ==
    LET matching == {q \in ruleset : <<text, q.pattern>> \in Contains}
        first == CHOOSE q \in matching : \A p \in matching \ {q} : Before(q, p)
    IN IF matching = {} THEN NoCategory ELSE first.category

\* create_rule: the category exists, and stays.
CreateRule(q) ==
    /\ q \notin rules
    /\ rules' = rules \cup {q}
    /\ overtaken' = [w \in Writer |-> pc[w] # "idle"]
    /\ UNCHANGED <<rows, pc, entry, chosen, known, changes, loaded, pager, report>>

\* Faulty: the rules beat the category that is given.
RulesFirst(e) ==
    IF MatchingCategory(rules, e.text) # NoCategory
      THEN MatchingCategory(rules, e.text) ELSE e.category

ChosenCategory(e) ==
    IF e.category # NoCategory THEN e.category ELSE MatchingCategory(rules, e.text)

\* create_transaction or import_transaction up to the insert: a category that
\* is given is kept, without one the rules are read now.
ChooseCategory(w, e) ==
    /\ pc[w] = "idle" /\ HasRoom
    /\ pc' = [pc EXCEPT ![w] = "entering"]
    /\ entry' = [entry EXCEPT ![w] = e]
    /\ chosen' = [chosen EXCEPT ![w] = ChosenCategory(e)]
    /\ UNCHANGED <<rows, rules, known, changes, loaded, overtaken, pager, report>>

-----------------------------------------------------------------------------
(* Pages: GET /accounts/{account_id}/transactions.  The filters by text and  *)
(* date choose by what never changes of a row, as the account does, and are  *)
(* left out; a category may change between two pages.                        *)

Selected(ledger, account, category) ==
    {t \in ledger : t.account = account /\ category \in {NoCategory, t.category}}

\* Faulty: rows of the same day as the cursor are all taken to be seen.
ByDayOnly(t, c) == Earlier(t.day, c.day)

\* Faulty: the row the cursor was made from is sent again.
WithCursor(t, c) == Earlier(t.day, c.day) \/ (t.day = c.day /\ t.id <= c.id)

\* The WHERE of a page: t comes after the key c.
Beyond(t, c) == Earlier(t.day, c.day) \/ (t.day = c.day /\ t.id < c.id)

\* The ORDER BY: s comes before t.
Precedes(s, t) == Earlier(t.day, s.day) \/ (t.day = s.day /\ t.id < s.id)

Key(t) == [day |-> t.day, id |-> t.id]

\* The first n rows of a set, in the order of the list.
FirstOf(n, set) ==
    {t \in set : Cardinality({s \in set : Precedes(s, t)}) < n}

\* What the pager's filter shows of a ledger, by id.
Shown(ledger) ==
    {t.id : t \in Selected(ledger, pager.account, pager.category)}

\* The steady rows are those the filter has shown all the time.
StillShown(ledger) == [pager EXCEPT !.steady = @ \cap Shown(ledger)]

\* A client begins to list.
OpenList(a, c) ==
    /\ ~IsRead /\ HasRoom
    /\ pager' = [NoPager EXCEPT !.at = "open", !.account = a, !.category = c,
                    !.steady = {t.id : t \in Selected(rows, a, c)}]
    /\ UNCHANGED <<rows, rules, writers, report>>

\* encode_cursor of the last row sent.
CursorOf(items) == Key(CHOOSE t \in items : \A s \in items \ {t} : Precedes(s, t))

\* get_transactions: one row more than the page is asked for, to know whether
\* there is a next page.
Fetched(limit) ==
    FirstOf(limit + 1, {t \in Selected(rows, pager.account, pager.category) :
                            \A c \in pager.cursor : Beyond(t, c)})

NextPage(limit) ==
    /\ pager.at = "open"
    /\ LET items == FirstOf(limit, Fetched(limit))
           more == Cardinality(Fetched(limit)) > limit
       IN pager' = [pager EXCEPT
                !.seen = @ \cup {t.id : t \in items},
                !.at = IF more THEN "open" ELSE "end",
                !.cursor = IF more THEN {CursorOf(items)} ELSE @]
    /\ UNCHANGED <<rows, rules, writers, report>>

-----------------------------------------------------------------------------
(* Reports and exports.                                                     *)

Sum(set) == MapThenSumSet(LAMBDA t : t.amount, set)

\* The rows of the accounts in a currency with start <= occurred_at < end.
InRange(ledger, currency, start, end) ==
    {t \in ledger : Currency[t.account] = currency /\ Within(t.day, start, end)}

Income(set)   == Sum({t \in set : t.amount > 0})

\* Faulty: expenses keep their sign.
SignedExpenses(set) == Sum({t \in set : t.amount < 0})

Expenses(set) == -Sum({t \in set : t.amount < 0})

\* The rows of a month's report.
MonthRows(ledger, currency, m) ==
    InRange(ledger, currency, FirstDay(m), FirstDay(next_month(m)))

\* Faulty: rows without a category are left out, as by an inner join.
Categorised(set) ==
    {[category |-> c, spent |-> Expenses({t \in set : t.category = c})] :
        c \in {t.category : t \in {u \in set : u.amount < 0}} \ {NoCategory}}

\* monthly_categories: the expenses grouped by category, one group of them
\* without a category.
ByCategory(set) ==
    {[category |-> c, spent |-> Expenses({t \in set : t.category = c})] :
        c \in {t.category : t \in {u \in set : u.amount < 0}}}

\* get_monthly_report, the first of its two statements: monthly_totals.
ReportTotals(m, currency) ==
    /\ ~IsRead /\ HasRoom
    /\ LET month == MonthRows(rows, currency, m)
       IN report' = [NoReport EXCEPT !.at = "totals", !.month = m, !.currency = currency,
                        !.income = Income(month), !.expenses = Expenses(month)]
    /\ UNCHANGED <<rows, rules, writers, pager>>

\* The second: monthly_categories.
ReportCategories ==
    /\ report.at = "totals"
    /\ report' = [report EXCEPT !.at = "made",
            !.by_category = ByCategory(MonthRows(rows, report.currency, report.month))]
    /\ UNCHANGED <<rows, rules, writers, pager>>

\* monthly_trend: the months that have rows, with the sums of each and a
\* running sum over them, in one statement.
MonthlyTrend(ledger, currency, start, end) ==
    LET window == InRange(ledger, currency, start, end)
        of(m) == {t \in window : MonthOf(t.day) = m}
    IN {[month |-> m, income |-> Income(of(m)), expenses |-> Expenses(of(m)),
         running_net |-> Sum({t \in window : Earlier(t.day, FirstDay(next_month(m)))})] :
            m \in {MonthOf(t.day) : t \in window}}

\* first[i]: the first of the i months that end with until.
FirstOfTrend(until, months) ==
    LET first[i \in 1 .. months] ==
            IF i = 1 THEN until ELSE previous_month(first[i - 1])
    IN first[months]

\* Faulty: a month without rows shows a running total of zero.
NoCarry(point, i) == 0

\* The running total a month without rows shows: that of the month before.
Carried(point, i) == IF i = 1 THEN 0 ELSE point[i - 1].running_net

\* get_trend: the months without rows are filled in.
Trend(ledger, currency, until, months) ==
    LET first == FirstOfTrend(until, months)
        active == MonthlyTrend(ledger, currency, FirstDay(first), FirstDay(next_month(until)))
        point[i \in 1 .. months] ==
            LET month == IF i = 1 THEN first ELSE next_month(point[i - 1].month)
            IN IF \E a \in active : a.month = month
                 THEN CHOOSE a \in active : a.month = month
                 ELSE [month |-> month, income |-> 0, expenses |-> 0,
                       running_net |-> Carried(point, i)]
    IN point

\* Faulty: the last day is left out.
ExclusiveRange(since, until) == <<since, until>>

\* An inclusive range of days as an exclusive one.  A range that ends before it
\* begins is refused with 422, and the export of 9999-12-31 fails.
export_range(since, until) == <<since, DayAfter(until)>>

\* export_transactions: one statement over all accounts.
Export(ledger, since, until) ==
    LET range == export_range(since, until)
    IN {t \in ledger : Within(t.day, range[1], range[2])}

\* list_budget_summaries and calculate_spent: the expenses in a category and a
\* month, whatever the currency of the account.
BudgetSpent(ledger, category, m) ==
    LET bounds == month_bounds(m)
    IN Expenses({t \in ledger : t.category = category /\ Within(t.day, bounds[1], bounds[2])})

-----------------------------------------------------------------------------
(* Commits of rows.                                                         *)

\* A request ends; its writer may make another.
Ends(w) ==
    /\ pc' = [pc EXCEPT ![w] = "idle"]
    /\ entry' = [entry EXCEPT ![w] = NoCategory]
    /\ chosen' = [chosen EXCEPT ![w] = NoCategory]
    /\ known' = [known EXCEPT ![w] = {}]
    /\ changes' = [changes EXCEPT ![w] = {}]
    /\ loaded' = [loaded EXCEPT ![w] = {}]

\* add_transaction with an id of its own, and the commit.
CommitRow(w, id) ==
    /\ pc[w] = "entering"
    /\ id \notin {t.id : t \in rows}
    /\ LET row == [id |-> id, account |-> entry[w].account, day |-> entry[w].day,
                   amount |-> entry[w].amount, text |-> entry[w].text,
                   category |-> chosen[w]]
       IN /\ rows' = rows \cup {row}
          /\ report' = IF report.at = "totals"
                         THEN [report EXCEPT !.meanwhile = @ \cup {row}] ELSE report
    /\ Ends(w)
    /\ overtaken' = [overtaken EXCEPT ![w] = FALSE]
    /\ UNCHANGED <<rules, pager>>

\* recategorize_transactions reads the rules,
ReadRules(w) ==
    /\ pc[w] = "idle" /\ HasRoom
    /\ pc' = [pc EXCEPT ![w] = "recategorizing"]
    /\ known' = [known EXCEPT ![w] = rules]
    /\ UNCHANGED <<rows, rules, entry, chosen, changes, loaded, overtaken, pager, report>>

\* Faulty: only rows without a category get one.
OnlyUncategorised(w) ==
    {[id |-> t.id, category |-> MatchingCategory(known[w], t.text)] :
        t \in {u \in rows : u.category = NoCategory}}

\* The rows whose category is not what the rules give, with what they give.
Changed(w) ==
    {[id |-> t.id, category |-> MatchingCategory(known[w], t.text)] :
        t \in {u \in rows : u.category # MatchingCategory(known[w], u.text)}}

\* then the rows, and notes which get another category than they have now;
ReadRows(w) ==
    /\ pc[w] = "recategorizing"
    /\ pc' = [pc EXCEPT ![w] = "loaded"]
    /\ changes' = [changes EXCEPT ![w] = Changed(w)]
    /\ loaded' = [loaded EXCEPT ![w] = {t.id : t \in rows}]
    /\ known' = [known EXCEPT ![w] = {}]
    /\ UNCHANGED <<rows, rules, entry, chosen, overtaken, pager, report>>

\* the commit flushes an UPDATE by id for each of these.
Recategorize(w) ==
    /\ pc[w] = "loaded"
    /\ rows' = {IF \E c \in changes[w] : c.id = t.id
                  THEN [t EXCEPT !.category =
                           (CHOOSE c \in changes[w] : c.id = t.id).category]
                  ELSE t : t \in rows}
    /\ Ends(w)
    /\ overtaken' = [v \in Writer |-> v # w /\ pc[v] # "idle"
                                      /\ (overtaken[v] \/ changes[w] # {})]
    /\ pager' = StillShown(rows')
    /\ UNCHANGED <<rules, report>>

Next ==
    \/ \E q \in NewRule : CreateRule(q)
    \/ \E w \in Writer :
          \/ \E e \in Entry : ChooseCategory(w, e)
          \/ \E id \in Id : CommitRow(w, id)
          \/ ReadRules(w) \/ ReadRows(w) \/ Recategorize(w)
    \/ \E f \in Filter : OpenList(f[1], f[2])
    \/ \E limit \in Limit : NextPage(limit)
    \/ \E m \in Month, c \in {Currency[a] : a \in Account} : ReportTotals(m, c)
    \/ ReportCategories
    \/ PutAway

Spec == Init /\ [][Next]_vars

-----------------------------------------------------------------------------
(* Properties.                                                              *)

\* A list never shows a row twice, and each page comes after all pages before
\* it, whatever is inserted and re-categorised in between (get_transactions).
PagesGoOn ==
    [][\A limit \in Limit : NextPage(limit) =>
          \A s, t \in rows :
             (s.id \in pager.seen /\ t \in FirstOf(limit, Fetched(limit))) =>
                Precedes(s, t)]_vars

\* A list read to its end has shown every row that matched its filter from the
\* first page to the last (the cursor, and the one row more of each page).
PagesHideNothing == pager.at = "end" => pager.steady \subseteq pager.seen

\* What groups of expenses spend together.
SpentIn(groups) == MapThenSumSet(LAMBDA g : g.spent, groups)

\* What the categories of a report spend is its expenses, and on top of them
\* only what was committed between its two statements: re-categorising moves
\* expenses, and loses and doubles none (get_monthly_report).
ReportAddsUp ==
    report.at = "made" =>
       SpentIn(report.by_category)
         = report.expenses
           + Expenses(MonthRows(report.meanwhile, report.currency, report.month))

\* The category of the least rule that matches, said without an order of rules.
ByRules(c, text) ==
    LET matching == {q \in rules : <<text, q.pattern>> \in Contains}
        least == {q \in matching : \A p \in matching :
                     q.priority < p.priority \/ (q.priority = p.priority /\ q.id <= p.id)}
    IN IF matching = {} THEN c = NoCategory ELSE \E q \in least : c = q.category

\* A request no rule and no re-categorising overtakes leaves its rows with the
\* category the rules give them: the new row, unless its category was given,
\* and when re-categorising every row it has read, new rows or not in between.
FollowsRules ==
    [][\A w \in Writer : (pc'[w] = "idle" /\ ~overtaken[w]) =>
          /\ pc[w] = "entering" =>
                \A t \in rows' \ rows :
                   IF entry[w].category # NoCategory
                     THEN t.category = entry[w].category
                     ELSE ByRules(t.category, t.text)
          /\ pc[w] = "loaded" =>
                \A t \in rows' : t.id \in loaded[w] =>
                   ByRules(t.category, t.text)]_vars

\* Nothing is under way.  Trends and exports are one statement each, so what
\* they answer depends on the rows only, and every ledger is quiet at times.
Quiet == ~IsRead /\ \A w \in Writer : pc[w] = "idle"

\* Every point of a trend is its month's own report, and its running total is
\* the sum of all rows from the first month on, also across empty months and
\* the turn of the year (get_trend, monthly_trend, get_monthly_report).
TrendAddsUp ==
    Quiet => \A until \in Month, months \in 1 .. 4, c \in {Currency[a] : a \in Account} :
       LET trend == Trend(rows, c, until, months)
           since == Ordinal(until) - months
           Rows(p, q) == {t \in rows : /\ Currency[t.account] = c
                                       /\ Ordinal(MonthOf(t.day)) \in p .. q}
       IN \A i \in 1 .. months :
             /\ Ordinal(trend[i].month) = since + i
             /\ trend[i].income - trend[i].expenses = Sum(Rows(since + i, since + i))
             /\ trend[i].running_net = Sum(Rows(since + 1, since + i))
             /\ LET month == MonthRows(rows, c, trend[i].month)
                IN /\ trend[i].income = Income(month)
                   /\ trend[i].expenses = Expenses(month)

\* Exporting a month from its first to its last day gives the rows its reports
\* are of, in all currencies (export_range against next_month).
ExportIsTheMonth ==
    Quiet => \A m \in Month :
       LET exported == Export(rows, FirstDay(m), <<m[1], m[2], DaysIn(m)>>)
       IN exported = UNION {MonthRows(rows, c, m) : c \in {Currency[a] : a \in Account}}

\* What the reports of a month say is spent in a category, all currencies together.
ReportedSpent(category, m) ==
    MapThenSumSet(LAMBDA u : SpentIn({g \in ByCategory(MonthRows(rows, u, m)) :
                                         g.category = category}),
                  {Currency[a] : a \in Account})

\* What GET /budgets says is spent in a category and month, and what decides
\* about an alert, is what the month's reports say of it, all currencies
\* together: two ways to cut a month and to group its rows, which must agree
\* also at the turn of the year.
BudgetsMatchReports ==
    Quiet => \A m \in Month, c \in Category :
       BudgetSpent(rows, c, m) = ReportedSpent(c, m)
=============================================================================
