# A verification project for kese

kese is a personal-finance API: FastAPI over PostgreSQL, every request one
database session at READ COMMITTED, plus a worker that imports uploaded bank
statements from a queue in the database. These TLA+ modules model the parts
where requests, workers, browsers and the central bank meet; TLC checks them on
small instances, and TLAPS proves their safety, and both refinements, for every
instance. Paths below are relative to the repository's `src/kese/`.

## The system

| Component | State it keeps | Operations | What makes it hard |
|---|---|---|---|
| Statement import (`worker.py`, `services/statements.py`) | table `statements`: content, status, counters; table `transactions` with a unique fingerprint | upload; `run_once`: claim the newest pending job with `FOR UPDATE SKIP LOCKED`, import row by row under savepoints, commit | several workers with overlapping files, inserts that wait for other transactions, deadlocks, crashes, errors nothing catches |
| Transactions and budgets (`services/transactions.py`, `services/budgets.py`) | `transactions`, `budgets`, `budget_events` | create a transaction (rules choose a category, the crossing check records an event), create a budget, re-categorise, list | check-then-write without locks: requests that do not see each other |
| Event stream (`api/budgets.py`, `repositories/budgets.py`) | a cursor in the stream and the client's Last-Event-ID | send what is unread, wait, look again, close; reconnect | events become visible in another order than they are stamped; connections break |
| Exchange rates (`services/exchange_rates.py`) | table `exchange_rates`, unique by currency and requested day | look up, fetch with retries, fall back day by day, store a bulletin, re-read; convert | concurrent misses, a bank that is silent or publishes meanwhile |
| Authentication (`api/auth.py`, `core/security.py`) | table `users`, signed tokens, login attempts in memory | register, login, refresh, me | a sliding window per process, tokens checked before an await and dated after it, tokens that outlive a secret, two registrations at once |
| Categories and rules | tables `categories`, `rules` | create, list; rules are matched by priority | explicit categories against rules, re-categorising |
| Reports, exports, paging, budget summaries | none of their own | month and trend reports, CSV/XLSX export, keyset pages, spending per budget | several queries without one snapshot, month arithmetic, inserts between pages |
| Requests and their sessions (`main.py`, `core/database.py`, `api/ready.py`) | the engine's pool of connections | a session per request, readiness, answers to failures, shutdown | requests that sleep, wait for the bank or need two connections; clients that leave; a database that stops |
| Accounts, settings, health, schemas, sample data | `accounts` | ownership checks, access log | little |

The components meet in the database. The worker and the API both write
`transactions`; the crossing check reads what both have committed and writes
`budget_events`; the stream reads those. Nothing else is shared, except the
login attempts and the pool of connections, which live in one process.

Correctness, per component:

- import: a line is stored once and never lost, counters are true, a failed
  attempt leaves nothing, a finished job is final, every job is over in the end,
  and parallel workers amount to one worker;
- budgets: alerts are true, and there is one for each crossing;
- stream: every event reaches the client once, in order;
- rates: one answer per currency and day, from the last bulletin; bulletins are
  stored whole; every request ends;
- authentication: a session ends, whatever is refreshed, and where a secret is
  configured lasts as long as it should; no window holds more attempts than the
  limit;
- reading: pages neither repeat nor hide rows; totals add up, and budgets count
  what reports count;
- serving: connections come back on every path; nothing waits for ever; an
  outage that is over fails nobody.

`PROJECT.json` lists the hazards behind these at the lines where they bite.

## The modules

**StatementData** holds what both import modules talk about. A file is the
sequence of what its reader yields: a `Line` (one well-formed row), or
`Malformed` (the reader yields None), `Broken` (an error `_process_statement`
catches around its loop), `Fatal` (an error nothing catches: a value the
database refuses, `csv.Error`, an error of the spreadsheet library that is not
in the list). The fingerprint is modelled as the pair of account and line: the
digested text is injective in the two, and SHA-256 is taken to be.

**StatementImport** is the code. `QueueStatement` is the upload. `Claim` is the
SELECT of `run_once`. Each row is one step, `ImportRow`, `DuplicateRow` or
`FailRow`; rows inserted and not committed are in `inserted[w]`. An insert of a
fingerprint another open transaction holds waits (`Holders`), and continues as a
duplicate or an insert when that transaction ends; workers waiting in a ring are
aborted (`DeadlockAbort`). `FinishDone` and `FinishBroken` commit rows, counters
and status together; `AbortFatal`, `DeadlockAbort` and `Crash` roll all of it
back. Rules only choose the category of a row and are left out.

**SerialImport** is what the import promises: queued files are imported whole,
one at a time, in any order. `ImportIsSerial` says StatementImport implements
it: `Serial` instantiates it with the committed tables, and hides what the
workers hold.

**StatementImportInv** states the inductive invariant, and `SerialInv`, what the
refinement needs besides; **StatementImportProofs** proves them, the promises and
the refinement.

**BudgetAlerts** splits `create_transaction` into the four statements between
which other sessions commit: `AddTransaction` (insert and flush), `FindBudget`,
`CheckCrossing` (the sum, and the event), `Commit`. A step sees the committed
rows and its own. `ImportStatement` and `Recategorize` are the other writers of
spending. Amounts are in tenths of a cent so that the rounding of NUMERIC(20, 2)
is visible. `recategorized` is a ghost: the properties need to know that rows
never lost their category. Requests refused with 404 or 409 change nothing and
have no action. **BudgetAlertsProofs** has the proofs, over the sums of
**SumTheorems**, which knows nothing of kese: what `MapThenSumSet` gives for one
more element, a union, a subset.

**EventStream** has the requests that record events (`Begin` stamps
`created_at`, `Commit` makes the event visible), the generator `event_stream`
statement by statement (`Query`, `Send`, `Awake`, `Close`), and the client
(`Connect` with the id of the last event received, `Receive`, `Drop`).
`overtaken` is a ghost: the events committed after one that follows them in the
stream's order. `Ordered`, the ORDER BY, is the sequence of all its elements that
is in order, chosen rather than computed, so that the proofs can speak of it.

**RateCache** follows `get_rate`: `Lookup`, the attempts to fetch
(`NetworkFailure`, `BadAnswer`, `NoBulletin`, `Fetched`), `save_rates` currency
by currency (`Select`, `Insert`), `CommitRates`, `Reread`. The unique constraint
makes a second insert of a key wait and then fail (`InsertRefused`). `/convert`
is a request with two currencies. `Publish`, by the bank, is external. A fallback
that runs out and a bank that stays silent are the same error in the code,
`BulletinUnavailableError`; the model ends the request `exhausted` or
`unavailable`, so that a property can speak of the first.

**RateBook** is what the rates promise: a book into which a bulletin is entered
for a day in one step, leaving out what the book has, and from which answers are
read. `RatesAreABook` says RateCache implements it, with the committed rows as
the book: misses, retries and open transactions are hidden, and a commit is one
`Store` of a bulletin near enough to the day. The new rows of a commit are
exactly the currencies of one bulletin that had no entry, so a bulletin stored
in part, one rate corrected, or an answer of a rate nobody committed is a step
the book does not have.

**AuthSessions** has registration as a transaction (`FlushUser`, `CommitUser`),
the tokens as records (`NewToken`, `Decodes`) and the limiter (`Recent`,
`IsRefused`, `RetryAfter`). A refresh and a login are cut at their one await, the
look-up of the user, which may wait for a connection and for the database: a
refresh decodes its token (`CheckRefresh`), and signs the new one by a clock read
after the look-up (`IssueAccess`), when the old one may have expired; a login is
counted (`Admit`), and issues its tokens after it (`IssueBoth`). Time passes
between the two steps, other requests go on, and a restart cuts the request off.
What runs without an await is one step and takes no time: the handler of a login
does not yield between looking at the queue and appending to it, and the check of
the password (Argon2, a fraction of a second) is part of `IssueBoth`.
`Recent` pops from the front of the queue as long as the first attempt is too
old, as the code does; that this leaves exactly the attempts within the window
is proved, and needs the queue to be in order. `Restart` is `create_app` again,
with the secret `ResolveSecret` gives. `since`, `checked` and `issued` in a token
and `admitted` are ghosts. `Tick` keeps a token until a tick past its lifetime and
then drops it, because nothing can be done with it any more. **MCAuthSessions**
adds the symmetry of registrations, requests and processes.

**Calendar** has UTC days and months, with the two computations of a month's
bounds (`next_month` of the reports, `month_bounds` of the budgets), **Reading**
the ledger of one user while it is written and read. `ChooseCategory` and
`CommitRow` are `create_transaction` (and a row of `import_transaction`) with
the rules read before the insert; `ReadRules`, `ReadRows` and `Recategorize` are
the three database steps of `recategorize_transactions`. A list is a client that
asks for `NextPage` after `NextPage` with the cursor it got; commits come in
between. The monthly report is two statements, `ReportTotals` and
`ReportCategories`. A trend and an export are one statement each and therefore
operators over the rows, and so is `BudgetSpent`, the expenses a budget is
compared with. `steady` of the pager, `meanwhile` of the report, `loaded` and
`overtaken` are ghosts. Times are whole days; ownership filters, filters of a
list by text and date, rank and share are left out. **ReadingProofs** has the
proofs.

**Serving** has the requests of one process, the pool and the database. `kind`
says what a request asks for: a plain request, readiness, a rate that is not
cached, an event stream, a CSV export. `Checkout` is the pool's: an idle
connection, pinged and replaced if the database has dropped it (`stale`), or a
new one, if there is `Room`; otherwise `PoolTimeout` comes. A rate commits in
the middle and needs a connection again (`CommitRates`); a stream and an export
send their header and go on (`Begin`), the stream with the request's connection,
the export waiting for one of its own besides (`second`, then `reading`). `Fail`
is what every failure does: the sessions are closed, and the client is told 500,
503 by readiness, or nothing but a response that breaks off (`cut`), since its
status 200 is out already. `Disconnect` leaves the generator of an export, if it
was suspended while it sent, with its session open (`orphan`) until `Finalise`.
`out` is the pool's own count; `Held` is what each request must have, going by
where it is, and `ConnectionsComeBack` relates the two. `disturbed` is a ghost:
the requests during which the database was not up all the time. The pool, the
event loop and the database are external, modelled from how
`create_async_engine` and the handlers use them.

The operators marked `Faulty` model plausible mistakes, each beside the
definition it spoils. No specification uses them; they are there to show that
every property can be broken.

## The runs

| Run | Instance | Shows |
|---|---|---|
| StatementImportPairs | 2 jobs, 2 workers, 2 users, every kind of file, 1 crash | safety of the import, the invariant of the proofs, refinement of SerialImport; every job is over in the end unless a poisoned file is queued |
| StatementImportPoison | 2 jobs, 1 worker, a fatal row | **violated**: the job with the row, and every older one, stays pending |
| BudgetAlerts | 3 requests at once, an import, re-categorising | alerts are true; an undisturbed request alerts exactly at a crossing |
| BudgetAlertsDouble | 3 requests, 2 at once | **violated**: one crossing, two alerts |
| BudgetAlertsSubCent | 2 requests, one at a time | **violated**: a crossing by less than a cent, no alert |
| EventStream | 3 events, 2 open requests, 1 broken connection | in order, once, and all that commits in order arrives |
| EventStreamPassedOver | 2 events, 2 open requests | **violated**: a late commit is never sent |
| EventStreamDeaf | 1 event | **violated**: the last wait is not followed by a look |
| RateCache | 2 requests, days 3, 4 and 7, bulletins of days 1, 2 and 4 | answers agree and are of the last bulletin; the fallback runs out only where it may; every request ends; refinement of RateBook |
| AuthSessions | 2 registrations, 1 client, 2 processes with 1 restart, one login or refresh at a time, a window of 1.5 s in half seconds | one user per email; sessions end, and last; the limiter counts exactly |
| Reading | 3 rows of 3 kinds, 2 rules, 2 requests at once | lists neither repeat nor hide rows; reports, trends, exports and budgets agree; categories follow the rules |
| Serving | 2 exports, 1 rate, 1 stream or readiness check, a pool of 1 + 1 connections, 1 outage | connections come back; only exports wedge the pool; an outage that is over fails nobody; every request ends |

Why the bounds are enough. Two workers and two crossed files already give a
wait, a deadlock, a duplicate of a committed and of an uncommitted row, and a
duplicate within a file; two owners give the same line under two accounts. Three
requests are the least with which spending can be near the limit while two
overlap. Two overlapping requests reorder two events, and the third event is
there to come after them. Of the rates' days, day 3 has no bulletin but two
before it, so that falling back too far shows, and the bulletin of day 4 comes
out while it is asked for; the bulletin of day 4 is the last that day 6 could fall
back to, and day 7 has none within reach; two bulletins list the currencies in
opposite order, which is what makes two requests wait for each other. The clock of
AuthSessions runs long enough for a refresh to be checked in time and issued too
late, for the token it bought to expire, and for a window to pass after a full
one; one refresh after another at either process is all a chain needs, since
requests share nothing but the clock and the tokens; two processes, one of which
starts again, have all the secrets there can be: the configured one, two drawn, a
new one. Three tokens are a login's pair and one bought with it. `LIMIT`, `WINDOW`, `ACCESS` and `REFRESH` are settings,
scaled down; `TICK` makes fractions of a second visible. In Reading, three rows
make two pages of two with a row to insert between them, and rows of the same
day leave the order to the ids; the two rules match the same text, and the one
created last goes first; months from a November to a February cross the turn of
the year, have empty ones among them, and end with a leap day. In
StatementImportPairs both uploads have the same time, so that their ids decide
which is newer; StatementImportPoison has two times. In Serving, two connections
are enough for two exports to take both and wait for each other, one of the
connections being kept by the pool and one being overflow; beside them a rate
has to wait, and a stream or readiness finds no room; a plain request differs
from readiness in the answer to a failure only and is not in the instance.
Connections the one outage leaves dead in the pool meet requests that arrive
after it. SQLAlchemy's pool has 5 + 10 connections unless it is told otherwise,
and it is not. `EndOfTime`, `MaxRestarts`, `MaxTokens`, `MaxCrashes`, `MaxDrops`, `MaxOpen`,
`MaxConcurrent`, `MaxOutages`, `PoolSize`, `MaxOverflow`, `MAX_RETRIES` and
`MAX_FALLBACK_DAYS` are bounds of the instances; the last two are constants of
the code, smaller here.

`CHECK_DEADLOCK FALSE` is set where the system may stop: everything uploaded and
imported, every request answered.

### Fairness

- Import: `run_once` is called again and again, a run goes on to its end, and
  PostgreSQL breaks a deadlock. A worker is in one of these three situations at
  a time, so weak fairness of `Claim`, `Finish` and `DeadlockAbort` together is
  enough. A row that waits is enabled each time the holder ends; PostgreSQL
  wakes a waiting insert then, so no other transaction overtakes it for ever:
  strong fairness for each position of a file. The repository calls the worker a
  function and leaves running it to its user; the run shows what follows if it
  is run.
- Stream: the server goes on, the network delivers, an EventSource reconnects.
  Connections break at most `MaxDrops` times.
- Rates: a request goes on. The bank need not ever publish or answer.
- Serving: weak fairness of `Serve(r)`, what the process does for a request. A
  connection is refused or made, a wait for the pool times out, the bank's
  answer has a timeout, a stream closes after an idle wait (a user's budgets can
  be exceeded only so often), a client reads or goes away, an abandoned
  generator is finalised. The database need not come back. A client that neither
  reads nor leaves would keep its connection; TCP's own timeouts are taken to
  end that.

### What the violations say

Each quotes the line it contradicts in `PROJECT.json`, "findings".

1. *Poison row.* `_process_statement` does not catch what the database says of a
   description of more than 1000 characters or an amount beyond NUMERIC(20, 2).
   The job rolls back to pending and, being the newest, is claimed again by
   every run.
2. *Double alert.* 300 of 500 spent; two requests of 300 overlap; each sums 600
   and reports the crossing. The mirror image, a crossing nobody reports, needs
   two overlapping requests of 300 and nothing spent.
3. *Sub-cent amounts.* The sum is of rounded rows, the amount subtracted from it
   is not rounded.
4. *Passed over.* `created_at` is the begin of the writing transaction, the
   cursor goes by it, visibility goes by the commit.
5. *Deaf wait.* After the last wait the stream closes without a query.

`JobsFinishUnlessPoisoned` is the other half of the first: nothing but a
poisoned file keeps a job from being over, neither crashes nor deadlocks nor a
broken file, when finitely many files are uploaded. Under a steady stream of
uploads the order by newest may postpone an old job for ever, poisoned or not;
the property does not speak of that.

Things the models show that contradict no document: as many CSV exports at once
as the pool has connections wait for each other, each with status 200 sent,
until the pool's timeout cuts them all, and every other request, readiness
included, has to wait with them or answers 500 or 503 although the database is
well; an export that fails half way looks to its client like one that is
complete, but for the connection; a budget adds up amounts whatever the currency
of the account, where a report takes one currency at a time; imports and
re-categorising exceed budgets without any alert; a rate asked for before the
bank publishes is stored for that day for good; the categories of a report may
spend more than its expenses, by what is committed between its two statements;
of two overlapping re-categorisings the one with the older rules may have the
last word; an access token may outlive the refresh token that bought it by its own
lifetime and, besides, by as long as the look-up of the user took. The README of the repository says that an explicit category beats the
rules: it does when a row is created, and re-categorising replaces it.

What the properties leave open, because the code does. AlertsExactlyAtCrossings and
FollowsRules are stated of requests that nothing overtakes: they check the boundary
of a crossing and what the rules give, and say nothing of requests that race;
NoFalseAlarm holds of those too, and OneAlertPerBudget is the race's own
(violated) property. WedgedOnlyByExports and FailuresHaveACause do not forbid that
streams and slow rates starve other requests of connections: want of room is a
cause of failure. What holds of the starved is EveryRequestEnds.

## The proofs

Every theorem is of the specification a run checks, for all values of the
constants: any number of jobs, workers, requests, clients, connections, files,
amounts. The assumptions are the named ASSUMEs of the modules and no others but
where a theorem says so: ids, times and bounds are numbers, lengths are not zero, the
kinds of item differ, accounts have an owner, files are finite sequences of items,
entered days are days of the calendar, rules are known by their ids, and the
requests of Serving, the processes of AuthSessions and the accounts of Reading are
finitely many, because a pool, a clock and a sum count them.

| Module | Invariants and step properties proved | Implements |
|---|---|---|
| StatementImportProofs | TypeOK, SerialInv, SingleProcessor, NoDoubleImport, NothingLost, TallyIsTrue, AllOrNothing, FinishedIsFinal | SerialImport |
| BudgetAlertsProofs | TypeOK, NoFalseAlarm, AlertsExactlyAtCrossings; OneAlertPerBudget and EveryCrossingAlerts under the hypotheses below | |
| EventStreamProofs | TypeOK, InOrderWithoutRepeats, OnlyOvertakenPassedOver | |
| RateCacheProofs | TypeOK, SettledRatesAreLast, AnswersAgree | RateBook |
| AuthSessionsProofs | TypeOK, RegisteredOnce, SessionsEnd, SessionsLast, LimiterIsExact, RetryAfterSuffices | |
| ReadingProofs | TypeOK, PagesHideNothing, PagesGoOn, FollowsRules, ReportAddsUp, TrendAddsUp, ExportIsTheMonth, BudgetsMatchReports | |
| ServingProofs | TypeOK, ConnectionsComeBack, WedgedOnlyByExports, FailuresHaveACause | |

None of the promises about what is under way is inductive; each module of proofs begins with, or extends
a module of, the `InductiveInv` that is. A lemma per kind of step shows that it
is kept, first for the types, then for the rest.

*Import.* That a finished job lost nothing depends on what held in the middle of
a worker's transaction. `UniqueKeys` and `KeysAreTrue` cover committed and
uncommitted rows alike, because the unique index does; NoDoubleImport follows.
`PrefixIsStored` says every line a worker has gone past is committed or in its
own hands, never in another's: this is why a worker has to wait, and from it
NothingLost follows at the commit. `CountIsTrue` ties the local counters to the
rows inserted and the position; `InsertedIsOwn` and `IdleIsClean` tie the rows in
hand to the job; `LockedIsPending` and `SingleProcessor` make the job at a commit
one that nobody else finishes, which gives TallyIsTrue and FinishedIsFinal. The
end of a transaction is treated once for all outcomes.

*One worker for many.* A commit has to be one `Import` of SerialImport, which
computes the rows of a file from the table and the file alone. `SerialInv` says
that a worker's rows are, at every position, those lines whose fingerprint
neither the table nor an earlier line of the file has (`RowsAreFirst`; here the
waiting for other transactions enters), and that what it counted as failed was
malformed. Every other step but an upload leaves the committed tables alone.

*Alerts.* `FoundIsTrue` says the budget a request has found is still the budget,
since no budget is ever changed; `AlertsAreRight` that its event is what it has
read says; `SpendingStays` that spending has not fallen below what it has read,
since rows are only added, and a sum of expenses grows with its rows
(`SpentGrows`, from `SumOfSubset`). NoFalseAlarm then survives every commit. For
AlertsExactlyAtCrossings the sum before and after the commit is compared
(`SpentOneMore`); there the amounts have to be whole cents (`WholeAmounts`), and
BudgetAlertsSubCent shows that they have to. With `MaxConcurrent = 1` besides,
`Undisturbed` is an invariant, and OneAlertPerBudget and EveryCrossingAlerts hold:
overlapping requests and parts of a cent are all there is to the findings 2 and 3.

*Stream.* `Flow` is all that was received, is on the wire and waits to be sent.
It is in order (`FlowInOrder`), has no gap but for overtaken events
(`FlowIsComplete`), and the cursor of an open connection is its last event
(`CursorIsSent`), whatever number of connections it took. That the query's result
is a sequence with all its elements in order needs no induction: the position of
an event is the number of those before it.

*Rates.* `OneRowPerKey` is the unique constraint over committed and uncommitted
rows; `LookedBack` and `Handled` say what a request on its way knows of the bank
and of its bulletin: there was nothing from the start between the day asked for
and the day it has come to, and each currency done has a row it can see; `RanOut`
keeps the first for a request whose fallback has run out. So the
rows of a commit are of the last bulletin, are all that were missing, and are one
`Store` of RateBook; asking, answering and publishing are steps of the book too,
and all others stutter.

*Authentication.* `EmailsAreHeld` is the unique constraint while a registration
is open. `TokensAreTrue` and `RefreshesAreTrue` bound a token, and a refresh on its
way, by the login they go back to: a refresh was checked within REFRESH of it, an
access token issued at most its own refresh's wait after the check, and the waits
of earlier refreshes are in no token that is used again, since an access token
buys nothing. `SecretIsShared`, the configured secret in every process and every
token, gives SessionsLast. `QueuesAreTrue`
says a queue of attempts is in order and what it has within the window is what
was admitted, so that popping from the front forgets nothing that counts.
WaitingHelps is arithmetic: Retry-After, cut to whole seconds, plus one second,
reaches past the oldest attempt.

*Lists.* `SeenAreBehind` and `UnseenAreBeyond` say the cursor divides what was seen
from what is steady and was not; a row that is inserted has an id no list has
seen, and one that is re-categorised keeps its place. `Page` is the lemma about
`get_transactions`: a page that is not the last ends with a row that all the rest
comes after (`FirstOfIsInitial`), and a page shorter than asked for by the one row
more is all the rest (`FirstOfAll`, by the first row it would leave out). It needs
the list's order to be total on a ledger (`InLedger`), which it is because ids
differ. The theorem PagesAreFull, a property no run has, adds that each page but
the last shows as many new rows as it was asked for.

*Rules.* `HasReadRules` and `WillFollow` say that a request not overtaken knows the
rules as they are, and that the changes it has noted, made to the rows it has read,
give what the rules give. A commit of rules or of changed categories overtakes all
others; one that changes nothing must not, and does not disturb (`NothingChanges`).
`FirstRule` finds the rule that `ORDER BY priority, id` puts first.

*Reports.* `ReportFits` holds between the statements of a report: what its month
spends now is what it said, and what was committed since. A row that is committed
adds the same to both sides (`OneMoreCost`), re-categorising moves rows and keeps
their amounts (`CostsAfter`, from `SumOfImage`), and the groups of a set add up to
it (`CategoriesAddUp`, from `SumOfGroups`). BudgetsMatchReports groups the same
rows by currency.

*Trends.* Months are numbered (`Ordinal`, `MonthNo`), and a day is before a month
if its own month is (`DaysAndMonths`); so both computations of a month, and the
window of a trend, cut the same rows. `TrendIsPoints` gives the recursive filling
of `get_trend` in closed form, for trends of any length: the closed form satisfies
the recursion, and whatever does is equal to it, by the first point where it would
not be.

*Serving.* ConnectionsComeBack equates the pool's own count with the sum of what
the requests hold by where they are; each step moves one connection on both
sides. `SecondsAreExports` makes those who hold one connection and wait for
another exports; `OutagesAreNoticed` gives every failure its cause.

*Sums.* The library's induction theorems take an operator as a parameter and
cannot be used. SumTheorems argues by a least counterexample among the subsets of
a finite set instead, which the well-foundedness of the strict subset order gives
(`Least`), and shows first that the function by which the fold is defined exists
and does not depend on the set it was begun with.

StatementImportPairs checks the invariant of the import's proofs, as part of
SerialInv. The other inductive invariants were checked by TLC on the instance of
their component's run before they were proved, and are no properties of the runs,
which check what follows from them.

Only model-checked: liveness (JobsFinishUnlessPoisoned, EventuallyReceived, and
EveryRequestEnds of RateCache and of Serving), which is out of the prover's reach.

## The plan

1. Done: the import, its abstraction, its invariant and proofs; budgets; stream;
   rates; authentication; reading.
2. Done: the connection pool under exports, streams and slow rates, with outages
   and clients that leave; the abstract book of rates; liveness of the import
   with every kind of file; what budgets count.
3. Done: the proofs of every safety property that the runs check, and of both
   refinements.
4. To come: the liveness arguments as far as they can be stated without ENABLED,
   that is, measures that every fair step decreases (rows left of a file, attempts
   left of a rate).

## Not modelled

Creating accounts and categories: one insert each, of a category with a unique
constraint like that of registration. Ownership is fixed when a row is inserted
and nothing is ever deleted, so the checks of `find_owned_account` and
`find_owned_category` cannot go stale; the models have the rows of users who
pass them. Logging, the text of the error envelope, the parsing of settings,
schemas, migrations, the health answer and the generator of sample data: they
keep no state whose order matters. Of what is modelled: the text of rows and
amounts (a fingerprint of `10.0` differs from one of `10.00`), the arithmetic of
a conversion, times of day, and network time. In Serving, the handlers' work on
the database, which the other modules have; a conversion that misses the cache
twice and so commits twice; the engine each `run_once` makes for itself; and the
disposal of the engine at shutdown.
