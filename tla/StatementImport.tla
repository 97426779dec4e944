-------------------------- MODULE StatementImport --------------------------
(***************************************************************************)
(* The queue of statement jobs and the workers that import them            *)
(* (services/statements.py, worker.py, services/transactions.py).          *)
(*                                                                         *)
(* A worker runs run_once() again and again.  One run is one PostgreSQL    *)
(* transaction at READ COMMITTED: it locks the newest pending job no other *)
(* worker has locked, inserts the job's rows one by one, each under a      *)
(* savepoint, and commits rows, counters and status together.  What it has *)
(* inserted and not yet committed is kept in inserted[w]; an insert of a   *)
(* fingerprint another open transaction has inserted waits for it to end.  *)
(***************************************************************************)
EXTENDS StatementData, FiniteSets

CONSTANTS
    Worker,       \* the processes that call run_once()
    MaxCrashes    \* how many times a worker may be killed

ASSUME WorkerAssumption == None \notin Worker
ASSUME CrashAssumption  == MaxCrashes \in Nat

VARIABLES
    status,         \* status[s]: state of job s, "absent" before its upload
    upload,         \* upload[s]: what was uploaded, None before
    tally,          \* tally[s]: the job's counters
    transactions,   \* the committed rows of the table transactions
    job,            \* job[w]: the job worker w has locked, or None
    pos,            \* pos[w]: how many rows of it w has handled
    inserted,       \* inserted[w]: rows w inserted and did not commit yet
    count,          \* count[w]: w's local counters
    crashes         \* how often a worker was killed so far

table == <<status, upload, tally, transactions>>
work  == <<job, pos, inserted, count>>
vars  == <<status, upload, tally, transactions, job, pos, inserted, count, crashes>>

TypeOK ==
    /\ status \in [Statement -> Status]
    /\ upload \in [Statement -> Upload \cup {None}]
    /\ tally \in [Statement -> Tally]
    /\ transactions \subseteq Transaction
    /\ job \in [Worker -> Statement \cup {None}]
    /\ pos \in [Worker -> Nat]
    /\ inserted \in [Worker -> SUBSET Transaction]
    /\ count \in [Worker -> Tally]
    /\ crashes \in 0 .. MaxCrashes

Init ==
    /\ status = [s \in Statement |-> "absent"]
    /\ upload = [s \in Statement |-> None]
    /\ tally = [s \in Statement |-> NoTally]
    /\ transactions = {}
    /\ job = [w \in Worker |-> None]
    /\ pos = [w \in Worker |-> 0]
    /\ inserted = [w \in Worker |-> {}]
    /\ count = [w \in Worker |-> NoTally]
    /\ crashes = 0

-----------------------------------------------------------------------------
(* POST /accounts/{account}/statements                                     *)

\* A user uploads a file to an account: refused unless the account is the
\* user's own, otherwise queued without being read.  The clock is the
\* server's, and servers need not agree: any time may be stamped.
QueueStatement(s, u) ==
    /\ status[s] = "absent"
    /\ Owned(u)
    /\ status' = [status EXCEPT ![s] = "pending"]
    /\ upload' = [upload EXCEPT ![s] = u]
    /\ UNCHANGED <<tally, transactions, work, crashes>>

-----------------------------------------------------------------------------
(* run_once()                                                              *)

\* The order of the queue: newest first, the id breaks ties.
Newer(s, t) ==
    \/ upload[s].created_at > upload[t].created_at
    \/ upload[s].created_at = upload[t].created_at /\ s > t

\* Faulty: a plain SELECT, without FOR UPDATE SKIP LOCKED.
NeverLocked(s) == FALSE

Locked(s) == \E w \in Worker : job[w] = s

\* Faulty: a SELECT that forgets the status.
ClaimableAnyStatus == {s \in Statement : status[s] # "absent" /\ ~Locked(s)}

Claimable == {s \in Statement : status[s] = "pending" /\ ~Locked(s)}

\* SELECT ... WHERE status = 'pending' ORDER BY created_at DESC, id DESC
\* FOR UPDATE SKIP LOCKED LIMIT 1.
Claim(w) ==
    /\ job[w] = None
    /\ \E s \in Claimable :
        /\ \A t \in Claimable \ {s} : Newer(s, t)
        /\ job' = [job EXCEPT ![w] = s]
    /\ UNCHANGED <<table, pos, inserted, count, crashes>>

FileOf(w) == upload[job[w]].content
HasRow(w)   == job[w] # None /\ pos[w] < Len(FileOf(w))
Row(w)      == FileOf(w)[pos[w] + 1]
Key(w)      == Fingerprint(upload[job[w]].account, Row(w))

Uses(rows, key) == \E r \in rows : r.fingerprint = key

\* Faulty: only committed rows are compared, not the rows of this file.
TakenByCommitted(w) == Uses(transactions, Key(w))

\* Faulty: rows other transactions may still roll back count as taken.
TakenByAnybody(w) ==
    Uses(transactions \cup UNION {inserted[v] : v \in Worker}, Key(w))

\* The key of the row in hand is already in the table, for this transaction.
Taken(w) == Uses(transactions \cup inserted[w], Key(w))

\* Workers whose open transaction inserted the key of w's row: w waits.
Holders(w) == {v \in Worker \ {w} : Uses(inserted[v], Key(w))}

AtLine(w) == HasRow(w) /\ Row(w) \in Line

\* The row in hand is counted, counters now c, and the loop goes on.
Handled(w, c) ==
    /\ pos' = [pos EXCEPT ![w] = @ + 1]
    /\ count' = [count EXCEPT ![w] = c]
    /\ UNCHANGED <<table, job, crashes>>

NewRow(w) ==
    [fingerprint |-> Key(w), account |-> upload[job[w]].account, line |-> Row(w),
     job |-> job[w], row |-> pos[w] + 1]

\* A well-formed row of an owned account with a key nobody has: it is stored.
ImportRow(w) ==
    /\ AtLine(w) /\ Owned(upload[job[w]])
    /\ ~Taken(w) /\ Holders(w) = {}
    /\ inserted' = [inserted EXCEPT ![w] = @ \cup {NewRow(w)}]
    /\ Handled(w, [count[w] EXCEPT !.imported = @ + 1])

\* The unique index refuses the row; the savepoint is rolled back.
DuplicateRow(w) ==
    /\ AtLine(w) /\ Owned(upload[job[w]])
    /\ Taken(w)
    /\ UNCHANGED inserted
    /\ Handled(w, [count[w] EXCEPT !.duplicates = @ + 1])

\* A malformed row, or a row for an account that is not the user's.
FailRow(w) ==
    /\ HasRow(w) /\ Row(w) \notin {Broken, Fatal}
    /\ Row(w) \in Line => ~Owned(upload[job[w]])
    /\ UNCHANGED inserted
    /\ Handled(w, [count[w] EXCEPT !.failed = @ + 1])

\* Faulty: the counters are not local to one attempt.
ReleaseKeepingCount(w) ==
    /\ job' = [job EXCEPT ![w] = None]
    /\ pos' = [pos EXCEPT ![w] = 0]
    /\ inserted' = [inserted EXCEPT ![w] = {}]
    /\ UNCHANGED count

\* The worker's transaction is over and it holds nothing any more.
Release(w) ==
    /\ job' = [job EXCEPT ![w] = None]
    /\ pos' = [pos EXCEPT ![w] = 0]
    /\ inserted' = [inserted EXCEPT ![w] = {}]
    /\ count' = [count EXCEPT ![w] = NoTally]

\* Rows, counters and status are committed together.
Commit(w, outcome, c) ==
    /\ status' = [status EXCEPT ![job[w]] = outcome]
    /\ tally' = [tally EXCEPT ![job[w]] = c]
    /\ transactions' = transactions \cup inserted[w]
    /\ Release(w)
    /\ UNCHANGED <<upload, crashes>>

\* Every row has been handled: the job is done.
FinishDone(w) ==
    /\ job[w] # None /\ pos[w] = Len(FileOf(w))
    /\ Commit(w, "done", count[w])

\* Faulty: every row is committed as it is stored.
RollbackKeepingRows(w) ==
    /\ Release(w)
    /\ transactions' = transactions \cup inserted[w]
    /\ UNCHANGED <<status, upload, tally>>

\* run_once() raises or dies: its transaction is rolled back as a whole.
Rollback(w) == Release(w) /\ UNCHANGED table

\* Faulty: a status the table's CHECK constraint does not know.
FinishBrokenStatus(w) ==
    /\ HasRow(w) /\ Row(w) = Broken
    /\ Commit(w, "broken", [count[w] EXCEPT !.failed = @ + 1])

\* Faulty: an unreadable file is not caught around the loop.
AbortBroken(w) ==
    /\ HasRow(w) /\ Row(w) = Broken
    /\ Rollback(w)
    /\ UNCHANGED crashes

\* The rest of the file cannot be read: the job has failed, with the rows
\* stored so far.
FinishBroken(w) ==
    /\ HasRow(w) /\ Row(w) = Broken
    /\ Commit(w, "failed", [count[w] EXCEPT !.failed = @ + 1])

\* The row raises an error that is none of those caught.
AbortFatal(w) ==
    /\ HasRow(w) /\ Row(w) = Fatal
    /\ Rollback(w)
    /\ UNCHANGED crashes

Waiting(w) == AtLine(w) /\ Owned(upload[job[w]]) /\ ~Taken(w) /\ Holders(w) # {}

\* Workers wait for each other in a ring: PostgreSQL aborts one of them,
\* with an error that is none of those caught.
DeadlockAbort(w) ==
    /\ \E S \in SUBSET {v \in Worker : Waiting(v)} :
        w \in S /\ S = UNION {Holders(v) : v \in S}
    /\ Rollback(w)
    /\ UNCHANGED crashes

\* The worker is killed, or loses its connection, in the middle of a job.
Crash(w) ==
    /\ job[w] # None
    /\ crashes < MaxCrashes
    /\ crashes' = crashes + 1
    /\ Rollback(w)

RowStep(w) == ImportRow(w) \/ DuplicateRow(w) \/ FailRow(w)
Finish(w)  == FinishDone(w) \/ FinishBroken(w) \/ AbortFatal(w)

Next ==
    \/ \E s \in Statement, u \in Upload : QueueStatement(s, u)
    \/ \E w \in Worker :
        \/ Claim(w) \/ RowStep(w) \/ Finish(w) \/ DeadlockAbort(w) \/ Crash(w)

Spec == Init /\ [][Next]_vars

(***************************************************************************)
(* Workers are run again and again, a run in progress goes on, and a       *)
(* deadlock is broken; of claiming, finishing and being aborted, a worker  *)
(* can do at most one at a time.  A run that waits for a row another       *)
(* transaction holds is woken when that transaction ends: it is not        *)
(* overtaken for ever, hence strong fairness for each position in a file.  *)
(***************************************************************************)
RowStepAt(w, i) == pos[w] = i /\ RowStep(w)

FairSpec ==
    /\ Spec
    /\ \A w \in Worker :
        /\ WF_vars(Claim(w) \/ Finish(w) \/ DeadlockAbort(w))
        /\ \A i \in UNION {0 .. Len(f) - 1 : f \in Content} : SF_vars(RowStepAt(w, i))

-----------------------------------------------------------------------------
(* What the import promises                                                *)

Finished(s) == status[s] \in {"done", "failed"}

\* README: the same file twice imports nothing twice.  However often a line
\* of an account is uploaded, in one file or in several, and however many
\* workers import it at once, at most one transaction is stored for it.
NoDoubleImport ==
    \A r, q \in transactions : r.account = q.account /\ r.line = q.line => r = q

\* De-duplication never loses anything: once a job is over, every line it
\* could read is in the ledger, be it by this job or by an earlier one.
NothingLost ==
    \A s \in Statement : Finished(s) =>
        \A i \in Readable(upload[s].content) :
            upload[s].content[i] \in Line =>
                Uses(transactions, Fingerprint(upload[s].account, upload[s].content[i]))

\* The counters a job ends with are true, whatever retries came before:
\* imported is the number of rows it stored, and the three add up to the
\* rows it read, plus one when the file was broken.
TallyIsTrue ==
    \A s \in Statement : Finished(s) =>
        /\ tally[s].imported = Cardinality({r \in transactions : r.job = s})
        /\ tally[s].imported + tally[s].duplicates + tally[s].failed
             = Cardinality(Readable(upload[s].content))
               + (IF status[s] = "failed" THEN 1 ELSE 0)

\* A crash, a deadlock or an uncaught error leaves nothing of the attempt: a
\* job that is not over has no committed row and counters of zero.
AllOrNothing ==
    \A s \in Statement : ~Finished(s) =>
        /\ tally[s] = NoTally
        /\ \A r \in transactions : r.job # s

\* What a finished job reported and stored is never touched again.
FinishedIsFinal ==
    [][/\ transactions \subseteq transactions'
       /\ \A s \in Statement : Finished(s) =>
            /\ status'[s] = status[s]
            /\ tally'[s] = tally[s]
            /\ \A r \in transactions' \ transactions : r.job # s]_vars

\* Every queued job is eventually over.
JobsFinish == \A s \in Statement : status[s] = "pending" ~> Finished(s)

\* A pending file holds a row whose error nothing catches: whoever claims the
\* file rolls back and leaves it pending.
Poisoned ==
    \E s \in Statement :
        /\ status[s] = "pending"
        /\ \E i \in Readable(upload[s].content) : upload[s].content[i] = Fatal

\* Every queued job is eventually over, crashes, deadlocks and retries
\* notwithstanding, unless some file that no worker can import is queued.
JobsFinishUnlessPoisoned ==
    \A s \in Statement : status[s] = "pending" ~> Finished(s) \/ Poisoned

\* The workers together do what one of them would do, importing whole jobs
\* one at a time: the committed tables are those of the serial import, what
\* the workers hold is hidden.
Serial == INSTANCE SerialImport WITH
    status <- status, upload <- upload, tally <- tally, transactions <- transactions
ImportIsSerial == Serial!Spec
=============================================================================
