------------------------ MODULE StatementImportInv ------------------------
(***************************************************************************)
(* The invariant behind the promises of StatementImport: what is true in   *)
(* the middle of a worker's transaction.  StatementImportProofs proves it  *)
(* inductive; TLC checks it on small instances.                            *)
(***************************************************************************)
EXTENDS StatementImport

\* Everything in the table, committed or not: what the unique index covers.
Stored == transactions \cup UNION {inserted[w] : w \in Worker}

\* Whatever was queued was uploaded by the owner of the account.
QueuedIsOwned ==
    \A s \in Statement : status[s] # "absent" =>
        upload[s] \in Upload /\ Owned(upload[s])

\* A job in some worker's hands is pending, and in one worker's hands only.
LockedIsPending ==
    \A w \in Worker : job[w] # None => status[job[w]] = "pending"
SingleProcessor ==
    \A v, w \in Worker : job[v] = job[w] => v = w \/ job[w] = None

\* The unique index: a fingerprint is stored once, and it says what it says.
UniqueKeys == \A r, q \in Stored : r.fingerprint = q.fingerprint => r = q
KeysAreTrue ==
    \A r \in Stored : r.fingerprint = Fingerprint(r.account, r.line)

\* A worker without a job has nothing in progress.
IdleIsClean ==
    \A w \in Worker : job[w] = None =>
        pos[w] = 0 /\ inserted[w] = {} /\ count[w] = NoTally

\* The rows a worker has handled so far could be read, and each well-formed
\* one is stored: by itself, or committed by somebody else.
PrefixIsStored ==
    \A w \in Worker : job[w] # None =>
        /\ pos[w] <= Len(FileOf(w))
        /\ \A i \in 1 .. pos[w] :
            /\ FileOf(w)[i] \notin {Broken, Fatal}
            /\ FileOf(w)[i] \in Line =>
                Uses(transactions \cup inserted[w],
                     Fingerprint(upload[job[w]].account, FileOf(w)[i]))

\* A worker's uncommitted rows are of its own job and already behind it.
InsertedIsOwn ==
    \A w \in Worker : \A r \in inserted[w] : r.job = job[w] /\ r.row <= pos[w]

\* The local counters say what has been handled and stored so far.
CountIsTrue ==
    \A w \in Worker :
        /\ IsFiniteSet(inserted[w])
        /\ count[w].imported = Cardinality(inserted[w])
        /\ count[w].imported + count[w].duplicates + count[w].failed = pos[w]

InductiveInv ==
    /\ TypeOK
    /\ QueuedIsOwned /\ LockedIsPending /\ SingleProcessor
    /\ UniqueKeys /\ KeysAreTrue
    /\ IdleIsClean /\ PrefixIsStored /\ InsertedIsOwn /\ CountIsTrue
    /\ AllOrNothing /\ NothingLost /\ TallyIsTrue

\* Each row a worker has inserted is a row of its file, the first one of its line.
RowsAreFirst(w) ==
    \A r \in inserted[w] :
        /\ r.account = upload[job[w]].account /\ r.line = FileOf(w)[r.row]
        /\ \A k \in 1 .. r.row - 1 : FileOf(w)[k] # r.line

\* What it has counted as failed so far are the malformed rows.
FailedAreMalformed(w) ==
    job[w] # None =>
        count[w].failed = Cardinality({i \in 1 .. pos[w] : FileOf(w)[i] = Malformed})

\* With that, the work in progress is that of the serial import on the part of
\* the file already handled.
SerialInv == InductiveInv /\ \A w \in Worker : RowsAreFirst(w) /\ FailedAreMalformed(w)
=============================================================================
