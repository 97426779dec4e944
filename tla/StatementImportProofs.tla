----------------------- MODULE StatementImportProofs -----------------------
(***************************************************************************)
(* Proofs about StatementImport, for every set of jobs, workers, accounts, *)
(* lines and files: its types, its promises of safety by way of the        *)
(* invariant InductiveInv, and that its workers implement SerialImport:    *)
(* what any number of them commit, whatever they insert, wait for, roll    *)
(* back or lose in between, is what one worker would that imports whole    *)
(* files.                                                                  *)
(***************************************************************************)
EXTENDS StatementImportInv, FiniteSetTheorems, FunctionTheorems, TLAPS

LEMMA NoTallyType == NoTally \in Tally
BY DEF NoTally, Tally

\* A job in hand has an upload, and its row in hand is one of the file's.
LEMMA JobInHand ==
    ASSUME TypeOK, QueuedIsOwned, LockedIsPending, NEW w \in Worker, job[w] # None
    PROVE  /\ job[w] \in Statement
           /\ upload[job[w]] \in Upload /\ Owned(upload[job[w]])
           /\ FileOf(w) \in Seq(Item)
           /\ HasRow(w) => pos[w] + 1 \in 1 .. Len(FileOf(w)) /\ Row(w) \in Item
<1>1. job[w] \in Statement
  BY DEF TypeOK
<1>2. upload[job[w]] \in Upload /\ Owned(upload[job[w]])
  BY <1>1 DEF LockedIsPending, QueuedIsOwned
<1>3. FileOf(w) \in Seq(Item)
  BY <1>2, ContentAssumption DEF FileOf, Upload
<1>4. pos[w] \in Nat
  BY DEF TypeOK
<1>5. HasRow(w) => pos[w] + 1 \in 1 .. Len(FileOf(w)) /\ Row(w) \in Item
  <2> SUFFICES ASSUME pos[w] < Len(FileOf(w))
               PROVE  pos[w] + 1 \in 1 .. Len(FileOf(w)) /\ Row(w) \in Item
    BY DEF HasRow
  <2>1. Len(FileOf(w)) \in Nat /\ DOMAIN FileOf(w) = 1 .. Len(FileOf(w))
    BY <1>3
  <2>2. pos[w] + 1 \in 1 .. Len(FileOf(w))
    BY <2>1, <1>4
  <2> QED BY <2>1, <2>2, <1>3 DEF Row
<1> QED BY <1>1, <1>2, <1>3, <1>5

LEMMA KeyType ==
    ASSUME NEW u \in Upload, NEW l \in Line
    PROVE  /\ u.account \in Account
           /\ Fingerprint(u.account, l) \in Account \X Line
BY DEF Upload, Fingerprint

LEMMA NewRowType ==
    ASSUME TypeOK, QueuedIsOwned, LockedIsPending, NEW w \in Worker, AtLine(w)
    PROVE  NewRow(w) \in Transaction
<1>1. job[w] # None /\ Row(w) \in Line /\ HasRow(w)
  BY DEF AtLine, HasRow
<1>2. job[w] \in Statement /\ upload[job[w]] \in Upload
  BY <1>1, JobInHand
<1>3. /\ upload[job[w]].account \in Account
      /\ Key(w) \in Account \X Line
  BY <1>1, <1>2, KeyType DEF Key
<1>4. pos[w] + 1 \in Nat \ {0}
  BY DEF TypeOK
<1> QED BY <1>1, <1>2, <1>3, <1>4 DEF NewRow, Transaction

LEMMA CountUp ==
    ASSUME NEW c \in Tally
    PROVE  /\ [c EXCEPT !.imported = @ + 1] \in Tally
           /\ [c EXCEPT !.duplicates = @ + 1] \in Tally
           /\ [c EXCEPT !.failed = @ + 1] \in Tally
BY DEF Tally

-----------------------------------------------------------------------------
(* Types                                                                   *)

TypeInv == TypeOK /\ QueuedIsOwned /\ LockedIsPending /\ SingleProcessor

LEMMA TypeInit == Init => TypeInv
<1> SUFFICES ASSUME Init PROVE TypeInv
  OBVIOUS
<1>1. TypeOK
  BY NoTallyType, CrashAssumption DEF Init, TypeOK, Status
<1>2. QueuedIsOwned /\ LockedIsPending /\ SingleProcessor
  BY DEF Init, QueuedIsOwned, LockedIsPending, SingleProcessor
<1> QED BY <1>1, <1>2 DEF TypeInv

LEMMA TypeRelease ==
    ASSUME TypeInv, NEW w \in Worker, Release(w), UNCHANGED table,
           crashes' \in 0 .. MaxCrashes
    PROVE  TypeInv'
<1>1. TypeOK'
  BY NoTallyType DEF TypeInv, TypeOK, Release, table
<1>2. QueuedIsOwned'
  BY DEF TypeInv, QueuedIsOwned, table
<1>3. LockedIsPending' /\ SingleProcessor'
  BY DEF TypeInv, TypeOK, LockedIsPending, SingleProcessor, Release, table
<1> QED BY <1>1, <1>2, <1>3 DEF TypeInv

LEMMA TypeCommit ==
    ASSUME TypeInv, NEW w \in Worker, job[w] # None,
           NEW outcome \in {"done", "failed"}, NEW c \in Tally, Commit(w, outcome, c)
    PROVE  TypeInv'
<1>1. TypeOK'
  BY NoTallyType DEF TypeInv, TypeOK, Commit, Release, Status
<1>2. QueuedIsOwned'
  BY DEF TypeInv, TypeOK, QueuedIsOwned, LockedIsPending, Commit
<1>3. LockedIsPending' /\ SingleProcessor'
  BY DEF TypeInv, TypeOK, LockedIsPending, SingleProcessor, Commit, Release
<1> QED BY <1>1, <1>2, <1>3 DEF TypeInv

LEMMA TypeHandled ==
    ASSUME TypeInv, NEW w \in Worker, NEW c \in Tally, Handled(w, c),
           inserted' \in [Worker -> SUBSET Transaction]
    PROVE  TypeInv'
<1>1. UNCHANGED <<status, upload, tally, transactions, job, crashes>>
  BY DEF Handled, table
<1>2. pos' \in [Worker -> Nat] /\ count' \in [Worker -> Tally]
  BY DEF TypeInv, TypeOK, Handled
<1>3. TypeOK'
  BY <1>1, <1>2 DEF TypeInv, TypeOK
<1>4. QueuedIsOwned' /\ LockedIsPending' /\ SingleProcessor'
  BY <1>1 DEF TypeInv, QueuedIsOwned, LockedIsPending, SingleProcessor
<1> QED BY <1>3, <1>4 DEF TypeInv

LEMMA TypeStep == TypeInv /\ [Next]_vars => TypeInv'
<1> SUFFICES ASSUME TypeInv, [Next]_vars PROVE TypeInv'
  OBVIOUS
<1>1. ASSUME NEW s \in Statement, NEW u \in Upload, QueueStatement(s, u)
      PROVE  TypeInv'
  <2>1. TypeOK'
    BY <1>1 DEF TypeInv, TypeOK, QueueStatement, work, Status
  <2>2. QueuedIsOwned'
    BY <1>1 DEF TypeInv, TypeOK, QueuedIsOwned, QueueStatement
  <2>3. LockedIsPending' /\ SingleProcessor'
    BY <1>1 DEF TypeInv, TypeOK, LockedIsPending, SingleProcessor,
                QueueStatement, work
  <2> QED BY <2>1, <2>2, <2>3 DEF TypeInv
<1>2. ASSUME NEW w \in Worker, Claim(w)
      PROVE  TypeInv'
  <2>1. PICK s \in Claimable : job' = [job EXCEPT ![w] = s]
    BY <1>2 DEF Claim
  <2>2. s \in Statement /\ status[s] = "pending" /\ \A v \in Worker : job[v] # s
    BY DEF Claimable, Locked
  <2>3. TypeOK'
    BY <1>2, <2>1, <2>2 DEF TypeInv, TypeOK, Claim, table
  <2>4. QueuedIsOwned'
    BY <1>2 DEF TypeInv, QueuedIsOwned, Claim, table
  <2>5. LockedIsPending' /\ SingleProcessor'
    BY <1>2, <2>1, <2>2
    DEF TypeInv, TypeOK, LockedIsPending, SingleProcessor, Claim, table
  <2> QED BY <2>3, <2>4, <2>5 DEF TypeInv
<1>3. ASSUME NEW w \in Worker, RowStep(w)
      PROVE  TypeInv'
  <2>1. count[w] \in Tally
    BY DEF TypeInv, TypeOK
  <2>2. CASE ImportRow(w)
    <3>1. NewRow(w) \in Transaction
      BY <2>2, NewRowType DEF ImportRow, TypeInv
    <3>2. inserted' \in [Worker -> SUBSET Transaction]
      BY <2>2, <3>1 DEF ImportRow, TypeInv, TypeOK
    <3> QED BY <2>1, <2>2, <3>2, CountUp, TypeHandled DEF ImportRow
  <2>3. CASE DuplicateRow(w)
    BY <2>1, <2>3, CountUp, TypeHandled DEF DuplicateRow, TypeInv, TypeOK
  <2>4. CASE FailRow(w)
    BY <2>1, <2>4, CountUp, TypeHandled DEF FailRow, TypeInv, TypeOK
  <2> QED BY <1>3, <2>2, <2>3, <2>4 DEF RowStep
<1>4. ASSUME NEW w \in Worker, Finish(w)
      PROVE  TypeInv'
  <2>1. count[w] \in Tally /\ crashes \in 0 .. MaxCrashes
    BY DEF TypeInv, TypeOK
  <2>2. CASE FinishDone(w)
    BY <2>1, <2>2, TypeCommit DEF FinishDone
  <2>3. CASE FinishBroken(w)
    BY <2>1, <2>3, CountUp, TypeCommit DEF FinishBroken, HasRow
  <2>4. CASE AbortFatal(w)
    BY <2>1, <2>4, TypeRelease DEF AbortFatal, Rollback
  <2> QED BY <1>4, <2>2, <2>3, <2>4 DEF Finish
<1>5. ASSUME NEW w \in Worker, DeadlockAbort(w) \/ Crash(w)
      PROVE  TypeInv'
  <2>1. crashes' \in 0 .. MaxCrashes
    BY <1>5, CrashAssumption DEF TypeInv, TypeOK, DeadlockAbort, Crash
  <2> QED BY <1>5, <2>1, TypeRelease DEF DeadlockAbort, Crash, Rollback
<1>6. CASE UNCHANGED vars
  <2>1. TypeOK'
    BY <1>6 DEF TypeInv, TypeOK, vars
  <2> QED
    BY <1>6, <2>1
    DEF TypeInv, QueuedIsOwned, LockedIsPending, SingleProcessor, vars
<1> QED BY <1>1, <1>2, <1>3, <1>4, <1>5, <1>6 DEF Next

\* Every variable keeps its type: in particular a job's status is one of those
\* the CHECK constraint of the table statements allows.
THEOREM TypeCorrect == Spec => []TypeOK
<1>1. Spec => []TypeInv
  BY TypeInit, TypeStep, PTL DEF Spec
<1>2. TypeInv => TypeOK
  BY DEF TypeInv
<1> QED BY <1>1, <1>2, PTL

\* FOR UPDATE SKIP LOCKED: no two workers ever process the same job.
THEOREM OneProcessorPerJob == Spec => []SingleProcessor
<1>1. Spec => []TypeInv
  BY TypeInit, TypeStep, PTL DEF Spec
<1>2. TypeInv => SingleProcessor
  BY DEF TypeInv
<1> QED BY <1>1, <1>2, PTL

-----------------------------------------------------------------------------
(* Safety                                                                  *)

LEMMA InvIsTypeInv == InductiveInv => TypeInv
BY DEF InductiveInv, TypeInv

LEMMA MoreUses ==
    ASSUME NEW A, NEW B, A \subseteq B, NEW key, Uses(A, key)
    PROVE  Uses(B, key)
BY DEF Uses

LEMMA CountOfNone ==
    /\ IsFiniteSet({}) /\ NoTally.imported = Cardinality({})
    /\ NoTally.imported + NoTally.duplicates + NoTally.failed = 0
<1>1. IsFiniteSet({}) /\ Cardinality({}) = 0
  BY FS_EmptySet
<1> QED BY <1>1 DEF NoTally

LEMMA CountTo ==
    ASSUME NEW n \in Nat
    PROVE  Cardinality(1 .. n) = n
<1>1. 1 \in Int /\ n \in Int
  OBVIOUS
<1>2. Cardinality(1 .. n) = IF 1 > n THEN 0 ELSE n - 1 + 1
  BY <1>1, FS_Interval, Zenon
<1> QED BY <1>2

\* Rows that leave the table cannot make two of those that stay alike.
LEMMA KeysOfFewer ==
    ASSUME UniqueKeys, KeysAreTrue, Stored' \subseteq Stored
    PROVE  UniqueKeys' /\ KeysAreTrue'
BY DEF UniqueKeys, KeysAreTrue

LEMMA SafetyInit == Init => InductiveInv
<1> SUFFICES ASSUME Init PROVE InductiveInv
  OBVIOUS
<1>1. TypeOK /\ QueuedIsOwned /\ LockedIsPending /\ SingleProcessor
  BY TypeInit DEF TypeInv
<1>2. Stored = {}
  BY DEF Init, Stored
<1>3. UniqueKeys /\ KeysAreTrue
  BY <1>2 DEF UniqueKeys, KeysAreTrue
<1>4. IdleIsClean /\ PrefixIsStored /\ InsertedIsOwn
  BY DEF Init, IdleIsClean, PrefixIsStored, InsertedIsOwn
<1>5. CountIsTrue
  BY FS_EmptySet DEF Init, CountIsTrue, NoTally
<1>6. AllOrNothing /\ NothingLost /\ TallyIsTrue
  BY DEF Init, AllOrNothing, NothingLost, TallyIsTrue, Finished
<1> QED BY <1>1, <1>3, <1>4, <1>5, <1>6 DEF InductiveInv

\* An upload concerns no job that any worker holds or has finished.
LEMMA SafetyQueue ==
    ASSUME InductiveInv, TypeInv', NEW s \in Statement, NEW u \in Upload,
           QueueStatement(s, u)
    PROVE  InductiveInv'
<1>1. /\ status[s] = "absent"
      /\ status' = [status EXCEPT ![s] = "pending"]
      /\ upload' = [upload EXCEPT ![s] = u]
      /\ UNCHANGED <<tally, transactions, job, pos, inserted, count>>
  BY DEF QueueStatement, work
<1>2. status \in [Statement -> Status] /\ upload \in [Statement -> Upload \cup {None}]
  BY DEF InductiveInv, TypeOK
<1>3. \A w \in Worker : job[w] # None => job[w] \in Statement /\ job[w] # s
  BY <1>1 DEF InductiveInv, TypeOK, LockedIsPending
<1>4. \A w \in Worker : job[w] # None =>
        FileOf(w)' = FileOf(w) /\ upload'[job'[w]] = upload[job[w]]
  BY <1>1, <1>2, <1>3 DEF FileOf
<1>5. \A t \in Statement \ {s} : status'[t] = status[t] /\ upload'[t] = upload[t]
  BY <1>1, <1>2
<1>6. status'[s] = "pending"
  BY <1>1, <1>2
<1>7. UniqueKeys' /\ KeysAreTrue'
  BY <1>1, KeysOfFewer DEF InductiveInv, Stored
<1>8. IdleIsClean' /\ InsertedIsOwn' /\ CountIsTrue'
  BY <1>1 DEF InductiveInv, IdleIsClean, InsertedIsOwn, CountIsTrue
<1>9. PrefixIsStored'
  BY <1>1, <1>4 DEF InductiveInv, PrefixIsStored
<1>10. AllOrNothing'
  BY <1>1, <1>5 DEF InductiveInv, AllOrNothing, Finished
<1>11. NothingLost'
  BY <1>1, <1>5, <1>6 DEF InductiveInv, NothingLost, Finished
<1>12. TallyIsTrue'
  BY <1>1, <1>5, <1>6 DEF InductiveInv, TallyIsTrue, Finished
<1> QED BY <1>7, <1>8, <1>9, <1>10, <1>11, <1>12 DEF InductiveInv, TypeInv

\* A claim starts at the first row with nothing stored.
LEMMA SafetyClaim ==
    ASSUME InductiveInv, TypeInv', NEW w \in Worker, Claim(w)
    PROVE  InductiveInv'
<1>1. PICK s \in Claimable : job' = [job EXCEPT ![w] = s]
  BY DEF Claim
<1>2. job[w] = None /\ UNCHANGED <<status, upload, tally, transactions, pos, inserted, count>>
  BY DEF Claim, table
<1>3. s \in Statement /\ status[s] = "pending"
  BY DEF Claimable
<1>4. job \in [Worker -> Statement \cup {None}]
  BY DEF InductiveInv, TypeOK
<1>5. job'[w] = s /\ \A v \in Worker \ {w} : job'[v] = job[v]
  BY <1>1, <1>4
<1>6. pos[w] = 0 /\ inserted[w] = {}
  BY <1>2 DEF InductiveInv, IdleIsClean
<1>7. UniqueKeys' /\ KeysAreTrue'
  BY <1>2, KeysOfFewer DEF InductiveInv, Stored
<1>8. s # None
  BY <1>3, NoneAssumption
<1>9. IdleIsClean'
  BY <1>2, <1>5, <1>8 DEF InductiveInv, IdleIsClean
<1>10. InsertedIsOwn' /\ CountIsTrue'
  BY <1>2, <1>5, <1>6 DEF InductiveInv, InsertedIsOwn, CountIsTrue
<1>11. PrefixIsStored'
  <2>1. ASSUME NEW v \in Worker \ {w}
        PROVE  FileOf(v)' = FileOf(v) /\ upload'[job'[v]] = upload[job[v]]
    BY <1>2, <1>5 DEF FileOf
  <2>2. Len(FileOf(w)') \in Nat
    <3>1. upload[s] \in Upload
      BY <1>3 DEF InductiveInv, QueuedIsOwned
    <3>2. upload[s].content \in Seq(Item)
      BY <3>1, ContentAssumption DEF Upload
    <3> QED BY <3>2, <1>2, <1>5 DEF FileOf
  <2>3. 1 .. pos'[w] = {} /\ pos'[w] <= Len(FileOf(w)')
    BY <1>2, <1>6, <2>2
  <2> QED BY <1>2, <1>5, <2>1, <2>3 DEF InductiveInv, PrefixIsStored
<1>12. AllOrNothing' /\ NothingLost' /\ TallyIsTrue'
  BY <1>2 DEF InductiveInv, AllOrNothing, NothingLost, TallyIsTrue, Finished
<1> QED BY <1>7, <1>9, <1>10, <1>11, <1>12 DEF InductiveInv, TypeInv

\* A rollback forgets one worker's rows; nothing committed depends on them.
LEMMA SafetyRollback ==
    ASSUME InductiveInv, TypeInv', NEW w \in Worker, Rollback(w)
    PROVE  InductiveInv'
<1>1. /\ UNCHANGED <<status, upload, tally, transactions>>
      /\ job' = [job EXCEPT ![w] = None]
      /\ pos' = [pos EXCEPT ![w] = 0]
      /\ inserted' = [inserted EXCEPT ![w] = {}]
      /\ count' = [count EXCEPT ![w] = NoTally]
  BY DEF Rollback, Release, table
<1>2. /\ job'[w] = None /\ pos'[w] = 0 /\ inserted'[w] = {} /\ count'[w] = NoTally
      /\ \A v \in Worker \ {w} :
            /\ job'[v] = job[v] /\ pos'[v] = pos[v]
            /\ inserted'[v] = inserted[v] /\ count'[v] = count[v]
  BY <1>1 DEF InductiveInv, TypeOK
<1>3. UniqueKeys' /\ KeysAreTrue'
  <2>1. Stored' \subseteq Stored
    BY <1>1, <1>2 DEF Stored
  <2> QED BY <2>1, KeysOfFewer DEF InductiveInv
<1>4. IdleIsClean' /\ InsertedIsOwn'
  BY <1>2 DEF InductiveInv, IdleIsClean, InsertedIsOwn
<1>5. PrefixIsStored'
  <2>1. \A v \in Worker \ {w} :
          FileOf(v)' = FileOf(v) /\ upload'[job'[v]] = upload[job[v]]
    BY <1>1, <1>2 DEF FileOf
  <2> SUFFICES ASSUME NEW v \in Worker, job'[v] # None
               PROVE  /\ pos'[v] <= Len(FileOf(v)')
                      /\ \A i \in 1 .. pos'[v] :
                           /\ FileOf(v)'[i] \notin {Broken, Fatal}
                           /\ FileOf(v)'[i] \in Line =>
                               Uses(transactions' \cup inserted'[v],
                                    Fingerprint(upload'[job'[v]].account, FileOf(v)'[i]))
    BY DEF PrefixIsStored
  <2>2. v # w /\ job[v] # None /\ inserted'[v] = inserted[v] /\ pos'[v] = pos[v]
    BY <1>2
  <2>3. /\ pos[v] <= Len(FileOf(v))
        /\ \A i \in 1 .. pos[v] :
             /\ FileOf(v)[i] \notin {Broken, Fatal}
             /\ FileOf(v)[i] \in Line =>
                 Uses(transactions \cup inserted[v],
                      Fingerprint(upload[job[v]].account, FileOf(v)[i]))
    BY <2>2 DEF InductiveInv, PrefixIsStored
  <2>4. FileOf(v)' = FileOf(v) /\ upload'[job'[v]] = upload[job[v]]
    BY <2>1, <2>2
  <2>5. transactions' \cup inserted'[v] = transactions \cup inserted[v]
    BY <1>1, <2>2
  <2> QED BY <2>2, <2>3, <2>4, <2>5
<1>6. CountIsTrue'
  BY <1>2, CountOfNone DEF InductiveInv, CountIsTrue
<1>7. AllOrNothing' /\ NothingLost' /\ TallyIsTrue'
  BY <1>1 DEF InductiveInv, AllOrNothing, NothingLost, TallyIsTrue, Finished
<1> QED BY <1>3, <1>4, <1>5, <1>6, <1>7 DEF InductiveInv, TypeInv

\* One row handled: if it is a line, its key is now in the table, and at most
\* that row of the worker's own job was added to what it has inserted.
LEMMA SafetyHandled ==
    ASSUME InductiveInv, TypeInv', NEW w \in Worker, HasRow(w),
           Row(w) \notin {Broken, Fatal},
           NEW rows, inserted' = [inserted EXCEPT ![w] = rows],
           inserted[w] \subseteq rows, IsFiniteSet(rows),
           \A r \in rows \ inserted[w] : r.job = job[w] /\ r.row = pos[w] + 1,
           Row(w) \in Line => Uses(transactions \cup rows, Key(w)),
           NEW c \in Tally, Handled(w, c),
           c.imported = Cardinality(rows),
           c.imported + c.duplicates + c.failed = pos[w] + 1,
           UniqueKeys', KeysAreTrue'
    PROVE  InductiveInv'
<1>1. /\ UNCHANGED <<status, upload, tally, transactions, job>>
      /\ pos' = [pos EXCEPT ![w] = pos[w] + 1]
      /\ count' = [count EXCEPT ![w] = c]
  BY DEF Handled, table
<1>2. /\ pos'[w] = pos[w] + 1 /\ inserted'[w] = rows /\ count'[w] = c
      /\ \A v \in Worker \ {w} : /\ pos'[v] = pos[v] /\ inserted'[v] = inserted[v]
                                 /\ count'[v] = count[v]
  BY <1>1 DEF InductiveInv, TypeOK
<1>3. job[w] # None /\ pos[w] < Len(FileOf(w)) /\ pos[w] \in Nat
  BY DEF HasRow, InductiveInv, TypeOK
<1>4. \A v \in Worker :
        FileOf(v)' = FileOf(v) /\ upload'[job'[v]] = upload[job[v]]
  BY <1>1 DEF FileOf
<1>5. Len(FileOf(w)) \in Nat
  BY <1>3, JobInHand DEF InductiveInv
<1>6. IdleIsClean'
  BY <1>1, <1>2, <1>3 DEF InductiveInv, IdleIsClean
<1>7. PrefixIsStored'
  <2>1. ASSUME NEW v \in Worker \ {w}, job[v] # None
        PROVE  /\ pos'[v] <= Len(FileOf(v)')
               /\ \A i \in 1 .. pos'[v] :
                    /\ FileOf(v)'[i] \notin {Broken, Fatal}
                    /\ FileOf(v)'[i] \in Line =>
                        Uses(transactions' \cup inserted'[v],
                             Fingerprint(upload'[job'[v]].account, FileOf(v)'[i]))
    BY <2>1, <1>1, <1>2, <1>4 DEF InductiveInv, PrefixIsStored
  <2>2. pos'[w] <= Len(FileOf(w)')
    BY <1>2, <1>3, <1>4, <1>5
  <2>3. ASSUME NEW i \in 1 .. pos'[w]
        PROVE  /\ FileOf(w)'[i] \notin {Broken, Fatal}
               /\ FileOf(w)'[i] \in Line =>
                    Uses(transactions' \cup inserted'[w],
                         Fingerprint(upload'[job'[w]].account, FileOf(w)'[i]))
    <3>1. CASE i = pos[w] + 1
      BY <3>1, <1>1, <1>2, <1>4 DEF Row, Key
    <3>2. CASE i \in 1 .. pos[w]
      <4>1. /\ FileOf(w)[i] \notin {Broken, Fatal}
            /\ FileOf(w)[i] \in Line =>
                Uses(transactions \cup inserted[w],
                     Fingerprint(upload[job[w]].account, FileOf(w)[i]))
        BY <3>2, <1>3 DEF InductiveInv, PrefixIsStored
      <4>2. transactions \cup inserted[w] \subseteq transactions' \cup inserted'[w]
        BY <1>1, <1>2
      <4> QED BY <4>1, <4>2, <1>1, <1>4, MoreUses
    <3> QED BY <3>1, <3>2, <1>2, <1>3
  <2> QED BY <2>1, <2>2, <2>3, <1>1 DEF PrefixIsStored
<1>8. InsertedIsOwn'
  <2>1. ASSUME NEW r \in rows
        PROVE  r.job = job[w] /\ r.row <= pos[w] + 1
    <3>1. CASE r \in inserted[w]
      <4>1. r.job = job[w] /\ r.row <= pos[w]
        BY <3>1 DEF InductiveInv, InsertedIsOwn
      <4>2. r.row \in Nat
        BY <3>1 DEF InductiveInv, TypeOK, Transaction
      <4> QED BY <4>1, <4>2, <1>3
    <3>2. CASE r \notin inserted[w]
      BY <3>2, <1>3
    <3> QED BY <3>1, <3>2
  <2> QED BY <2>1, <1>1, <1>2 DEF InductiveInv, InsertedIsOwn
<1>9. CountIsTrue'
  BY <1>2 DEF InductiveInv, CountIsTrue
<1>10. AllOrNothing' /\ NothingLost' /\ TallyIsTrue'
  BY <1>1 DEF InductiveInv, AllOrNothing, NothingLost, TallyIsTrue, Finished
<1> QED BY <1>6, <1>7, <1>8, <1>9, <1>10 DEF InductiveInv, TypeInv

\* A row that is stored: its key was nobody's, so keys stay unique.
LEMMA SafetyImport ==
    ASSUME InductiveInv, TypeInv', NEW w \in Worker, ImportRow(w)
    PROVE  InductiveInv'
<1> DEFINE rows == inserted[w] \cup {NewRow(w)}
           c == [count[w] EXCEPT !.imported = @ + 1]
<1>1. /\ AtLine(w) /\ ~Taken(w) /\ Holders(w) = {}
      /\ inserted' = [inserted EXCEPT ![w] = rows]
      /\ Handled(w, c)
  BY DEF ImportRow
<1>2. HasRow(w) /\ Row(w) \in Line /\ job[w] # None
  BY <1>1 DEF AtLine, HasRow
<1>3. Row(w) \notin {Broken, Fatal}
  BY <1>2, ItemAssumption
<1>4. /\ NewRow(w).fingerprint = Key(w) /\ NewRow(w).job = job[w]
      /\ NewRow(w).row = pos[w] + 1
      /\ NewRow(w).fingerprint = Fingerprint(NewRow(w).account, NewRow(w).line)
  BY DEF NewRow, Key
<1>5. Uses(transactions \cup rows, Key(w))
  BY <1>4 DEF Uses
<1>6. \A r \in Stored : r.fingerprint # Key(w)
  BY <1>1 DEF Taken, Holders, Uses, Stored
<1>7. Stored' = Stored \cup {NewRow(w)}
  <2>1. transactions' = transactions
    BY <1>1 DEF Handled, table
  <2>2. inserted \in [Worker -> SUBSET Transaction]
    BY DEF InductiveInv, TypeOK
  <2>3. inserted'[w] = rows /\ \A v \in Worker \ {w} : inserted'[v] = inserted[v]
    BY <1>1, <2>2
  <2> QED BY <2>1, <2>3 DEF Stored
<1>8. UniqueKeys' /\ KeysAreTrue'
  BY <1>4, <1>6, <1>7 DEF InductiveInv, UniqueKeys, KeysAreTrue
<1>9. NewRow(w) \notin inserted[w]
  BY <1>4, <1>6 DEF Stored
<1>10. IsFiniteSet(rows) /\ Cardinality(rows) = Cardinality(inserted[w]) + 1
  BY <1>9, FS_AddElement DEF InductiveInv, CountIsTrue
<1>11. count[w] \in Tally
  BY DEF InductiveInv, TypeOK
<1>12. /\ c \in Tally /\ c.imported = count[w].imported + 1
       /\ c.duplicates = count[w].duplicates /\ c.failed = count[w].failed
  BY <1>11 DEF Tally
<1>13. pos[w] \in Nat
  BY DEF InductiveInv, TypeOK
<1>14. /\ c.imported = Cardinality(rows)
       /\ c.imported + c.duplicates + c.failed = pos[w] + 1
  BY <1>10, <1>11, <1>12, <1>13 DEF InductiveInv, CountIsTrue, Tally
<1> HIDE DEF c
<1> QED
  BY <1>1, <1>2, <1>3, <1>4, <1>5, <1>8, <1>10, <1>12, <1>14, SafetyHandled

\* A duplicate or failed row: only the counters move.
LEMMA SafetyCounted ==
    ASSUME InductiveInv, TypeInv', NEW w \in Worker, DuplicateRow(w) \/ FailRow(w)
    PROVE  InductiveInv'
<1>1. count[w] \in Tally /\ pos[w] \in Nat
  BY DEF InductiveInv, TypeOK
<1>2. UNCHANGED <<transactions, inserted>>
  BY DEF DuplicateRow, FailRow, Handled, table
<1>3. UniqueKeys' /\ KeysAreTrue'
  BY <1>2, KeysOfFewer DEF InductiveInv, Stored
<1>4. /\ inserted' = [inserted EXCEPT ![w] = inserted[w]]
      /\ IsFiniteSet(inserted[w])
      /\ count[w].imported = Cardinality(inserted[w])
      /\ count[w].imported + count[w].duplicates + count[w].failed = pos[w]
  BY <1>2 DEF InductiveInv, TypeOK, CountIsTrue
<1>5. CASE DuplicateRow(w)
  <2> DEFINE c == [count[w] EXCEPT !.duplicates = @ + 1]
  <2>1. /\ HasRow(w) /\ Row(w) \notin {Broken, Fatal}
        /\ Uses(transactions \cup inserted[w], Key(w)) /\ Handled(w, c)
    BY <1>5, ItemAssumption DEF DuplicateRow, AtLine, Taken
  <2>2. /\ c \in Tally /\ c.imported = count[w].imported
        /\ c.imported + c.duplicates + c.failed = pos[w] + 1
    BY <1>1, <1>4 DEF Tally
  <2> HIDE DEF c
  <2> QED BY <1>3, <1>4, <2>1, <2>2, SafetyHandled
<1>6. CASE FailRow(w)
  <2> DEFINE c == [count[w] EXCEPT !.failed = @ + 1]
  <2>1. HasRow(w) /\ Row(w) \notin {Broken, Fatal} /\ Handled(w, c)
    BY <1>6 DEF FailRow
  <2>2. Owned(upload[job[w]])
    BY <2>1, JobInHand DEF HasRow, InductiveInv
  <2>3. Row(w) \notin Line
    BY <1>6, <2>2 DEF FailRow
  <2>4. /\ c \in Tally /\ c.imported = count[w].imported
        /\ c.imported + c.duplicates + c.failed = pos[w] + 1
    BY <1>1, <1>4 DEF Tally
  <2> HIDE DEF c
  <2> QED BY <1>3, <1>4, <2>1, <2>3, <2>4, SafetyHandled
<1> QED BY <1>5, <1>6

\* What a commit leaves behind, whatever its outcome: every readable row of the
\* job was handled, so its lines are stored and its counters add up.
LEMMA SafetyCommit ==
    ASSUME InductiveInv, TypeInv', NEW w \in Worker, job[w] # None,
           NEW outcome \in {"done", "failed"}, NEW c \in Tally, Commit(w, outcome, c),
           Readable(FileOf(w)) = 1 .. pos[w],
           c.imported = count[w].imported,
           c.imported + c.duplicates + c.failed
             = pos[w] + (IF outcome = "failed" THEN 1 ELSE 0)
    PROVE  InductiveInv'
<1>0. PICK s \in Statement : s = job[w] /\ status[s] = "pending"
  BY DEF InductiveInv, TypeOK, LockedIsPending
<1>1. /\ status' = [status EXCEPT ![s] = outcome]
      /\ tally' = [tally EXCEPT ![s] = c]
      /\ transactions' = transactions \cup inserted[w]
      /\ upload' = upload
      /\ job' = [job EXCEPT ![w] = None]
      /\ pos' = [pos EXCEPT ![w] = 0]
      /\ inserted' = [inserted EXCEPT ![w] = {}]
      /\ count' = [count EXCEPT ![w] = NoTally]
  BY <1>0 DEF Commit, Release
<1>2. /\ job'[w] = None /\ pos'[w] = 0 /\ inserted'[w] = {} /\ count'[w] = NoTally
      /\ \A v \in Worker \ {w} :
            /\ job'[v] = job[v] /\ pos'[v] = pos[v]
            /\ inserted'[v] = inserted[v] /\ count'[v] = count[v]
  BY <1>1 DEF InductiveInv, TypeOK
<1>4. /\ status'[s] = outcome /\ tally'[s] = c
      /\ \A t \in Statement \ {s} : status'[t] = status[t] /\ tally'[t] = tally[t]
  BY <1>1 DEF InductiveInv, TypeOK
<1>5. ~Finished(s) /\ Finished(s)'
      /\ \A t \in Statement \ {s} : Finished(t)' <=> Finished(t)
  BY <1>0, <1>4 DEF Finished
<1>6. \A r \in inserted[w] : r.job = s
  BY <1>0 DEF InductiveInv, InsertedIsOwn
<1>7. UniqueKeys' /\ KeysAreTrue'
  <2>1. Stored' \subseteq Stored
    BY <1>1, <1>2 DEF Stored
  <2> QED BY <2>1, KeysOfFewer DEF InductiveInv
<1>8. IdleIsClean' /\ InsertedIsOwn'
  BY <1>2 DEF InductiveInv, IdleIsClean, InsertedIsOwn
<1>9. PrefixIsStored'
  <2>1. \A v \in Worker \ {w} :
          FileOf(v)' = FileOf(v) /\ upload'[job'[v]] = upload[job[v]]
    BY <1>1, <1>2 DEF FileOf
  <2> SUFFICES ASSUME NEW v \in Worker, job'[v] # None
               PROVE  /\ pos'[v] <= Len(FileOf(v)')
                      /\ \A i \in 1 .. pos'[v] :
                           /\ FileOf(v)'[i] \notin {Broken, Fatal}
                           /\ FileOf(v)'[i] \in Line =>
                               Uses(transactions' \cup inserted'[v],
                                    Fingerprint(upload'[job'[v]].account, FileOf(v)'[i]))
    BY DEF PrefixIsStored
  <2>2. v # w /\ job[v] # None /\ inserted'[v] = inserted[v] /\ pos'[v] = pos[v]
    BY <1>2
  <2>3. transactions \cup inserted[v] \subseteq transactions' \cup inserted'[v]
    BY <1>1, <2>2
  <2>4. /\ pos[v] <= Len(FileOf(v))
        /\ \A i \in 1 .. pos[v] :
             /\ FileOf(v)[i] \notin {Broken, Fatal}
             /\ FileOf(v)[i] \in Line =>
                 Uses(transactions \cup inserted[v],
                      Fingerprint(upload[job[v]].account, FileOf(v)[i]))
    BY <2>2 DEF InductiveInv, PrefixIsStored
  <2>5. FileOf(v)' = FileOf(v) /\ upload'[job'[v]] = upload[job[v]]
    BY <2>1, <2>2
  <2> QED BY <2>2, <2>3, <2>4, <2>5, MoreUses
<1>10. CountIsTrue'
  BY <1>2, CountOfNone DEF InductiveInv, CountIsTrue
<1>11. AllOrNothing'
  BY <1>1, <1>4, <1>5, <1>6 DEF InductiveInv, AllOrNothing
<1>12. NothingLost'
  <2> SUFFICES ASSUME NEW t \in Statement, Finished(t)',
                      NEW i \in Readable(upload[t].content),
                      upload[t].content[i] \in Line
               PROVE  Uses(transactions',
                           Fingerprint(upload[t].account, upload[t].content[i]))
    BY <1>1 DEF NothingLost
  <2>1. CASE t = s
    <3>1. i \in 1 .. pos[w] /\ FileOf(w)[i] \in Line
      BY <2>1, <1>0 DEF FileOf
    <3>2. Uses(transactions \cup inserted[w],
               Fingerprint(upload[job[w]].account, FileOf(w)[i]))
      BY <3>1 DEF InductiveInv, PrefixIsStored
    <3> QED BY <2>1, <3>2, <1>0, <1>1 DEF FileOf
  <2>2. CASE t # s
    <3>1. Uses(transactions, Fingerprint(upload[t].account, upload[t].content[i]))
      BY <2>2, <1>5 DEF InductiveInv, NothingLost
    <3> QED BY <3>1, <1>1, MoreUses
  <2> QED BY <2>1, <2>2
<1>13. TallyIsTrue'
  <2> SUFFICES ASSUME NEW t \in Statement, Finished(t)'
               PROVE  /\ tally'[t].imported
                           = Cardinality({r \in transactions' : r.job = t})
                      /\ tally'[t].imported + tally'[t].duplicates + tally'[t].failed
                           = Cardinality(Readable(upload[t].content))
                             + (IF status'[t] = "failed" THEN 1 ELSE 0)
    BY <1>1 DEF TallyIsTrue
  <2>1. CASE t = s
    <3>1. {r \in transactions' : r.job = s} = inserted[w]
      BY <1>1, <1>5, <1>6 DEF InductiveInv, AllOrNothing
    <3>2. tally'[s].imported = Cardinality(inserted[w])
      BY <1>4 DEF InductiveInv, CountIsTrue
    <3>3. Cardinality(1 .. pos[w]) = pos[w]
      <4>1. pos[w] \in Nat
        BY DEF InductiveInv, TypeOK
      <4> QED BY <4>1, CountTo
    <3>4. tally'[s].imported = Cardinality({r \in transactions' : r.job = s})
      BY <3>1, <3>2
    <3>5. Readable(upload[s].content) = 1 .. pos[w]
      BY <1>0 DEF FileOf
    <3>6. tally'[s].imported + tally'[s].duplicates + tally'[s].failed
            = Cardinality(Readable(upload[s].content))
              + (IF status'[s] = "failed" THEN 1 ELSE 0)
      BY <3>3, <3>5, <1>4
    <3> QED BY <2>1, <3>4, <3>6
  <2>2. CASE t # s
    <3>1. {r \in transactions' : r.job = t} = {r \in transactions : r.job = t}
      BY <2>2, <1>1, <1>6
    <3> QED BY <2>2, <3>1, <1>4, <1>5 DEF InductiveInv, TallyIsTrue
  <2> QED BY <2>1, <2>2
<1> QED
  BY <1>7, <1>8, <1>9, <1>10, <1>11, <1>12, <1>13 DEF InductiveInv, TypeInv

LEMMA SafetyFinish ==
    ASSUME InductiveInv, TypeInv', NEW w \in Worker, Finish(w)
    PROVE  InductiveInv'
<1>1. count[w] \in Tally /\ pos[w] \in Nat
  BY DEF InductiveInv, TypeOK
<1>2. count[w].imported + count[w].duplicates + count[w].failed = pos[w]
  BY DEF InductiveInv, CountIsTrue
<1>3. ASSUME job[w] # None
      PROVE  /\ Len(FileOf(w)) \in Nat /\ DOMAIN FileOf(w) = 1 .. Len(FileOf(w))
             /\ \A i \in 1 .. pos[w] : FileOf(w)[i] # Broken
  <2>1. FileOf(w) \in Seq(Item)
    BY <1>3, JobInHand DEF InductiveInv
  <2>2. Len(FileOf(w)) \in Nat /\ DOMAIN FileOf(w) = 1 .. Len(FileOf(w))
    BY <2>1
  <2>3. \A i \in 1 .. pos[w] : FileOf(w)[i] # Broken
    BY <1>3 DEF InductiveInv, PrefixIsStored
  <2> QED BY <2>2, <2>3
<1>4. CASE FinishDone(w)
  <2>1. job[w] # None /\ pos[w] = Len(FileOf(w)) /\ Commit(w, "done", count[w])
    BY <1>4 DEF FinishDone
  <2>2. Readable(FileOf(w)) = 1 .. pos[w]
    BY <1>1, <1>3, <2>1 DEF Readable
  <2> QED BY <1>1, <1>2, <2>1, <2>2, SafetyCommit
<1>5. CASE FinishBroken(w)
  <2> DEFINE c == [count[w] EXCEPT !.failed = @ + 1]
  <2>1. /\ job[w] # None /\ pos[w] < Len(FileOf(w))
        /\ FileOf(w)[pos[w] + 1] = Broken /\ Commit(w, "failed", c)
    BY <1>5 DEF FinishBroken, HasRow, Row
  <2>2. Readable(FileOf(w)) = 1 .. pos[w]
    <3>1. ASSUME NEW i \in 1 .. Len(FileOf(w))
          PROVE  i \in Readable(FileOf(w)) <=> i <= pos[w]
      BY <1>1, <1>3, <2>1 DEF Readable
    <3> QED BY <3>1, <1>1, <1>3, <2>1 DEF Readable
  <2>3. /\ c \in Tally /\ c.imported = count[w].imported
        /\ c.imported + c.duplicates + c.failed = pos[w] + 1
    BY <1>1, <1>2 DEF Tally
  <2> HIDE DEF c
  <2> QED BY <2>1, <2>2, <2>3, SafetyCommit
<1>6. CASE AbortFatal(w)
  BY <1>6, SafetyRollback DEF AbortFatal
<1> QED BY <1>4, <1>5, <1>6 DEF Finish

LEMMA SafetyStep == InductiveInv /\ [Next]_vars => InductiveInv'
<1> SUFFICES ASSUME InductiveInv, [Next]_vars PROVE InductiveInv'
  OBVIOUS
<1>1. TypeInv'
  BY InvIsTypeInv, TypeStep
<1>2. ASSUME NEW s \in Statement, NEW u \in Upload, QueueStatement(s, u)
      PROVE  InductiveInv'
  BY <1>1, <1>2, SafetyQueue
<1>3. ASSUME NEW w \in Worker, Claim(w) PROVE InductiveInv'
  BY <1>1, <1>3, SafetyClaim
<1>4. ASSUME NEW w \in Worker, RowStep(w) PROVE InductiveInv'
  BY <1>1, <1>4, SafetyImport, SafetyCounted DEF RowStep
<1>5. ASSUME NEW w \in Worker, Finish(w) PROVE InductiveInv'
  BY <1>1, <1>5, SafetyFinish
<1>6. ASSUME NEW w \in Worker, DeadlockAbort(w) \/ Crash(w) PROVE InductiveInv'
  BY <1>1, <1>6, SafetyRollback DEF DeadlockAbort, Crash
<1>7. CASE UNCHANGED vars
  <2>1. UNCHANGED <<status, upload, tally, transactions, job, pos, inserted, count>>
    BY <1>7 DEF vars
  <2>2. UniqueKeys' /\ KeysAreTrue'
    BY <2>1, KeysOfFewer DEF InductiveInv, Stored
  <2>3. IdleIsClean' /\ PrefixIsStored' /\ InsertedIsOwn' /\ CountIsTrue'
    BY <2>1 DEF InductiveInv, IdleIsClean, PrefixIsStored, InsertedIsOwn,
                CountIsTrue, FileOf
  <2>4. AllOrNothing' /\ NothingLost' /\ TallyIsTrue'
    BY <2>1 DEF InductiveInv, AllOrNothing, NothingLost, TallyIsTrue, Finished
  <2> QED BY <1>1, <2>2, <2>3, <2>4 DEF InductiveInv, TypeInv
<1> QED BY <1>2, <1>3, <1>4, <1>5, <1>6, <1>7 DEF Next

LEMMA Invariance == Spec => []InductiveInv
BY SafetyInit, SafetyStep, PTL DEF Spec

\* README: "The same file twice imports nothing twice", for any number of
\* workers that import any files at once and are killed at any moment.
THEOREM ImportedOnce == Spec => []NoDoubleImport
<1>1. InductiveInv => NoDoubleImport
  BY DEF InductiveInv, UniqueKeys, KeysAreTrue, Stored, NoDoubleImport
<1> QED BY <1>1, Invariance, PTL

\* De-duplication drops no line: when a job is over, all its lines are stored.
THEOREM NothingIsLost == Spec => []NothingLost
<1>1. InductiveInv => NothingLost
  BY DEF InductiveInv
<1> QED BY <1>1, Invariance, PTL

\* The counters a job shows once it is over are what happened to its rows.
THEOREM TalliesAreTrue == Spec => []TallyIsTrue
<1>1. InductiveInv => TallyIsTrue
  BY DEF InductiveInv
<1> QED BY <1>1, Invariance, PTL

\* An attempt that did not reach its commit leaves no trace.
THEOREM ImportIsAtomic == Spec => []AllOrNothing
<1>1. InductiveInv => AllOrNothing
  BY DEF InductiveInv
<1> QED BY <1>1, Invariance, PTL

\* FinishedIsFinal, as an action of one step.
FinalStep ==
    /\ transactions \subseteq transactions'
    /\ \A s \in Statement : Finished(s) =>
        /\ status'[s] = status[s]
        /\ tally'[s] = tally[s]
        /\ \A r \in transactions' \ transactions : r.job # s

LEMMA FinalOfNone ==
    ASSUME UNCHANGED <<status, tally, transactions>> PROVE FinalStep
BY DEF FinalStep

\* Only a commit writes a job and the ledger; it is about a job that is
\* pending until then, and what it stores is that job's.
LEMMA FinalOfCommit ==
    ASSUME InductiveInv, NEW w \in Worker, NEW outcome, NEW c,
           job[w] # None, Commit(w, outcome, c)
    PROVE  FinalStep
<1>1. status \in [Statement -> Status] /\ tally \in [Statement -> Tally]
  BY DEF InductiveInv, TypeOK
<1>2. /\ status' = [status EXCEPT ![job[w]] = outcome]
      /\ tally' = [tally EXCEPT ![job[w]] = c]
      /\ transactions' = transactions \cup inserted[w]
  BY DEF Commit
<1>3. ~Finished(job[w])
  BY DEF InductiveInv, LockedIsPending, Finished
<1>4. \A r \in inserted[w] : r.job = job[w]
  BY DEF InductiveInv, InsertedIsOwn
<1>5. ASSUME NEW s \in Statement, Finished(s)
      PROVE  /\ status'[s] = status[s] /\ tally'[s] = tally[s]
             /\ \A r \in transactions' \ transactions : r.job # s
  <2>1. s # job[w]
    BY <1>3, <1>5
  <2> QED BY <2>1, <1>1, <1>2, <1>4
<1> QED BY <1>2, <1>5 DEF FinalStep

\* What a finished job reported, and what it stored, no later step changes:
\* no second worker, retry or crash takes it up again.
THEOREM FinishedJobsAreFinal == Spec => FinishedIsFinal
<1>1. InductiveInv /\ [Next]_vars => [FinalStep]_vars
  <2> SUFFICES ASSUME InductiveInv, Next PROVE FinalStep
    OBVIOUS
  <2>1. ASSUME NEW s \in Statement, NEW u \in Upload, QueueStatement(s, u)
        PROVE  FinalStep
    <3>1. /\ status[s] = "absent" /\ status' = [status EXCEPT ![s] = "pending"]
          /\ UNCHANGED <<tally, transactions>>
      BY <2>1 DEF QueueStatement
    <3>2. status \in [Statement -> Status]
      BY DEF InductiveInv, TypeOK
    <3> QED BY <3>1, <3>2 DEF FinalStep, Finished
  <2>2. ASSUME NEW w \in Worker, Claim(w) \/ RowStep(w) PROVE FinalStep
    BY <2>2, FinalOfNone
       DEF Claim, RowStep, ImportRow, DuplicateRow, FailRow, Handled, table
  <2>3. ASSUME NEW w \in Worker, FinishDone(w) PROVE FinalStep
    BY <2>3, FinalOfCommit DEF FinishDone
  <2>4. ASSUME NEW w \in Worker, FinishBroken(w) PROVE FinalStep
    BY <2>4, FinalOfCommit DEF FinishBroken, HasRow
  <2>5. ASSUME NEW w \in Worker, AbortFatal(w) \/ DeadlockAbort(w) \/ Crash(w)
        PROVE  FinalStep
    BY <2>5, FinalOfNone DEF AbortFatal, DeadlockAbort, Crash, Rollback, table
  <2> QED BY <2>1, <2>2, <2>3, <2>4, <2>5 DEF Next, Finish
<1>2. Spec => [][FinalStep]_vars
  BY <1>1, Invariance, PTL DEF Spec
<1> QED BY <1>2, PTL DEF FinishedIsFinal, FinalStep

-----------------------------------------------------------------------------
(* The invariant of the refinement                                         *)

OfWorker(w) == RowsAreFirst(w) /\ FailedAreMalformed(w)

LEMMA SerialInit == Init => \A w \in Worker : OfWorker(w)
BY DEF Init, OfWorker, RowsAreFirst, FailedAreMalformed

\* What is true of a worker stays true as long as its work stands still.
LEMMA WorkStandsStill ==
    ASSUME InductiveInv, NEW w \in Worker, OfWorker(w),
           job'[w] = job[w], pos'[w] = pos[w], inserted'[w] = inserted[w], count'[w] = count[w],
           job[w] # None => upload'[job[w]] = upload[job[w]]
    PROVE  OfWorker(w)'
<1>1. CASE job[w] = None
  <2>1. inserted[w] = {}
    BY <1>1 DEF InductiveInv, IdleIsClean
  <2> QED BY <1>1, <2>1 DEF OfWorker, RowsAreFirst, FailedAreMalformed
<1>2. CASE job[w] # None
  <2>1. upload'[job'[w]] = upload[job[w]] /\ FileOf(w)' = FileOf(w)
    BY <1>2 DEF FileOf
  <2> QED BY <1>2, <2>1 DEF OfWorker, RowsAreFirst, FailedAreMalformed
<1> QED BY <1>1, <1>2

LEMMA WorkReleased ==
    ASSUME InductiveInv, NEW w \in Worker, Release(w)
    PROVE  OfWorker(w)'
<1>1. job'[w] = None /\ inserted'[w] = {}
  BY DEF InductiveInv, TypeOK, Release
<1> QED BY <1>1 DEF OfWorker, RowsAreFirst, FailedAreMalformed

LEMMA WorkClaimed ==
    ASSUME InductiveInv, NEW w \in Worker, Claim(w)
    PROVE  OfWorker(w)'
<1>1. inserted'[w] = {} /\ pos'[w] = 0 /\ count'[w] = NoTally
  BY DEF InductiveInv, IdleIsClean, Claim
<1>2. {i \in 1 .. pos'[w] : FileOf(w)'[i] = Malformed} = {}
  BY <1>1
<1>3. count'[w].failed = Cardinality({i \in 1 .. pos'[w] : FileOf(w)'[i] = Malformed})
  BY <1>1, <1>2, FS_EmptySet DEF NoTally
<1> QED BY <1>1, <1>3 DEF OfWorker, RowsAreFirst, FailedAreMalformed

RowsLike(f, n, x) == {i \in 1 .. n : f[i] = x}

\* One more row is looked at: the count of malformed ones goes up if it is one.
LEMMA OneMoreRow ==
    ASSUME NEW f, NEW n \in Nat, NEW x
    PROVE  /\ IsFiniteSet(RowsLike(f, n, x)) /\ Cardinality(RowsLike(f, n, x)) \in Nat
           /\ f[n + 1] = x =>
                Cardinality(RowsLike(f, n + 1, x)) = Cardinality(RowsLike(f, n, x)) + 1
           /\ f[n + 1] # x =>
                Cardinality(RowsLike(f, n + 1, x)) = Cardinality(RowsLike(f, n, x))
<1> DEFINE upTo(m) == RowsLike(f, m, x)
<1>1. IsFiniteSet(upTo(n)) /\ Cardinality(upTo(n)) \in Nat
  <2>1. IsFiniteSet(1 .. n)
    BY 1 \in Int, n \in Int, FS_Interval
  <2>2. IsFiniteSet(upTo(n))
    BY <2>1, FS_Subset DEF RowsLike
  <2> QED BY <2>2, FS_CardinalityType
<1>2. CASE f[n + 1] = x
  <2>1. upTo(n + 1) = upTo(n) \cup {n + 1} /\ n + 1 \notin upTo(n)
    BY <1>2 DEF RowsLike
  <2>2. Cardinality(upTo(n) \cup {n + 1}) = Cardinality(upTo(n)) + 1
    BY <1>1, <2>1, FS_AddElement
  <2> QED BY <1>1, <1>2, <2>1, <2>2
<1>3. CASE f[n + 1] # x
  <2>1. upTo(n + 1) = upTo(n)
    BY <1>3 DEF RowsLike
  <2> QED BY <1>1, <1>3, <2>1
<1> QED BY <1>2, <1>3

LEMMA WorkDone ==
    ASSUME InductiveInv, NEW w \in Worker, OfWorker(w), RowStep(w)
    PROVE  OfWorker(w)'
<1>1. /\ HasRow(w) /\ job[w] # None /\ job' = job /\ upload' = upload
      /\ pos'[w] = pos[w] + 1 /\ pos[w] \in Nat /\ count[w] \in Tally
  BY DEF RowStep, ImportRow, DuplicateRow, FailRow, AtLine, HasRow, Handled, table,
         InductiveInv, TypeOK
<1>2. FileOf(w)' = FileOf(w) /\ Row(w) = FileOf(w)[pos[w] + 1]
  BY <1>1 DEF FileOf, Row
<1>3. RowsAreFirst(w)'
  <2>1. CASE ImportRow(w)
    <3>1. /\ ~Taken(w) /\ Row(w) \in Line
          /\ inserted'[w] = inserted[w] \cup {NewRow(w)}
      BY <2>1 DEF ImportRow, AtLine, InductiveInv, TypeOK
    <3>2. ASSUME NEW k \in 1 .. pos[w] PROVE FileOf(w)[k] # Row(w)
      <4> SUFFICES ASSUME FileOf(w)[k] = Row(w) PROVE FALSE
        OBVIOUS
      <4>1. Uses(transactions \cup inserted[w], Key(w))
        BY <1>1, <3>1 DEF InductiveInv, PrefixIsStored, Key
      <4> QED BY <3>1, <4>1 DEF Taken
    <3>3. /\ NewRow(w).account = upload[job[w]].account /\ NewRow(w).row = pos[w] + 1
          /\ NewRow(w).line = Row(w)
      BY DEF NewRow
    <3>4. 1 .. NewRow(w).row - 1 = 1 .. pos[w]
      BY <1>1, <3>3
    <3> QED BY <1>1, <1>2, <3>1, <3>2, <3>3, <3>4 DEF OfWorker, RowsAreFirst
  <2>2. CASE DuplicateRow(w) \/ FailRow(w)
    BY <1>1, <1>2, <2>2 DEF DuplicateRow, FailRow, OfWorker, RowsAreFirst
  <2> QED BY <2>1, <2>2 DEF RowStep
<1>4. FailedAreMalformed(w)'
  <2> DEFINE upTo(m) == RowsLike(FileOf(w), m, Malformed)
  <2>1. count[w].failed = Cardinality(upTo(pos[w]))
    BY <1>1 DEF OfWorker, FailedAreMalformed, RowsLike
  <2>2. /\ Row(w) = Malformed => Cardinality(upTo(pos[w] + 1)) = Cardinality(upTo(pos[w])) + 1
        /\ Row(w) # Malformed => Cardinality(upTo(pos[w] + 1)) = Cardinality(upTo(pos[w]))
    BY <1>1, <1>2, OneMoreRow
  <2>3. CASE ImportRow(w) \/ DuplicateRow(w)
    <3>1. Row(w) # Malformed
      BY <2>3, ItemAssumption DEF ImportRow, DuplicateRow, AtLine
    <3>2. count'[w].failed = count[w].failed
      BY <1>1, <2>3 DEF ImportRow, DuplicateRow, Handled, InductiveInv, TypeOK, Tally
    <3> QED BY <1>1, <1>2, <2>1, <2>2, <3>1, <3>2 DEF FailedAreMalformed, RowsLike
  <2>4. CASE FailRow(w)
    <3>1. Row(w) = Malformed
      <4>1. Row(w) \in Item /\ Owned(upload[job[w]])
        BY <1>1, JobInHand DEF InductiveInv
      <4> QED BY <2>4, <4>1 DEF FailRow, Item
    <3>2. count'[w].failed = count[w].failed + 1
      BY <1>1, <2>4 DEF FailRow, Handled, InductiveInv, TypeOK, Tally
    <3> QED BY <1>1, <1>2, <2>1, <2>2, <3>1, <3>2 DEF FailedAreMalformed, RowsLike
  <2> QED BY <2>3, <2>4 DEF RowStep
<1> QED BY <1>3, <1>4 DEF OfWorker

LEMMA SerialInvariance == Spec => [](\A w \in Worker : OfWorker(w))
<1>1. InductiveInv /\ (\A w \in Worker : OfWorker(w)) /\ [Next]_vars
        => (\A w \in Worker : OfWorker(w))'
  <2> SUFFICES ASSUME InductiveInv, \A w \in Worker : OfWorker(w), [Next]_vars, NEW w \in Worker
               PROVE  OfWorker(w)'
    OBVIOUS
  <2>1. ASSUME NEW s \in Statement, NEW u \in Upload, QueueStatement(s, u)
        PROVE  OfWorker(w)'
    <3>1. job[w] # None => job[w] # s /\ job[w] \in Statement
      BY <2>1 DEF QueueStatement, InductiveInv, LockedIsPending, TypeOK
    <3>2. job[w] # None => upload'[job[w]] = upload[job[w]]
      BY <2>1, <3>1 DEF QueueStatement, InductiveInv, TypeOK
    <3> QED BY <2>1, <3>2, WorkStandsStill DEF QueueStatement, work
  <2>2. ASSUME NEW v \in Worker, v # w,
               Claim(v) \/ RowStep(v) \/ Finish(v) \/ DeadlockAbort(v) \/ Crash(v)
        PROVE  OfWorker(w)'
    <3>1. upload' = upload
      BY <2>2 DEF Claim, RowStep, ImportRow, DuplicateRow, FailRow, Handled, Finish, FinishDone,
                  FinishBroken, AbortFatal, DeadlockAbort, Crash, Commit, Rollback, table
    <3>2. job'[w] = job[w] /\ pos'[w] = pos[w] /\ inserted'[w] = inserted[w] /\ count'[w] = count[w]
      BY <2>2 DEF Claim, RowStep, ImportRow, DuplicateRow, FailRow, Handled, Finish, FinishDone,
                  FinishBroken, AbortFatal, DeadlockAbort, Crash, Commit, Rollback, Release,
                  InductiveInv, TypeOK
    <3> QED BY <3>1, <3>2, WorkStandsStill
  <2>3. CASE Claim(w)
    BY <2>3, WorkClaimed
  <2>4. CASE RowStep(w)
    BY <2>4, WorkDone
  <2>5. CASE Finish(w) \/ DeadlockAbort(w) \/ Crash(w)
    BY <2>5, WorkReleased DEF Finish, FinishDone, FinishBroken, AbortFatal, DeadlockAbort, Crash,
                              Commit, Rollback
  <2>6. CASE UNCHANGED vars
    BY <2>6, WorkStandsStill DEF vars
  <2> QED BY <2>1, <2>2, <2>3, <2>4, <2>5, <2>6 DEF Next
<1> QED BY SerialInit, Invariance, <1>1, PTL DEF Spec

\* What is true in the middle of a worker's transaction, for any number of
\* workers, jobs and files: the invariant that the promises of the import and
\* its refinement of the serial import rest on.
THEOREM WorkInProgress == Spec => []SerialInv
<1>1. InductiveInv /\ (\A w \in Worker : OfWorker(w)) => SerialInv
  BY DEF SerialInv, OfWorker
<1> QED BY Invariance, SerialInvariance, <1>1, PTL

-----------------------------------------------------------------------------
(* The refinement                                                          *)

\* A worker that commits has read its file to the end, or to where it breaks.
LEMMA ReadInFull ==
    ASSUME InductiveInv, NEW w \in Worker, FinishDone(w) \/ FinishBroken(w)
    PROVE  /\ job[w] # None /\ pos[w] \in Nat
           /\ Readable(FileOf(w)) = 1 .. pos[w]
           /\ IsBroken(FileOf(w)) <=> FinishBroken(w)
           /\ \A i \in 1 .. pos[w] : FileOf(w)[i] \in Line \cup {Malformed}
<1>1. job[w] # None /\ pos[w] \in Nat
  BY DEF FinishDone, FinishBroken, HasRow, InductiveInv, TypeOK
<1>2. FileOf(w) \in Seq(Item)
  BY <1>1, JobInHand DEF InductiveInv
<1>3. /\ Len(FileOf(w)) \in Nat /\ DOMAIN FileOf(w) = 1 .. Len(FileOf(w))
      /\ \A i \in 1 .. Len(FileOf(w)) : FileOf(w)[i] \in Item
  BY <1>2
<1>4. /\ pos[w] <= Len(FileOf(w))
      /\ \A i \in 1 .. pos[w] : FileOf(w)[i] \notin {Broken, Fatal}
  BY <1>1 DEF InductiveInv, PrefixIsStored
<1>5. \A i \in 1 .. pos[w] : FileOf(w)[i] \in Line \cup {Malformed}
  BY <1>1, <1>3, <1>4 DEF Item
<1>6. CASE FinishDone(w)
  <2>1. pos[w] = Len(FileOf(w))
    BY <1>6 DEF FinishDone
  <2>2. Readable(FileOf(w)) = 1 .. pos[w]
    BY <1>3, <1>4, <2>1 DEF Readable
  <2>3. ~IsBroken(FileOf(w)) /\ ~FinishBroken(w)
    BY <1>3, <1>4, <2>1 DEF IsBroken, FinishBroken, HasRow
  <2> QED BY <1>1, <1>5, <2>2, <2>3
<1>7. CASE FinishBroken(w)
  <2>1. pos[w] < Len(FileOf(w)) /\ FileOf(w)[pos[w] + 1] = Broken
    BY <1>7 DEF FinishBroken, HasRow, Row
  <2>2. pos[w] + 1 \in DOMAIN FileOf(w)
    BY <1>1, <1>3, <2>1
  <2>3. ASSUME NEW i \in 1 .. Len(FileOf(w))
        PROVE  i \in Readable(FileOf(w)) <=> i <= pos[w]
    BY <1>1, <1>3, <1>4, <2>1 DEF Readable
  <2>4. Readable(FileOf(w)) = 1 .. pos[w]
    BY <1>1, <1>3, <2>1, <2>3 DEF Readable
  <2> QED BY <1>1, <1>5, <1>7, <2>1, <2>2, <2>4 DEF IsBroken
<1> QED BY <1>6, <1>7

LEMMA SameSize ==
    ASSUME NEW S, NEW T, IsFiniteSet(S), NEW f \in [S -> T],
           \A a, b \in S : f[a] = f[b] => a = b,
           \A t \in T : \E a \in S : f[a] = t
    PROVE  IsFiniteSet(T) /\ Cardinality(T) = Cardinality(S)
<1>1. f \in Bijection(S, T)
  BY Fun_IsBij
<1>2. ExistsBijection(S, T)
  BY <1>1, Fun_ExistsBij
<1> QED BY <1>2, FS_Bijection

\* The row of the table that line i of upload u becomes.
RowOf(s, u, i) ==
    [fingerprint |-> Fingerprint(u.account, u.content[i]),
     account |-> u.account, line |-> u.content[i], job |-> s, row |-> i]

\* What a worker has inserted when its file is read are the fresh rows: those
\* whose line is neither in the ledger nor earlier in the file.
LEMMA InsertedAreFresh ==
    ASSUME SerialInv, NEW w \in Worker, job[w] # None,
           Readable(FileOf(w)) = 1 .. pos[w]
    PROVE  /\ inserted[w] = {RowOf(job[w], upload[job[w]], i) : i \in Serial!FreshRows(upload[job[w]])}
           /\ IsFiniteSet(Serial!FreshRows(upload[job[w]]))
           /\ Cardinality(Serial!FreshRows(upload[job[w]])) = Cardinality(inserted[w])
<1> DEFINE u     == upload[job[w]]
           fresh == Serial!FreshRows(u)
<1>0. InductiveInv /\ RowsAreFirst(w) /\ FileOf(w) = u.content
  BY DEF SerialInv, FileOf
<1>1. /\ pos[w] \in Nat /\ inserted[w] \subseteq Transaction
      /\ IsFiniteSet(inserted[w])
  BY <1>0 DEF InductiveInv, TypeOK, CountIsTrue
<1>2. fresh = {i \in 1 .. pos[w] :
                  /\ u.content[i] \in Line
                  /\ \A k \in 1 .. i - 1 : u.content[k] # u.content[i]
                  /\ \A r \in transactions :
                        r.fingerprint # Fingerprint(u.account, u.content[i])}
  BY <1>0 DEF Serial!FreshRows, Serial!Readable, Readable, Serial!Fingerprint, Fingerprint
<1>3. ASSUME NEW r \in inserted[w]
      PROVE  r.row \in fresh /\ r = RowOf(job[w], u, r.row)
  <2>1. /\ r.job = job[w] /\ r.row <= pos[w] /\ r.row \in Nat \ {0}
        /\ r.line \in Line /\ r.account = u.account /\ r.line = u.content[r.row]
        /\ \A k \in 1 .. r.row - 1 : u.content[k] # r.line
    BY <1>0, <1>1 DEF InductiveInv, InsertedIsOwn, RowsAreFirst, Transaction
  <2>2. r \in Stored /\ transactions \subseteq Stored
    BY DEF Stored
  <2>3. r.fingerprint = Fingerprint(u.account, u.content[r.row])
    BY <1>0, <2>1, <2>2 DEF InductiveInv, KeysAreTrue
  <2>4. ASSUME NEW q \in transactions PROVE q.fingerprint # r.fingerprint
    <3>1. q.job # job[w]
      <4>1. job[w] \in Statement /\ ~Finished(job[w])
        BY <1>0, NoneAssumption DEF InductiveInv, TypeOK, LockedIsPending, Finished
      <4> QED BY <1>0, <4>1 DEF InductiveInv, AllOrNothing
    <3>2. q # r
      BY <2>1, <3>1
    <3> QED BY <1>0, <2>2, <3>2 DEF InductiveInv, UniqueKeys
  <2>5. r = RowOf(job[w], u, r.row)
    BY <1>1, <2>1, <2>3 DEF Transaction, RowOf
  <2>6. r.row \in 1 .. pos[w]
    BY <1>1, <2>1
  <2> QED BY <1>2, <2>1, <2>3, <2>4, <2>5, <2>6
<1>4. ASSUME NEW i \in fresh
      PROVE  RowOf(job[w], u, i) \in inserted[w]
  <2>1. /\ i \in 1 .. pos[w] /\ u.content[i] \in Line
        /\ \A k \in 1 .. i - 1 : u.content[k] # u.content[i]
        /\ \A r \in transactions : r.fingerprint # Fingerprint(u.account, u.content[i])
    BY <1>2
  <2>2. Uses(transactions \cup inserted[w], Fingerprint(u.account, u.content[i]))
    BY <1>0, <2>1 DEF InductiveInv, PrefixIsStored
  <2>3. PICK r \in inserted[w] : r.fingerprint = Fingerprint(u.account, u.content[i])
    BY <2>1, <2>2 DEF Uses
  <2>4. r.row \in fresh /\ r = RowOf(job[w], u, r.row)
    BY <1>3
  <2>5. u.content[r.row] = u.content[i]
    BY <2>3, <2>4 DEF RowOf, Fingerprint
  <2>6. /\ r.row \in 1 .. pos[w]
        /\ \A k \in 1 .. r.row - 1 : u.content[k] # u.content[r.row]
    BY <1>2, <2>4
  <2>7. r.row = i
    BY <1>1, <2>1, <2>5, <2>6
  <2> QED BY <2>4, <2>7
<1>5. inserted[w] = {RowOf(job[w], u, i) : i \in fresh}
  BY <1>3, <1>4
<1>6. IsFiniteSet(fresh) /\ Cardinality(fresh) = Cardinality(inserted[w])
  <2> DEFINE rowNumber == [r \in inserted[w] |-> r.row]
  <2>1. rowNumber \in [inserted[w] -> fresh]
    BY <1>3
  <2>2. \A r, q \in inserted[w] : rowNumber[r] = rowNumber[q] => r = q
    BY <1>3
  <2>3. \A i \in fresh : \E r \in inserted[w] : rowNumber[r] = i
    BY <1>4 DEF RowOf
  <2> HIDE DEF rowNumber, fresh
  <2> QED BY <1>1, <2>1, <2>2, <2>3, SameSize
<1> QED BY <1>5, <1>6

\* A commit is the import of a whole file.
LEMMA CommitIsImport ==
    ASSUME SerialInv, NEW w \in Worker, FinishDone(w) \/ FinishBroken(w)
    PROVE  job[w] \in Statement /\ Serial!Import(job[w])
<1> DEFINE s     == job[w]
           u     == upload[s]
           fresh == Serial!FreshRows(u)
           lines == Serial!LineRows(u)
           bad   == Serial!MalformedRows(u)
           outcome == IF FinishDone(w) THEN "done" ELSE "failed"
           c     == IF FinishDone(w) THEN count[w] ELSE [count[w] EXCEPT !.failed = @ + 1]
<1>0. InductiveInv /\ FailedAreMalformed(w) /\ FileOf(w) = u.content
  BY DEF SerialInv, FileOf
<1>1. /\ s # None /\ pos[w] \in Nat
      /\ Readable(u.content) = 1 .. pos[w]
      /\ IsBroken(u.content) <=> FinishBroken(w)
      /\ \A i \in 1 .. pos[w] : u.content[i] \in Line \cup {Malformed}
  BY <1>0, ReadInFull
<1>2. s \in Statement /\ status[s] = "pending"
  BY <1>0, <1>1 DEF InductiveInv, TypeOK, LockedIsPending
<1>3. FinishBroken(w) <=> ~FinishDone(w)
  <2>1. Len(FileOf(w)) \in Nat
    BY <1>0, <1>1, JobInHand DEF InductiveInv
  <2> QED BY <1>1, <2>1 DEF FinishDone, FinishBroken, HasRow
<1>4. Commit(w, outcome, c)
  BY <1>3 DEF FinishDone, FinishBroken
<1>5. /\ Serial!Readable(u.content) = 1 .. pos[w]
      /\ Serial!IsBroken(u.content) <=> FinishBroken(w)
  BY <1>1 DEF Serial!Readable, Readable, Serial!IsBroken, IsBroken
<1>6. /\ inserted[w] = {RowOf(s, u, i) : i \in fresh}
      /\ IsFiniteSet(fresh) /\ Cardinality(fresh) = Cardinality(inserted[w])
  BY <1>0, <1>1, InsertedAreFresh
<1>7. bad = RowsLike(u.content, pos[w], Malformed)
  BY <1>5 DEF Serial!MalformedRows, RowsLike
<1>8. /\ lines = {i \in 1 .. pos[w] : u.content[i] \in Line}
      /\ fresh \subseteq lines
  BY <1>5 DEF Serial!LineRows, Serial!FreshRows
<1>9. IsFiniteSet(bad) /\ Cardinality(bad) \in Nat
  BY <1>1, <1>7, OneMoreRow
<1>10. IsFiniteSet(lines) /\ Cardinality(lines) \in Nat
  <2>1. IsFiniteSet(1 .. pos[w])
    BY <1>1, 1 \in Int, pos[w] \in Int, FS_Interval
  <2>2. IsFiniteSet(lines)
    BY <1>8, <2>1, FS_Subset
  <2> QED BY <2>2, FS_CardinalityType
<1>11. Cardinality(lines) + Cardinality(bad) = pos[w]
  <2>1. lines \cup bad = 1 .. pos[w]
    BY <1>1, <1>7, <1>8 DEF RowsLike
  <2>2. lines \cap bad = {}
    BY <1>7, <1>8, ItemAssumption DEF RowsLike
  <2> HIDE DEF lines, bad
  <2>3. Cardinality(lines \cup bad) = Cardinality(lines) + Cardinality(bad) - Cardinality(lines \cap bad)
    BY <1>9, <1>10, FS_Union
  <2>4. Cardinality(lines \cup bad) = pos[w]
    BY <1>1, <2>1, CountTo
  <2> QED BY <1>9, <1>10, <2>2, <2>3, <2>4, FS_EmptySet
<1>12. Cardinality(lines \ fresh) = Cardinality(lines) - Cardinality(fresh)
  <2> HIDE DEF lines, fresh
  <2>1. lines \cap fresh = fresh
    BY <1>8
  <2>2. Cardinality(lines \ fresh) = Cardinality(lines) - Cardinality(lines \cap fresh)
    BY <1>10, FS_Difference
  <2> QED BY <2>1, <2>2
<1>13. /\ count[w] \in Tally
       /\ count[w].imported = Cardinality(fresh)
       /\ count[w].failed = Cardinality(bad)
       /\ count[w].duplicates = Cardinality(lines \ fresh)
  <2>1. /\ count[w] \in Tally /\ count[w].imported = Cardinality(inserted[w])
        /\ count[w].imported + count[w].duplicates + count[w].failed = pos[w]
    BY <1>0 DEF InductiveInv, TypeOK, CountIsTrue
  <2>2. count[w].failed = Cardinality(bad)
    BY <1>0, <1>1, <1>7 DEF FailedAreMalformed, RowsLike
  <2>3. count[w].imported \in Nat /\ count[w].duplicates \in Nat /\ count[w].failed \in Nat
    BY <2>1 DEF Tally
  <2> HIDE DEF fresh, bad, lines
  <2> QED BY <1>6, <1>9, <1>10, <1>11, <1>12, <2>1, <2>2, <2>3
<1>14. c = [imported   |-> Cardinality(fresh),
            duplicates |-> Cardinality(lines \ fresh),
            failed     |-> Cardinality(bad) + (IF Serial!IsBroken(u.content) THEN 1 ELSE 0)]
  <2> HIDE DEF fresh, bad, lines
  <2>1. CASE FinishDone(w)
    BY <1>3, <1>5, <1>9, <1>13, <2>1 DEF Tally
  <2>2. CASE FinishBroken(w)
    BY <1>3, <1>5, <1>9, <1>13, <2>2 DEF Tally
  <2> QED BY <2>1, <2>2
<1>15. /\ transactions' = transactions \cup {RowOf(s, u, i) : i \in fresh}
       /\ tally' = [tally EXCEPT ![s] = c]
       /\ status' = [status EXCEPT ![s] = outcome]
       /\ upload' = upload
  BY <1>4, <1>6 DEF Commit
<1>16. outcome = IF Serial!IsBroken(u.content) THEN "failed" ELSE "done"
  BY <1>3, <1>5
<1>17. \A i \in Serial!Readable(u.content) : u.content[i] # Fatal
  BY <1>1, <1>5, ItemAssumption
<1>18. transactions' = transactions \cup
            {[fingerprint |-> Serial!Fingerprint(u.account, u.content[i]),
              account |-> u.account, line |-> u.content[i], job |-> s, row |-> i] : i \in fresh}
  BY <1>15 DEF Serial!Fingerprint, Fingerprint, RowOf
<1>19. tally' = [tally EXCEPT ![s] =
            [imported   |-> Cardinality(fresh),
             duplicates |-> Cardinality(lines \ fresh),
             failed     |-> Cardinality(bad) + (IF Serial!IsBroken(u.content) THEN 1 ELSE 0)]]
  BY <1>14, <1>15
<1>20. status' = [status EXCEPT ![s] = IF Serial!IsBroken(u.content) THEN "failed" ELSE "done"]
  BY <1>15, <1>16
<1>21. \A S : Serial!Cardinality(S) = Cardinality(S)
  BY DEF Serial!Cardinality, Cardinality
<1> QED BY <1>2, <1>15, <1>17, <1>18, <1>19, <1>20, <1>21 DEF Serial!Import

\* The workers together do what one would that imports whole files one after
\* the other (run_once), for any number of workers, jobs and files, and
\* however often they are killed.
THEOREM ImportImplementsSerial == Spec => ImportIsSerial
<1>1. Init => Serial!Init
  BY DEF Init, Serial!Init, NoTally, Serial!NoTally
<1>2. SerialInv /\ [Next]_vars => [Serial!Next]_(Serial!vars)
  <2> SUFFICES ASSUME SerialInv, [Next]_vars PROVE [Serial!Next]_(Serial!vars)
    OBVIOUS
  <2>1. ASSUME NEW s \in Statement, NEW u \in Upload, QueueStatement(s, u) PROVE Serial!Next
    <3>1. Serial!Queue(s, u)
      BY <2>1 DEF QueueStatement, Serial!Queue, Owned, Serial!Owned
    <3> QED BY <3>1 DEF Serial!Next, Upload, Serial!Upload
  <2>2. ASSUME NEW w \in Worker, FinishDone(w) \/ FinishBroken(w) PROVE Serial!Next
    BY <2>2, CommitIsImport DEF Serial!Next
  <2>3. ASSUME NEW w \in Worker,
               Claim(w) \/ RowStep(w) \/ AbortFatal(w) \/ DeadlockAbort(w) \/ Crash(w)
        PROVE  UNCHANGED <<status, upload, tally, transactions>>
    BY <2>3 DEF Claim, RowStep, ImportRow, DuplicateRow, FailRow, Handled, AbortFatal,
                DeadlockAbort, Crash, Rollback, table
  <2>4. CASE UNCHANGED vars
    BY <2>4 DEF vars, Serial!vars
  <2> QED BY <2>1, <2>2, <2>3, <2>4 DEF Next, Finish, Serial!vars
<1> QED BY WorkInProgress, <1>1, <1>2, PTL DEF Spec, ImportIsSerial, Serial!Spec

=============================================================================
