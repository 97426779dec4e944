---------------------------- MODULE SerialImport ----------------------------
(***************************************************************************)
(* What the statement import promises, with no worker in sight: files are  *)
(* queued, and each queued file is imported as a whole, one at a time and  *)
(* in any order.  A file that cannot be imported as a whole, because one   *)
(* of its rows is Fatal, stays queued.                                     *)
(***************************************************************************)
EXTENDS StatementData, FiniteSets

VARIABLES status, upload, tally, transactions

vars == <<status, upload, tally, transactions>>

Init ==
    /\ status = [s \in Statement |-> "absent"]
    /\ upload = [s \in Statement |-> None]
    /\ tally = [s \in Statement |-> NoTally]
    /\ transactions = {}

Queue(s, u) ==
    /\ status[s] = "absent"
    /\ Owned(u)
    /\ status' = [status EXCEPT ![s] = "pending"]
    /\ upload' = [upload EXCEPT ![s] = u]
    /\ UNCHANGED <<tally, transactions>>

\* Rows of upload u whose line is neither in the ledger nor earlier in the file.
FreshRows(u) ==
    {i \in Readable(u.content) :
        /\ u.content[i] \in Line
        /\ \A k \in 1 .. i - 1 : u.content[k] # u.content[i]
        /\ \A r \in transactions :
            r.fingerprint # Fingerprint(u.account, u.content[i])}

LineRows(u)      == {i \in Readable(u.content) : u.content[i] \in Line}
MalformedRows(u) == {i \in Readable(u.content) : u.content[i] = Malformed}

Import(s) ==
    LET u == upload[s]
        breaksOff == IsBroken(u.content)
    IN  /\ status[s] = "pending"
        /\ \A i \in Readable(u.content) : u.content[i] # Fatal
        /\ transactions' = transactions \cup
            {[fingerprint |-> Fingerprint(u.account, u.content[i]),
              account |-> u.account, line |-> u.content[i], job |-> s, row |-> i] :
                i \in FreshRows(u)}
        /\ tally' = [tally EXCEPT ![s] =
            [imported   |-> Cardinality(FreshRows(u)),
             duplicates |-> Cardinality(LineRows(u) \ FreshRows(u)),
             failed     |-> Cardinality(MalformedRows(u)) + (IF breaksOff THEN 1 ELSE 0)]]
        /\ status' = [status EXCEPT ![s] = IF breaksOff THEN "failed" ELSE "done"]
        /\ UNCHANGED upload

Next ==
    \/ \E s \in Statement, u \in Upload : Queue(s, u)
    \/ \E s \in Statement : Import(s)

Spec == Init /\ [][Next]_vars
=============================================================================
