--------------------------- MODULE StatementData ---------------------------
(***************************************************************************)
(* What a statement import is about: the files users upload, the lines     *)
(* read out of them and the transactions stored for those lines.           *)
(*                                                                         *)
(* A file is the sequence of what its reader yields (worker.py,            *)
(* _parse_csv and _parse_xlsx): a Line stands for one well-formed row, a   *)
(* time, a description and an amount; the three other items are            *)
(*   Malformed  a row the reader yields as None;                           *)
(*   Broken     the file cannot be read from here on, with one of the      *)
(*              errors _process_statement catches around its loop: a       *)
(*              wrong header, bytes that are no UTF-8, a damaged archive;  *)
(*   Fatal      handling the row raises an error nothing catches: a value  *)
(*              the database refuses (a description of more than 1000      *)
(*              characters, an amount beyond NUMERIC(20, 2)), csv.Error.   *)
(* Blank spreadsheet rows are skipped by the reader and yield no item.     *)
(***************************************************************************)
EXTENDS Naturals, Sequences

CONSTANTS
    Statement,    \* ids of the statement jobs that may be queued
    User,         \* the users
    Account,      \* the accounts
    Owner,        \* the user each account belongs to, which never changes
    Line,         \* well-formed rows a file may hold
    Malformed, Broken, Fatal,    \* the other items a reader yields
    Content,      \* the files users may upload
    Time,         \* values of the clock that stamps an upload
    None          \* no upload yet, no job in hand

Item == Line \cup {Malformed, Broken, Fatal}

ASSUME StatementAssumption == Statement \subseteq Nat
ASSUME OwnerAssumption     == Owner \in [Account -> User]
ASSUME TimeAssumption      == Time \subseteq Nat
ASSUME ItemAssumption ==
    /\ Malformed \notin Line /\ Broken \notin Line /\ Fatal \notin Line
    /\ Malformed # Broken /\ Broken # Fatal /\ Fatal # Malformed
ASSUME ContentAssumption   == Content \subseteq Seq(Item)

\* A row of the table statements, as the upload wrote it.
Upload == [user : User, account : Account, content : Content, created_at : Time]

ASSUME NoneAssumption == None \notin Upload /\ None \notin Statement

Status == {"absent", "pending", "done", "failed"}
Tally  == [imported : Nat, duplicates : Nat, failed : Nat]
NoTally == [imported |-> 0, duplicates |-> 0, failed |-> 0]

\* The key of the unique index on transactions.  The digested text is
\* account|time|description|amount; time and amount hold no '|', so equal
\* digests mean the same account and the same line.
Fingerprint(account, line) == <<account, line>>

\* A row of the table transactions.  job and row say which statement and
\* which of its rows it came from; the program does not store them.
Transaction ==
    [fingerprint : Account \X Line, account : Account, line : Line,
     job : Statement, row : Nat \ {0}]

\* The rows of a file that are read before it turns out to be broken.
Readable(content) ==
    {i \in DOMAIN content : \A k \in 1 .. i : content[k] # Broken}

IsBroken(content) == \E i \in DOMAIN content : content[i] = Broken

\* The account of an upload belongs to the user who uploaded.
Owned(u) == Owner[u.account] = u.user
=============================================================================
