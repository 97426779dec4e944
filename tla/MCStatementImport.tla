------------------------- MODULE MCStatementImport -------------------------
\* Instances of StatementImport for TLC.
EXTENDS StatementImportInv, TLC

CONSTANTS ann, bob, current, savings, x, y, malformed, broken, fatal

\* ann owns the current account, bob the savings account.
MCOwner == current :> ann @@ savings :> bob

OneOwner == current :> ann

\* Two files with the same lines in opposite order, a line repeated around a
\* malformed row, a file that breaks off, a file a row of which is fatal.
CrossedFiles == {<<x, y>>, <<y, x>>}
OddFiles     == {<<x, malformed, x>>, <<y, broken>>, <<x, fatal>>}
AllFiles     == CrossedFiles \cup OddFiles
PoisonFiles  == {<<x>>, <<fatal>>}

WorkerSymmetry == Permutations(Worker)
=============================================================================
