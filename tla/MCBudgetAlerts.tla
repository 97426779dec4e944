--------------------------- MODULE MCBudgetAlerts ---------------------------
\* Instances of BudgetAlerts for TLC.  Amounts are tenths of a cent.
EXTENDS BudgetAlerts, TLC

\* A limit of 5.00 and expenses that reach it, cross it or stay below it.
WholeCents == {-3000, -2000}
Limits     == {5000}

\* Expenses of 5.00 and of 0.006, which is stored as 0.01.
SubCents == {-5000, -6}

NoBudgets    == [e \in Envelope |-> NoBudget]
FirstBudgets == [e \in Envelope |-> 5000]

RequestSymmetry == Permutations(Request)
=============================================================================
