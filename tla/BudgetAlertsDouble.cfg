\* Overlapping requests: two alerts for one budget.
SPECIFICATION Spec
CONSTANTS
    Request = {r1, r2, r3}
    ImportedRow = {}
    Envelope = {food}
    NoEnvelope = none
    Amount <- WholeCents
    Limit <- Limits
    NoBudget = nobudget
    InitialBudget <- FirstBudgets
    MaxConcurrent = 2
INVARIANT OneAlertPerBudget
SYMMETRY RequestSymmetry
CHECK_DEADLOCK FALSE
