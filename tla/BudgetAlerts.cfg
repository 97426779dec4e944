\* Overlapping requests, an import, re-categorising.
SPECIFICATION Spec
CONSTANTS
    Request = {r1, r2, r3}
    ImportedRow = {i1}
    Envelope = {food}
    NoEnvelope = none
    Amount <- WholeCents
    Limit <- Limits
    NoBudget = nobudget
    InitialBudget <- NoBudgets
    MaxConcurrent = 3
INVARIANTS TypeOK NoFalseAlarm
PROPERTY AlertsExactlyAtCrossings
SYMMETRY RequestSymmetry
CHECK_DEADLOCK FALSE
