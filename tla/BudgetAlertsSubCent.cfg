\* One request at a time, amounts below a cent: a crossing without an alert.
SPECIFICATION Spec
CONSTANTS
    Request = {r1, r2}
    ImportedRow = {}
    Envelope = {food}
    NoEnvelope = none
    Amount <- SubCents
    Limit <- Limits
    NoBudget = nobudget
    InitialBudget <- FirstBudgets
    MaxConcurrent = 1
PROPERTY EveryCrossingAlerts
SYMMETRY RequestSymmetry
CHECK_DEADLOCK FALSE
