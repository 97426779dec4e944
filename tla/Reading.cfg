\* A ledger of three rows, two of them of the same day, while it is
\* re-categorised and read.
SPECIFICATION Spec
CONSTANTS
    lira = lira
    dollar = dollar
    TRY = TRY
    USD = USD
    market = market
    rent = rent
    migros = migros
    other = other
    mig = mig
    m = m
    Id = {1, 2, 3}
    Account = {lira, dollar}
    Currency <- Currencies
    Category = {market, rent}
    NoCategory = none
    Filter <- Filters
    Pattern = {mig, m}
    Text = {migros, other}
    Contains <- Contained
    Entry <- Entries
    NewRule <- Rules
    Limit = {2}
    Writer = {w1, w2}
    Month <- Months
    MaxConcurrent = 2
INVARIANTS TypeOK PagesHideNothing ReportAddsUp TrendAddsUp ExportIsTheMonth
    BudgetsMatchReports
PROPERTIES PagesGoOn FollowsRules
SYMMETRY WriterSymmetry
CHECK_DEADLOCK FALSE
