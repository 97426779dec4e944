\* A row that raises an uncaught error keeps its job pending for ever.
SPECIFICATION FairSpec
CONSTANTS
    ann = ann  bob = bob  current = current  savings = savings
    x = x  y = y  malformed = malformed  broken = broken  fatal = fatal
    Statement = {1, 2}
    User = {ann}
    Account = {current}
    Owner <- OneOwner
    Line = {x, y}
    Malformed = malformed
    Broken = broken
    Fatal = fatal
    Content <- PoisonFiles
    Time = {1, 2}
    None = none
    Worker = {w1}
    MaxCrashes = 0
PROPERTY JobsFinish
CHECK_DEADLOCK FALSE
