\* Two jobs over every kind of file, two users, two workers, a crash.
SPECIFICATION FairSpec
CONSTANTS
    ann = ann  bob = bob  current = current  savings = savings
    x = x  y = y  malformed = malformed  broken = broken  fatal = fatal
    Statement = {1, 2}
    User = {ann, bob}
    Account = {current, savings}
    Owner <- MCOwner
    Line = {x, y}
    Malformed = malformed
    Broken = broken
    Fatal = fatal
    Content <- AllFiles
    Time = {1}
    None = none
    Worker = {w1, w2}
    MaxCrashes = 1
INVARIANTS TypeOK NoDoubleImport NothingLost TallyIsTrue AllOrNothing SerialInv
PROPERTIES FinishedIsFinal ImportIsSerial JobsFinishUnlessPoisoned
CHECK_DEADLOCK FALSE
