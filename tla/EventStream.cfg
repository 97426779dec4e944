SPECIFICATION FairSpec

CONSTANTS
    Event = {1, 2, 3}
    None = none
    MaxOpen = 2
    ClockStep = 0
    MaxDrops = 1

INVARIANTS
    TypeOK
    InOrderWithoutRepeats
    OnlyOvertakenPassedOver

PROPERTIES
    EventuallyReceived
