SPECIFICATION Spec

CONSTANTS
    Event = {1, 2}
    None = none
    MaxOpen = 2
    ClockStep = 1
    MaxDrops = 0

INVARIANTS
    NothingPassedOver

