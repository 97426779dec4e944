SPECIFICATION Spec

CONSTANTS
    Event = {1}
    None = none
    MaxOpen = 1
    ClockStep = 1
    MaxDrops = 0

PROPERTIES
    ClosesWithNothingNew
