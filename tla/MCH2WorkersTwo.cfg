SPECIFICATION FairSpec
CONSTANTS
    MaxSlots = 1
    MinActive = 1
    Producers = {p1, p2}
    Limit = 1
    MaxStreams = 2
    MaxFails = 0
    LateSignalWakes = FALSE
PROPERTIES
    ActivatedIsQueried
CHECK_DEADLOCK FALSE
