SPECIFICATION FairSpec
CONSTANTS
    MaxSlots = 2
    MinActive = 2
    Producers = {p1}
    Limit = 2
    MaxStreams = 3
    MaxFails = 0
    LateSignalWakes = FALSE

    
PROPERTIES
    
    JoinReturns
    CleanupEnds
CHECK_DEADLOCK FALSE
