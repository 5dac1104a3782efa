SPECIFICATION FairSpec
CONSTANTS
    Workers = {w1, w2}
    MaxSockets = 3
    MaxTimers = 1
    MaxTerms = 1
    MaxSpurious = 0
INVARIANTS
    TypeOK
    IdlersAccount
    EofMeansDrained
PROPERTIES
    ImplementsHandOff
    ListenerUnblocks
    QueueDrains
    WorkersExit
CHECK_DEADLOCK FALSE
