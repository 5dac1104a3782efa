SPECIFICATION Spec
CONSTANTS
    Workers = {w1, w2}
    MaxSockets = 4
    MaxTimers = 0
    MaxTerms = 0
    MaxSpurious = 0
INVARIANTS
    ReservedMeansRoom
CHECK_DEADLOCK FALSE
