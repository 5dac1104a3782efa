SPECIFICATION Spec
CONSTANTS
    Workers = {w1}
    MaxSockets = 5
    MaxTimers = 1
    MaxTerms = 1
    MaxSpurious = 1
INVARIANTS
    OverrunBound
CHECK_DEADLOCK FALSE
