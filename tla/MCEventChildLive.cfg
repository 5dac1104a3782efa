SPECIFICATION FairSpec
CONSTANTS
    Null = Null
    Accept = Accept
    Conns = {c1}
    Workers = {w1}
    Factor = 0
    MaxConns = 0
    Outcomes = {"WAITIO", "WRITE", "SUSPENDED"}
    Modes = {1, 2}
    Wakeable = FALSE
    Failures = TRUE
INVARIANTS
    CountsExact
PROPERTIES
    
    DeferredServed
    
CHECK_DEADLOCK FALSE
