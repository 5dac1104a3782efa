SPECIFICATION FairSpec
CONSTANTS
    Null = Null
    Accept = Accept
    Conns = {c1}
    Workers = {w1}
    Factor = 0
    MaxConns = 0
    Outcomes = {"WRITE"}
    Modes = {1}
    Wakeable = TRUE
    Failures = FALSE
PROPERTIES
    DeferredServed
CHECK_DEADLOCK FALSE
