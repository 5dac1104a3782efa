SPECIFICATION Spec
CONSTANTS
    Null = Null
    Accept = Accept
    Conns = {c1, c2}
    Workers = {w1, w2}
    Factor = 0
    MaxConns = 2
    Outcomes = {"WRITE"}
    Modes = {1}
    Wakeable = TRUE
    Failures = FALSE
SYMMETRY Alike
INVARIANTS
    TypeOK
    OneHolder
    
    
CHECK_DEADLOCK FALSE
