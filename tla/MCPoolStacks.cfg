SPECIFICATION Spec
CONSTANTS
    Null = Null
    Pools = {a, b, c}
    Workers = {w1, w2}
    InitMaxRecycled = 1
    CountMod = 65536
    MaxConns = 3
    MaxDefers = 2
SYMMETRY Alike
INVARIANTS
    TypeOK
    RecycledExact
    CountAccount
    FreeLeavesFew
    
    
CHECK_DEADLOCK FALSE
