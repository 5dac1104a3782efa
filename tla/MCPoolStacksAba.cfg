SPECIFICATION Spec
CONSTANTS
    Null = Null
    Pools = {a, b}
    Workers = {w1, w2}
    InitMaxRecycled <- Unlimited
    CountMod = 65536
    MaxConns = 3
    MaxDefers = 3
SYMMETRY Alike
INVARIANTS
    PoppedIsDeferred
CHECK_DEADLOCK FALSE
