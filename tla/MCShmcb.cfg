SPECIFICATION Spec
CONSTANTS
    None = None
    Ids = {a, b, c}
    IdLen = 2
    Values = {"s", "full", "huge"}
    ValLen <- MCValLen
    DestLens = {1, 7}
    DataSize = 10
    IndexNum = 2
    MaxTime = 1
SYMMETRY Alike
INVARIANTS
    TypeOK
    Contiguous
    EntriesIntact
PROPERTIES
    
    OldestGoFirst
CHECK_DEADLOCK FALSE
