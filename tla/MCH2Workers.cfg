SPECIFICATION Spec
CONSTANTS
    MaxSlots = 2
    MinActive = 1
    Producers = {p1, p2}
    Limit = 2
    MaxStreams = 2
    MaxFails = 1
    LateSignalWakes = FALSE
SYMMETRY Sessions
INVARIANTS
    TypeOK
    RingsExact
    ProducersExact
    JoinMeansQuiet
    MinActiveKept
CHECK_DEADLOCK FALSE
