SPECIFICATION MCSpec
CONSTANTS
    Writer = {w1, w2}
    Reader = {r1}
    Value = {"a", "b"}
    Pieces = 2
    MaxFiles = 3
    Concurrent = FALSE
    Process = {p1, p2}
    Parts = 2
    MaxRecords = 3
    MaxBatch = 2
INVARIANTS
    ReadsWhole
    LossesBounded
PROPERTIES
    FileIsRegister
    LogImplemented
CHECK_DEADLOCK FALSE
