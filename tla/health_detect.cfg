SPECIFICATION Spec
CONSTANTS
    Node = {1, 2}
    HeartbeatSecs = 1
    Misses = 1
    MsPerSec = 2
    Offset <- SecondAhead
    MaxDelay = 1
    Lag = 0
    MaxTime = 7
    MaxCrashes = 1
INVARIANTS
    DetectedInTime
PROPERTIES
    ViewsImplemented
CHECK_DEADLOCK FALSE
