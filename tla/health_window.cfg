SPECIFICATION Spec
CONSTANTS
    Node = {1, 2}
    HeartbeatSecs = 1
    Misses = 2
    MsPerSec = 3
    Offset <- InSync
    MaxDelay = 0
    Lag = 0
    MaxTime = 6
    MaxCrashes = 0
PROPERTIES
    DeadOnlyAfterMisses
CHECK_DEADLOCK FALSE
