SPECIFICATION Spec
CONSTANTS
    NumberSpace = 5
    Window = 2
    MaxRetries = 2
    Track = 4
    MaxSent = 9
    MaxNacks = 2
INVARIANTS
    CacheIsRecent
    RetriesBounded
PROPERTIES
    AsksBeforeWrap
CHECK_DEADLOCK FALSE
