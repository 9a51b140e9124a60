SPECIFICATION Spec
CONSTANTS
    Node = {1, 2, 3}
    Room = {r1}
    Config <- OneRoomEach
    NoNode = NoNode
    Idle = Idle
    MaxRev = 3
    MaxInFlight = 1
    Budgets <- CrashOrClose
INVARIANTS
    TypeOK
    TablesAgree
    OwnerReachable
    ReplyMatchesRequest
    OwnerAccepted
    AtMostOneOwner
PROPERTIES
    ViewNeverGoesBack
CHECK_DEADLOCK FALSE
