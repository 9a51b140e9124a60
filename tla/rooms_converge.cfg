SPECIFICATION SpreadSpec
CONSTANTS
    Node = {1, 2}
    Room = {r1}
    Config <- OneRoomEach
    NoNode = NoNode
    Idle = Idle
    MaxRev = 4
    MaxInFlight = 2
    Budgets <- OneCrash
PROPERTIES
    ViewsConverge
CHECK_DEADLOCK FALSE
