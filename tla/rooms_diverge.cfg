SPECIFICATION SpreadSpec
CONSTANTS
    Node = {1, 2, 3}
    Room = {r1}
    Config <- OneRoomEach
    NoNode = NoNode
    Idle = Idle
    MaxRev = 3
    MaxInFlight = 1
    Budgets <- OneTrueDeath
PROPERTIES
    ViewsConverge
CHECK_DEADLOCK FALSE
