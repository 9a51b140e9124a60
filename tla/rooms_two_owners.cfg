SPECIFICATION Spec
CONSTANTS
    Node = {1, 2, 3}
    Room = {r1}
    Config <- OneRoomEach
    NoNode = NoNode
    Idle = Idle
    MaxRev = 4
    MaxInFlight = 1
    Budgets <- TwoTrueDeaths
INVARIANTS
    AtMostOneOwner
CHECK_DEADLOCK FALSE
