SPECIFICATION FairSpec
CONSTANTS
    Me = me
    Other = other
    NoNode = NoNode
    Callers = {c1, c2}
    Probes = {p1}
    MaxRev = 3
    Asked = {0, 1}
    MaxInbox = 2
    Budgets <- Scenarios
INVARIANTS
    NoDeadlock
    MigrationsAccountedFor
    ServesWhatItOwns
    CountsJoins
PROPERTIES
    CallsReturn
CHECK_DEADLOCK FALSE
