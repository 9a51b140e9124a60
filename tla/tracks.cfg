SPECIFICATION Spec
CONSTANTS
    Room = {r1, r2}
    Peer = {p1, p2, p3}
    TrackId = {t1, t2}
    Worker = {w1, w2}
    None = None
    MaxPackets = 2
    MaxSent = 3
SYMMETRY Symmetry
INVARIANTS
    NothingLeftOver
    NeverOvercounted

    
CHECK_DEADLOCK FALSE
