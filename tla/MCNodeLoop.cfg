SPECIFICATION Spec
CONSTANTS
    c1 = c1
    c2 = c2
    Calls = {c1, c2}
    Kinds <- MCKinds
    Capacity = 2
    Peers = {p1, p2}
    allowed_peers = {p1}
    MaxNetwork = 1
    MaxTimers = 1
INVARIANTS
    NodeLoopInv
    LossesExplained
    LivePeersKnown
    OneRequestEach
PROPERTY EveryCallEnds
CHECK_DEADLOCK FALSE
