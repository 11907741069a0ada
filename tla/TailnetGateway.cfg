SPECIFICATION Spec
CONSTANTS
    Peers = {p1, p2}
    Nobody = Nobody
    Handlers = {h1, h2}
    MaxSessions = 1
    Lifetime = 2
    MaxTime = 5
INVARIANTS
    TypeOK
    ServesRecorded
    FailedStartLeavesNothing
    LossEndsShare
    SlotsMatch
PROPERTIES
    ShareEnds
CHECK_DEADLOCK FALSE
