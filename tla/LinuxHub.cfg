SPECIFICATION Spec
CONSTANTS
    WarpOrder <- MCWarpOrder
    MayOverlap = FALSE
    MaxFaults = 1
INVARIANTS
    TypeOK
    SessionProven
    TestLeavesNothing
    NothingUnowned
    ExitLeavesNothing
PROPERTY RouteFirst
