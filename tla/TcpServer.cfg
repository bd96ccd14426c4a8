SPECIFICATION FairSpec
CONSTANTS
    Conns = {c1, c2}
    Setups <- AllSetups
CHECK_DEADLOCK FALSE
INVARIANTS TypeOK AssertsHold DestroyedClean NothingDangles ShutdownWaits ClosedLeavesMap
PROPERTY Reclaimed
