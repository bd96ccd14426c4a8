SPECIFICATION Spec
CONSTANTS
    Timers = {1, 2}
    Period <- MCPeriod
    Others = {o1}
    NoTimer = NoTimer
    MinDelay = 1
    Horizon = 3
    MaxPending = 1
    Asserts = TRUE
    SentryOutcomes = {"crash"}
INVARIANT HandlerReachesCallbacks
CHECK_DEADLOCK FALSE
