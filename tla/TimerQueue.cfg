SPECIFICATION FairSpec
CONSTANTS
    Timers = {1, 2}
    Period <- MCPeriod
    Others = {o1}
    NoTimer = NoTimer
    MinDelay = 1
    Horizon = 4
    MaxPending = 2
    Asserts = FALSE
    SentryOutcomes = {"crash", "survives"}
INVARIANTS TypeOK SetsMatch CancelledStaysOut ArmedForEarliest
PROPERTIES NeverTooSoon EachTimerExpires
CHECK_DEADLOCK FALSE
