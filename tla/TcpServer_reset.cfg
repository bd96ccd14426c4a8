SPECIFICATION Spec
CONSTANTS
    Conns = {c1}
    Setups <- ResetSetups
CHECK_DEADLOCK FALSE
INVARIANT OnlyRemoveFails
