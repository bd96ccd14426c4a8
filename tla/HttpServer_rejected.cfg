SPECIFICATION Spec
CONSTANTS
    Scripts <- MCScripts
    ResponseLen = 2
    SendBuffer = 2
INVARIANT AssertsHold
CHECK_DEADLOCK FALSE
