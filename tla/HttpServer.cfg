SPECIFICATION FairSpec
CONSTANTS
    Scripts <- MCScripts
    ResponseLen = 2
    SendBuffer = 2
INVARIANTS TypeOK CutsDoNotMatter AnswersAreWhole ClosesWhenWritten
PROPERTY EachAnswered
CHECK_DEADLOCK FALSE
