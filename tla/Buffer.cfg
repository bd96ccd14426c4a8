SPECIFICATION Spec
CONSTANTS
    Base = 2
    kCheapPrepend = 2
    kInitialSize = 2
    ExtraSize = 2
    IntSizes = {1, 2}
    MaxMessage = 3
    MaxReadable = 5
INVARIANTS TypeOK SpaceIsBounded IntsSurvive
PROPERTY ImplementsByteQueue
