SPECIFICATION FairSpec
CONSTANTS
    Clients = {c1, c2}
    IOThread = io
    Functors = {f1, f2, f3}
    Channels = {ch1}
    NoThread = NoThread
    NoFunctor = NoFunctor
    CallsBeforeLoop = FALSE
INVARIANTS TypeOK NoLostWakeup LockDiscipline
PROPERTIES ImplementsTaskQueue QuitEndsLoop ReadyIsHandled CallsReturn
