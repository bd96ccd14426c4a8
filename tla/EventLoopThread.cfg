SPECIFICATION FairSpec
CONSTANTS
    Owner = owner
    Child = child
    NoThread = NoThread
    NoFunctor = NoFunctor
    Functors = {f1, f2}
    Channels = {ch1}
    CallsBeforeLoop = TRUE
INVARIANT StartedLoopExists
PROPERTIES StartReturns 
