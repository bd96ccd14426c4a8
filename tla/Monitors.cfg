\* The queues and pools that threads share: two producers and two consumers,
\* at most three elements put, capacity one.
SPECIFICATION FairSpec
CONSTANTS
    Producers = {p1, p2}
    Consumers = {c1, c2}
    Owner = owner
    NoThread = NoThread
    Nothing = Nothing
    MaxSize = 1
    MaxPuts = 3
INVARIANTS
    TypeOK
    QueueIsKept
    NoLostWakeup
PROPERTY
    CallsEnd
\* Producers and consumers of an empty queue may have nothing more to do.
CHECK_DEADLOCK FALSE
