CONSTANTS
    Requests = {r1, r2, r3}
    Jobs = 1
    QueueLimit = 2
SPECIFICATION FairSpec
PROPERTIES
    ImplementsSlotQueue
    EveryRequestEnds
    FreedMemoryReturned
