SPECIFICATION MCSpec
CONSTANTS
    t1 = t1
    t2 = t2
    NIL = NIL
    Thread <- MCThreads
    Killable <- MCThreads
    Levels = 2
    clock = 0
    EventOnly = {}
    priority <- MCPriority
    NUM_PRI = 4
    num_init = 4
    MaxAlloc = 5
    MaxAdds = 2
    MIN_INTRS_BAD = 2
INVARIANT PriorityIsQueued
INVARIANT NoEntryLost
INVARIANT NothingForTheDead
PROPERTY DeliveredInOrder
PROPERTY KeepsDelivering
CHECK_DEADLOCK FALSE
