SPECIFICATION MCSpec
CONSTANTS
    Prio = {1}
    Code <- MCCode
    Val = {"x"}
    NUM_PRI = 4
    _PULSE_COUNT_MAX = 1
    min = 1
    HIGHWATER_CALLS = 2
    max = 3
    Heap = 3
    CRIT_SIZE = 1
    MaxSend = 2
    MaxSig = 1
INVARIANT BlocksExact
PROPERTY ChannelInOrder
PROPERTY SignalsInOrder
