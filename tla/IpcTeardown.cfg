SPECIFICATION MCSpec
CHECK_DEADLOCK FALSE
CONSTANTS
    P1 = P1
    P2 = P2
    t1 = t1
    t2 = t2
    s1 = s1
    s2 = s2
    f2 = f2
    Proc = {P1, P2}
    Thread = {t1, t2, s1}
    Chan = {ch}
    Conn = {c1}
    Coid = {f1, f2}
    process <- MCprocess
    chproc <- MCchproc
    chflags <- Both
    MayAttach <- MCMayAttach
    Mortal = {t1}
    MayExit = {P2}
    Destroyable = {ch}
    PulseReceivers = {}
    ReplyFault = TRUE
    AllocOk = {TRUE, FALSE}
    MaxUserPulse = 0
    NONE = NONE
INVARIANTS
    QueuesMatch LinkCount ServerHasClient LongCallSafe
