SPECIFICATION Spec
CHECK_DEADLOCK FALSE
CONSTANTS
    P1 = P1
    P2 = P2
    t1 = t1
    t2 = t2
    s1 = s1
    s2 = s2
    Proc = {P1, P2}
    Thread = {t1, s1}
    Chan = {ch}
    Conn = {c1}
    Coid = {f1}
    process <- MCprocess
    chproc <- MCchproc
    chflags <- Unblocking
    MayAttach <- MCMayAttach
    Mortal = {}
    MayExit = {}
    Destroyable = {ch}
    PulseReceivers = {}
    ReplyFault = FALSE
    AllocOk = {TRUE}
    MaxUserPulse = 0
    NONE = NONE
PROPERTY SentWithoutUnblock
