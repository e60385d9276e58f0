SPECIFICATION MCSpec
CHECK_DEADLOCK FALSE
CONSTANTS
    P1 = P1
    P2 = P2
    t1 = t1
    t2 = t2
    s1 = s1
    s2 = s2
    f1 = f1
    c1 = c1
    Proc = {P1, P2}
    Thread = {t1, t2, s1, s2}
    Chan = {ch}
    Conn = {c1, c2}
    Coid = {f1, f2}
    process <- MCprocess
    chproc <- MCchproc
    chflags <- Unblocking
    MayAttach <- MCMayAttach
    Mortal = {t1, s1}
    MayExit = {P1}
    Destroyable = {}
    PulseReceivers = {}
    ReplyFault = FALSE
    AllocOk = {TRUE}
    MaxUserPulse = 0
    NONE = NONE
INVARIANTS
    UnblockAnnounced UnblockReqFresh ContractKept ClientIsServed
PROPERTY LetGoInTheEnd
