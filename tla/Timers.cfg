SPECIFICATION MCSpec
CONSTANTS
    t1 = t1
    t2 = t2
    q1 = q1
    q2 = q2
    Queue0 = q1
    NIL = NIL
    END = END
    Timer <- MCTimers
    Queue <- MCQueues
    Full = {FALSE}
    MaxKicks = 1
INVARIANT NoUseAfterFree
INVARIANT LinksSane
INVARIANT FiresOnce
INVARIANT SettimeTold
PROPERTY TimerIsServed
