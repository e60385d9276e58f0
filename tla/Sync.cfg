SPECIFICATION MCSpec
CONSTANTS
    t1 = t1
    t2 = t2
    t3 = t3
    NONE = NONE
    Thread = {t1, t2, t3}
    Recursive = TRUE
    MaxDepth = 2
    Events = {"timeout", "signal", "cond", "kill", "destroy", "revive"}
INVARIANTS MutualExclusion ResultIsTrue CountExact NoWaiterForgotten
PROPERTY FreeMutexHandedOn
\* all threads may be dead
CHECK_DEADLOCK FALSE
