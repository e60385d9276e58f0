SPECIFICATION Spec
CONSTANTS
    t1 = t1
    t2 = t2
    Timer <- MCTimers
    mask = 1
    width = 4
    nsec_inc = 3
    MaxFires = 1
    Soft <- MCSoft
    MaxLate = 9
    Aheads <- MCAheads
    Intervals = {0, 1, 8}
    Jumps = {3, 9}
INVARIANT OnTime
 
CHECK_DEADLOCK FALSE
