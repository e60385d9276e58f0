SPECIFICATION MCSpec
CONSTANTS
    c1 = c1
    c2 = c2
    Server = Server
    NONE = NONE
    Client = {c1, c2}
    Unblock = TRUE
    Features = {"any_flags", "delete", "signal", "mutex", "sleep"}
INVARIANTS NoStaleTimeout NoArmedTimerWhenRunning RequestIsCovered
PROPERTY TimedSendEnds
\* everybody may wait without a timeout
CHECK_DEADLOCK FALSE
