SPECIFICATION MCSpec
CONSTANTS
    t1 = t1
    t2 = t2
    prp = prp
    Thread <- MCThreads
    Sig = {16, 18}
    SIGTSTP = 24
    SIGCONT = 25
    DflIgnore = {18}
    Calls = {"procmask", "foreign", "waitinfo", "threads"}
    Flags = {}
    Masks = {{}}
    Repeats = {FALSE}
    Fails = {FALSE}
    HANDLERS_PER_SIGTABLE = 4
    MaxPending = 1
    MaxNest = 2
INVARIANT NoSignalForgotten
INVARIANT MaskRestored
PROPERTY StopAndContCancel
PROPERTY HandledInTheEnd
\* the process may die
CHECK_DEADLOCK FALSE
