----------------------------- MODULE MCSignals ------------------------------
(***************************************************************************)
(* An instance of Signals for TLC, in scenarios that are chosen once:      *)
(*   threads  two threads that are created and end, change each other's    *)
(*            masks, and wait for signals;                                 *)
(*   memory   one thread with a debugger and timeouts, while the heap may  *)
(*            be exhausted;                                                *)
(*   equal    one thread with a debugger, and equal signals that are       *)
(*            counted in one entry when they are queued;                   *)
(*   mask     one thread, whose handlers use SA_NODEFER and nest with      *)
(*            SignalSuspend;                                               *)
(*   reset    one thread, whose handlers use SA_RESETHAND;                 *)
(*   suspend  one thread in SignalSuspend, with timeouts and cancellation; *)
(*   stop     two threads, and the signals that stop and continue;         *)
(*   fair     one thread that is scheduled fairly.                         *)
(* There are two signals, which stand for the stop signal and SIGCONT in   *)
(* "stop"; the second is ignored by default in the first five.             *)
(***************************************************************************)
EXTENDS Signals

CONSTANTS t1, t2

VARIABLE scenario

MCThreads == {t1, t2}

Memory == INSTANCE Signals WITH
    Calls <- {"procmask", "waitinfo", "timeout", "ignore", "block", "debug"}, Repeats <- BOOLEAN,
    Fails <- BOOLEAN
Equal == INSTANCE Signals WITH
    Calls <- {"procmask", "waitinfo", "ignore", "debug"}, Repeats <- BOOLEAN, MaxPending <- 2
Mask == INSTANCE Signals WITH
    Calls <- {"procmask", "suspend"}, Flags <- {"nodefer"}, MaxPending <- 2
Reset == INSTANCE Signals WITH
    Calls <- {"procmask"}, Flags <- {"resethand"}
Suspend == INSTANCE Signals WITH
    Calls <- {"procmask", "suspend", "timeout", "cancel"}, DflIgnore <- {}, MaxPending <- 2
Stop == INSTANCE Signals WITH
    Calls <- {"procmask", "ignore", "threads"}, SIGTSTP <- 16, SIGCONT <- 18, DflIgnore <- {}
Steady == INSTANCE Signals WITH
    Calls <- {"procmask", "suspend", "waitinfo", "block"}, DflIgnore <- {}, MaxPending <- 2

MCvars == <<vars, scenario>>
MCInit ==
    /\ \/ scenario \in {"threads", "equal", "mask", "reset", "suspend", "stop", "fair"} /\ Init
       \/ scenario = "memory" /\ Memory!Init
    /\ state[t1] = "run"
MCNext ==
    /\ \/ scenario = "threads" /\ Next
       \/ scenario = "memory" /\ Memory!Next
       \/ scenario = "equal" /\ Equal!Next
       \/ scenario = "mask" /\ Mask!Next
       \/ scenario = "reset" /\ Reset!Next
       \/ scenario = "suspend" /\ Suspend!Next
       \/ scenario = "stop" /\ Stop!Next
       \/ scenario = "fair" /\ Steady!Next
    /\ UNCHANGED scenario
MCSpec == MCInit /\ [][MCNext]_MCvars /\ WF_vars(scenario = "fair" /\ Steady!SpecRet(t1))

\* An unblocked signal is never forgotten: a thread with a pending signal that it does not
\* block has the flag SIG_ACTIVE, which makes specialret look for it, and does not sleep; and
\* a signal stays with the process only while no thread could take it.  When SignalSuspend
\* times out specialret does not keep to this, so this scenario is left out; and signal_specret
\* does not for signals that are counted in one entry and have a handler with SA_NODEFER or
\* SA_RESETHAND, so "equal" has none.
NoSignalForgotten == scenario # "suspend" => ActiveIfPending /\ ProcessPendingBlocked

\* special_case_signalhandling lets a stop and SIGCONT cancel each other: SIGCONT continues
\* the process and removes the stop signals that are pending, whether its threads block, handle
\* or ignore it, as long as none of them waits for it; and no list of a stopped process holds a
\* SIGCONT.
StopAndContCancel ==
    [][scenario = "stop" => /\ Stop!SignalKill(18) => Stop!NotStopped'
                            /\ Stop!StoppedWithoutCont']_vars

\* signal_specret handles a signal that the thread does not block, unless it is removed or
\* blocked, or the process dies first: the higher signals that keep arriving do not starve it.
HandledInTheEnd ==
    \A s \in Sig : (scenario = "fair" /\ s \in Open(pending, t1, blocked[t1])) ~> s \notin Open(pending, t1, blocked[t1]) \/ dead
=============================================================================
