------------------------------- MODULE MCSync -------------------------------
(***************************************************************************)
(* An instance of Sync for TLC, in four scenarios that are chosen once:    *)
(*   lock      three threads, a condition variable, timeouts;              *)
(*   handlers  two threads on a recursive mutex, with signal handlers;     *)
(*   death     two threads on a recursive mutex whose owner may die;       *)
(*   handover  three threads, a condition variable, and fair scheduling.   *)
(***************************************************************************)
EXTENDS Sync, TLC

CONSTANTS t1, t2, t3

VARIABLE scenario

Lock     == INSTANCE Sync WITH Recursive <- FALSE, MaxDepth <- 1, Events <- {"timeout", "cond"}
Handlers == INSTANCE Sync WITH Events <- {"timeout", "cond", "signal", "kill"}
Death    == INSTANCE Sync WITH Events <- Events \ {"signal"}
Handover == INSTANCE Sync WITH Recursive <- FALSE, MaxDepth <- 1, Events <- {"cond"}

MCvars == <<vars, scenario>>
MCInit == Init /\ scenario \in {"lock", "handlers", "death", "handover"}
TwoThreads == at'[t3] = "user" /\ depth'[t3] = 0
MCNext ==
    /\ \/ scenario = "lock" /\ Lock!Next
       \/ scenario = "handlers" /\ Handlers!Next /\ TwoThreads
       \/ scenario = "death" /\ Death!Next /\ TwoThreads
       \/ scenario = "handover" /\ Handover!Next
    /\ UNCHANGED scenario

\* Some thread goes on, as Fairness in Sync says of every thread: this is all the property
\* below needs.
Goes(A(_)) == scenario = "handover" /\ \E t \in Thread : A(t)
MCSpec ==
    /\ MCInit /\ [][MCNext]_MCvars
    /\ SF_vars(Goes(LAMBDA t : \/ Handover!sync_mutex_lock_enter(t) \/ Handover!sync_mutex_unlock(t)
                               \/ Handover!timer_fire(t) \/ Handover!ker_signal_return(t)))
    /\ SF_vars(Goes(LAMBDA t : Handover!sync_mutex_lock_take(t) \/ Handover!sync_mutex_lock_queue(t)))
    /\ WF_vars(Goes(LAMBDA t : \/ Handover!sync_mutex_lock_retry(t) \/ Handover!library_return(t)
                               \/ Handover!synchash_rem_loop(t)))

\* No wake-up is lost between the exchange in pthread_mutex_unlock and the blocking in
\* sync_mutex_lock, as long as no thread is killed on its way through them.
NoWaiterForgotten == scenario \in {"lock", "handover"} => WaitersRemembered

\* A free mutex with waiters does not stay free: sync_mutex_unlock and sync_mutex_lock wake
\* the first waiter, who takes the mutex, or somebody else took it.
FreeMutexHandedOn ==
    (scenario = "handover" /\ waiting # {} /\ word.own = "FREE")
        ~> (waiting = {} \/ word.own # "FREE")
=============================================================================
