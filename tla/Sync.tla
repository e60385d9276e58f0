-------------------------------- MODULE Sync --------------------------------
(***************************************************************************)
(* One mutex and one condition variable, from the user-level fast path to  *)
(* the kernel's slow path: pthread_mutex_lock, _timedlock, _unlock and     *)
(* pthread_cond_wait, _timedwait of the C library, ker_sync.c and          *)
(* nano_sync.c, and what signals, timeouts, the death of a thread and the  *)
(* unmapping of a mutex do to the threads that wait.                       *)
(*                                                                         *)
(* The owner word of a mutex is in user memory.  Threads on other CPUs     *)
(* change it by atomic instructions while a thread is in the kernel, so an *)
(* action touches it at most once.  The kernel itself is entered by one    *)
(* CPU at a time.  Until a call has locked the kernel it may be preempted, *)
(* and is then repeated from the start.                                    *)
(*                                                                         *)
(* Priorities are left open: the first thread of a list is any of its      *)
(* threads, and a thread may or may not have a higher priority than it.    *)
(***************************************************************************)
EXTENDS Naturals

CONSTANTS
    Thread,      \* threads; each stands for a process of its own that maps the mutex
    NONE,        \* no thread
    Recursive,   \* the mutex lacks QRV_SYNC_NONRECURSIVE
    MaxDepth,    \* bound: how often a thread locks a recursive mutex
    Events       \* what may happen: a subset of AllEvents

\* Values of the owner word that are not a thread
Special   == {"FREE", "INITIALIZER", "DESTROYED", "DEAD"}
AllEvents == {"timeout", "signal", "kill", "destroy", "cond", "revive"}

ASSUME SyncAssumption ==
    /\ NONE \notin Thread /\ Thread \cap Special = {}
    /\ Recursive \in BOOLEAN
    /\ MaxDepth \in Nat \ {0}
    /\ Events \subseteq AllEvents

VARIABLES
    word,      \* sync->__owner: who owns the mutex, and the bit QRV_SYNC_WAITING
    count,     \* sync->__count & QRV_SYNC_COUNTMASK
    waiting,   \* syp->waiting of the mutex: threads in STATE_MUTEX
    condq,     \* syp->waiting of the condition variable: threads in STATE_CONDVAR
    events,    \* processes with a SyncMutexEvent on the mutex
    ker,       \* the thread that is inside the kernel in the middle of a call, or NONE
    at,        \* where each thread is
    op,        \* the call it is in
    acq,       \* QRV_FLG_THR_ACQUIRE_MUTEX
    incr,      \* args.mu.incr
    tmo,       \* timeout_flags
    status,    \* KSTATUS
    saved,     \* what signal_specret saved: mutex_acquire_incr, mutex_timeout_flags
    depth      \* how often the thread has locked the mutex, as its program knows it

mvars == <<word, count, waiting, condq, events>>
tvars == <<at, op, acq, incr, tmo, status, saved, depth>>
vars  == <<word, count, waiting, condq, events, ker, at, op, acq, incr, tmo, status, saved, depth>>

\* Owner words
Free     == [own |-> "FREE", w |-> FALSE]      \* 0
Passing  == [own |-> "FREE", w |-> TRUE]       \* QRV_SYNC_WAITING
Word(o)  == [own |-> o, w |-> FALSE]

(***************************************************************************)
(* at: "user" outside any call; "call" about to enter the kernel; "try" in *)
(* sync_mutex_lock before lock_kernel; "again" after its goto retry,       *)
(* "locked" after the atomic_set that follows; MUTEX and CONDVAR blocked;  *)
(* "spec" ready, with special return work to do; "handler" in a signal     *)
(* handler; "ret" back in the library; "unmap" in synchash_rem; "dead".    *)
(***************************************************************************)
Places  == {"user", "call", "try", "again", "locked", "MUTEX", "CONDVAR",
            "spec", "handler", "ret", "unmap", "dead"}
Calls   == {"none", "lock", "unlock", "cond"}
Errors  == {"EOK", "ETIMEDOUT", "EINTR", "EINVAL", "EOWNERDEAD"}
Timeouts == {"none", "MUTEX", "CONDVAR", "IMMEDIATE"}

TypeOK ==
    /\ word \in [own : Thread \cup Special, w : BOOLEAN]
    /\ count \in Nat
    /\ waiting \subseteq Thread /\ condq \subseteq Thread /\ events \subseteq Thread
    /\ ker \in Thread \cup {NONE}
    /\ at \in [Thread -> Places] /\ op \in [Thread -> Calls]
    /\ acq \in [Thread -> BOOLEAN] /\ incr \in [Thread -> {0, 1}]
    /\ tmo \in [Thread -> Timeouts] /\ status \in [Thread -> Errors]
    /\ saved \in [Thread -> [incr : {0, 1}, tmo : Timeouts]]
    /\ depth \in [Thread -> Nat]

Init ==
    /\ word \in {Free, Word("INITIALIZER")}
    /\ count = 0 /\ waiting = {} /\ condq = {} /\ events = {} /\ ker = NONE
    /\ at = [t \in Thread |-> "user"] /\ op = [t \in Thread |-> "none"]
    /\ acq = [t \in Thread |-> FALSE] /\ incr = [t \in Thread |-> 0]
    /\ tmo = [t \in Thread |-> "none"] /\ status = [t \in Thread |-> "EOK"]
    /\ saved = [t \in Thread |-> [incr |-> 0, tmo |-> "none"]]
    /\ depth = [t \in Thread |-> 0]

-----------------------------------------------------------------------------
\* Mutant: the bit is only set in a word that is owned.
atomic_set_owned(wd) == IF wd.own \in Thread THEN [wd EXCEPT !.w = TRUE] ELSE wd

\* atomic_set(owp, QRV_SYNC_WAITING); the bit is already set in the special values
atomic_set(wd) == IF wd.own \in {"INITIALIZER", "DESTROYED", "DEAD"} THEN wd
                  ELSE [wd EXCEPT !.w = TRUE]

-----------------------------------------------------------------------------
(* The C library *)

\* pthread_mutex_lock and pthread_mutex_timedlock up to SyncMutexLock: the compare and
\* exchange on the owner word, and the recursive case.
pthread_mutex_lock(t, timeout) ==
    /\ at[t] = "user" /\ depth[t] < MaxDepth
    /\ timeout \in {"none"} \cup (IF "timeout" \in Events THEN {"MUTEX", "IMMEDIATE"} ELSE {})
    /\ \/ /\ word = Free
          /\ word' = Word(t)
          /\ count' = count + 1
          /\ depth' = [depth EXCEPT ![t] = @ + 1]
          /\ UNCHANGED <<at, op, tmo>>
       \/ /\ word.own = t /\ Recursive
          /\ count' = count + 1
          /\ depth' = [depth EXCEPT ![t] = @ + 1]
          /\ UNCHANGED <<word, at, op, tmo>>
       \/ /\ word # Free /\ word.own # t
          /\ at' = [at EXCEPT ![t] = "call"]
          /\ op' = [op EXCEPT ![t] = "lock"]
          /\ tmo' = [tmo EXCEPT ![t] = timeout]
          /\ UNCHANGED <<word, count, depth>>
    /\ UNCHANGED <<waiting, condq, events, ker, acq, incr, status, saved>>

\* The library after a call: a lock counts the mutex if the kernel gave it to the thread,
\* a condition wait (EINTR is turned into EOK) returns with the mutex as it was.
library_return(t) ==
    /\ at[t] = "ret"
    /\ at' = [at EXCEPT ![t] = "user"]
    /\ op' = [op EXCEPT ![t] = "none"]
    /\ LET has == IF op[t] = "lock" THEN status[t] = "EOK" ELSE status[t] \in {"EOK", "ETIMEDOUT"}
       IN  depth' = [depth EXCEPT ![t] = IF has THEN 1 ELSE 0]
    /\ count' = IF op[t] = "lock" /\ status[t] = "EOK" THEN count + 1 ELSE count
    /\ UNCHANGED <<word, waiting, condq, events, ker, acq, incr, tmo, status, saved>>

\* pthread_mutex_unlock: the owner counts down, and at the end exchanges the owner word
\* for 0; it enters the kernel if the bit was set.
pthread_mutex_unlock(t) ==
    /\ at[t] = "user" /\ word.own = t /\ count > 0
    /\ count' = count - 1
    /\ depth' = [depth EXCEPT ![t] = IF @ = 0 THEN 0 ELSE @ - 1]
    /\ IF Recursive /\ count > 1
       THEN UNCHANGED <<word, at, op>>
       ELSE /\ word' = Free
            /\ IF word.w THEN /\ at' = [at EXCEPT ![t] = "call"]
                              /\ op' = [op EXCEPT ![t] = "unlock"]
                         ELSE UNCHANGED <<at, op>>
    /\ UNCHANGED <<waiting, condq, events, ker, acq, incr, tmo, status, saved>>

-----------------------------------------------------------------------------
(* sync_mutex_lock, called by SyncMutexLock ("call") and on the special return of a *)
(* thread with QRV_FLG_THR_ACQUIRE_MUTEX ("spec")                                   *)

\* The end of sync_mutex_lock: the thread is back ("ret") or blocks ("MUTEX"), and the
\* threads W are woken by sync_wakeup, which sets their flag and stops their timeouts.
\* The special return then adds incr to the count unless the thread blocks, keeps
\* ETIMEDOUT over the result and clears the flag; SyncMutexLock sets incr to 0.
Settle(t, place, result, W) ==
    /\ at' = [u \in Thread |-> IF u = t THEN place ELSE IF u \in W THEN "spec" ELSE at[u]]
    /\ waiting' = (waiting \ W) \cup (IF place = "MUTEX" THEN {t} ELSE {})
    /\ acq' = [u \in Thread |-> u # t /\ (acq[u] \/ u \in W)]
    /\ tmo' = [u \in Thread |-> IF u \in W \/ (u = t /\ place = "ret") THEN "none" ELSE tmo[u]]
    /\ status' = [status EXCEPT ![t] = IF acq[t] /\ @ = "ETIMEDOUT" THEN @ ELSE result]
    /\ count' = IF place = "ret" /\ acq[t] THEN count + incr[t] ELSE count
    /\ incr' = IF acq[t] THEN incr ELSE [incr EXCEPT ![t] = 0]
    /\ ker' = NONE

\* Mutant: the immediate timeout falls through to the end of the function.
Block_status(t, W) ==
    IF tmo[t] = "IMMEDIATE" THEN Settle(t, "ret", "EOK", W) ELSE Settle(t, "MUTEX", "EOK", W)

\* The mutex is not to be had: an immediate timeout, or STATE_MUTEX
Block(t, W) ==
    IF tmo[t] = "IMMEDIATE" THEN Settle(t, "ret", "ETIMEDOUT", W) ELSE Settle(t, "MUTEX", "EOK", W)

\* From the start of the call to the atomic_set: sync_lookup creates a mutex that was
\* initialised statically, and fails for one that is destroyed.
sync_mutex_lock_enter(t) ==
    /\ ker = NONE
    /\ at[t] = "spec" \/ (at[t] = "call" /\ op[t] = "lock")
    /\ CASE word.own = "DESTROYED" ->
              /\ Settle(t, "ret", "EINVAL", {})
              /\ UNCHANGED word
         [] word.own = "INITIALIZER" ->
              /\ word' = Free
              /\ UNCHANGED <<waiting, at, status, count, incr, acq, tmo, ker>>
         [] OTHER ->
              /\ word' = atomic_set(word)
              /\ ker' = t
              /\ at' = [at EXCEPT ![t] = "try"]
              /\ UNCHANGED <<waiting, status, count, incr, acq, tmo>>
    /\ UNCHANGED <<condq, events, op, saved, depth>>

\* The call is preempted before it has locked the kernel and is repeated later.
Preempt(t) ==
    /\ at[t] = "try"
    /\ ker' = NONE
    /\ at' = [at EXCEPT ![t] = IF acq[t] THEN "spec" ELSE "call"]
    /\ UNCHANGED <<mvars, op, acq, incr, tmo, status, saved, depth>>

\* Mutant: the new owner does not set the bit for those who still wait.
sync_mutex_lock_take_nobit(t) ==
    /\ at[t] \in {"try", "locked"}
    /\ IF word = Passing
       THEN /\ word' = Word(t)
            /\ Settle(t, "ret", "EOK", {})
       ELSE /\ word' = IF word = Free THEN Passing ELSE word
            /\ Block(t, {})
    /\ UNCHANGED <<condq, events, op, saved, depth>>

\* With nobody waiting, a higher priority than the first waiter, or after a wake-up, the
\* thread tries to take the mutex by _smp_cmpxchg(owp, 0, QRV_SYNC_WAITING).
sync_mutex_lock_take(t) ==
    /\ at[t] \in {"try", "locked"}
    /\ IF word = Passing
       THEN /\ word' = [own |-> t, w |-> waiting # {}]
            /\ Settle(t, "ret", "EOK", {})
       ELSE /\ word' = IF word = Free THEN Passing ELSE word
            /\ Block(t, {})
    /\ UNCHANGED <<condq, events, op, saved, depth>>

\* With somebody waiting whose priority is not lower, it only looks at the owner word
\* it has read: the mutex may have been released meanwhile (goto retry), or be free with
\* the bit set, and then the first waiter is woken.
sync_mutex_lock_queue(t) ==
    /\ at[t] \in {"try", "locked"}
    /\ waiting # {} /\ ~acq[t]
    /\ \/ /\ word = Free
          /\ at' = [at EXCEPT ![t] = "again"]
          /\ UNCHANGED <<waiting, status, count, incr, acq, tmo, ker>>
       \/ /\ word = Passing
          /\ \E u \in waiting : Block(t, {u})
       \/ /\ word \notin {Free, Passing}
          /\ Block(t, {})
    /\ UNCHANGED <<word, condq, events, op, saved, depth>>

\* goto retry, with the kernel locked
sync_mutex_lock_retry(t) ==
    /\ at[t] = "again"
    /\ word' = atomic_set(word)
    /\ at' = [at EXCEPT ![t] = "locked"]
    /\ UNCHANGED <<count, waiting, condq, events, ker, op, acq, incr, tmo, status, saved, depth>>

-----------------------------------------------------------------------------
(* The other kernel calls on the mutex and the condition variable *)

\* The part of sync_mutex_unlock after the release: the first waiter is woken, and the bit
\* is set again in the owner word wd if others wait.
WakeFirst(W, wd) ==
    /\ W \in IF waiting = {} THEN {{}} ELSE {{u} : u \in waiting}
    /\ waiting' = waiting \ W
    /\ word' = IF waiting \ W # {} THEN atomic_set(wd) ELSE wd

\* SyncMutexUnlock, after the user-level exchange: whoever owns the mutex now is not act.
sync_mutex_unlock(t) ==
    /\ ker = NONE
    /\ at[t] = "call" /\ op[t] = "unlock"
    /\ \E W \in SUBSET waiting :
          /\ WakeFirst(W, word)
          /\ at' = [u \in Thread |-> IF u = t THEN "user" ELSE IF u \in W THEN "spec" ELSE at[u]]
          /\ acq' = [u \in Thread |-> acq[u] \/ u \in W]
          /\ tmo' = [u \in Thread |-> IF u \in W THEN "none" ELSE tmo[u]]
    /\ op' = [op EXCEPT ![t] = "none"]
    /\ UNCHANGED <<count, condq, events, ker, incr, status, saved, depth>>

\* SyncCondvarWait by the owner, who has locked the mutex once: sync_mutex_unlock with the
\* count, and STATE_CONDVAR or, with a timeout that is over, straight to the reacquisition.
ker_sync_condvar_wait(t, timeout) ==
    /\ "cond" \in Events /\ ker = NONE
    /\ at[t] = "user" /\ word.own = t /\ depth[t] = 1
    /\ timeout \in {"none"} \cup (IF "timeout" \in Events THEN {"CONDVAR", "IMMEDIATE"} ELSE {})
    /\ \E W \in SUBSET waiting :
          /\ WakeFirst(W, IF waiting = {} THEN Free ELSE Passing)
          /\ at' = [u \in Thread |-> IF u = t THEN IF timeout = "IMMEDIATE" THEN "spec" ELSE "CONDVAR"
                                     ELSE IF u \in W THEN "spec" ELSE at[u]]
          /\ acq' = [u \in Thread |-> u = t \/ acq[u] \/ u \in W]
          /\ tmo' = [u \in Thread |-> IF u = t THEN IF timeout = "CONDVAR" THEN timeout ELSE "none"
                                      ELSE IF u \in W THEN "none" ELSE tmo[u]]
    /\ LET inc == IF count > 0 THEN 1 ELSE 0
       IN  /\ count' = count - inc
           /\ incr' = [incr EXCEPT ![t] = inc]
    /\ status' = [status EXCEPT ![t] = IF timeout = "IMMEDIATE" THEN "ETIMEDOUT" ELSE "EOK"]
    /\ condq' = IF timeout = "IMMEDIATE" THEN condq ELSE condq \cup {t}
    /\ op' = [op EXCEPT ![t] = "cond"]
    /\ depth' = [depth EXCEPT ![t] = 0]
    /\ UNCHANGED <<events, ker, saved>>

\* SyncCondvarSignal for one thread or for all: sync_wakeup on the condition variable
ker_sync_condvar_signal(t) ==
    /\ ker = NONE /\ at[t] = "user" /\ condq # {}
    /\ \E W \in {condq} \cup {{u} : u \in condq} :
          /\ condq' = condq \ W
          /\ at' = [u \in Thread |-> IF u \in W THEN "spec" ELSE at[u]]
          /\ acq' = [u \in Thread |-> acq[u] \/ u \in W]
          /\ tmo' = [u \in Thread |-> IF u \in W THEN "none" ELSE tmo[u]]
    /\ UNCHANGED <<word, count, waiting, events, ker, op, incr, status, saved, depth>>

\* SyncDestroy: of a mutex that was never used, is free without the bit, or is the caller's own.
sync_destroy(t) ==
    /\ "destroy" \in Events /\ ker = NONE /\ at[t] = "user"
    /\ word \in {Word("INITIALIZER"), Free} \/ word.own = t
    /\ word' = Word("DESTROYED")
    /\ at' = [u \in Thread |-> IF u \in waiting THEN "ret" ELSE at[u]]
    /\ status' = [u \in Thread |-> IF u \in waiting THEN "EINVAL" ELSE status[u]]
    /\ tmo' = [u \in Thread |-> IF u \in waiting THEN "none" ELSE tmo[u]]
    /\ waiting' = {} /\ events' = {}
    /\ depth' = [depth EXCEPT ![t] = 0]
    /\ UNCHANGED <<count, condq, ker, op, acq, incr, saved>>

-----------------------------------------------------------------------------
(* Timeouts, signals, death *)

\* The timer of a blocked thread fires: force_ready(thp, ETIMEDOUT).  A thread that waited
\* on the condition variable still has to reacquire the mutex.
timer_fire(t) ==
    /\ ker = NONE
    /\ at[t] \in {"MUTEX", "CONDVAR"} /\ tmo[t] = at[t]
    /\ waiting' = waiting \ {t}
    /\ condq' = condq \ {t}
    /\ at' = [at EXCEPT ![t] = IF acq[t] THEN "spec" ELSE "ret"]
    /\ status' = [status EXCEPT ![t] = "ETIMEDOUT"]
    /\ tmo' = [tmo EXCEPT ![t] = "none"]
    /\ UNCHANGED <<word, count, events, ker, op, acq, incr, saved, depth>>

\* signal_kill_thread and signal_specret: a thread that waits, or is about to reacquire the
\* mutex, runs its handler first.  What the special return needs is saved with the
\* registers; the calls of the handler overwrite it in the thread.
SignalThread(t, clobber) ==
    /\ at' = [at EXCEPT ![t] = "handler"]
    /\ waiting' = waiting \ {t}
    /\ condq' = condq \ {t}
    /\ status' = [status EXCEPT ![t] = IF at[t] = "spec" THEN @ ELSE "EINTR"]
    /\ saved' = [saved EXCEPT ![t] = [incr |-> incr[t], tmo |-> IF tmo[t] = "MUTEX" THEN "MUTEX" ELSE "none"]]
    /\ acq' = [acq EXCEPT ![t] = FALSE]
    /\ tmo' = [tmo EXCEPT ![t] = "none"]
    /\ incr' = [incr EXCEPT ![t] = clobber]

signal_kill_thread(t) ==
    /\ "signal" \in Events /\ ker = NONE
    /\ at[t] \in {"MUTEX", "CONDVAR", "spec"}
    /\ \E clobber \in {0, 1} : SignalThread(t, clobber)
    /\ UNCHANGED <<word, count, events, ker, op, depth>>

\* Mutant: incr is left as the handler's own calls made it.
ker_signal_return_incr(t) ==
    /\ ker = NONE /\ at[t] = "handler"
    /\ at' = [at EXCEPT ![t] = "spec"]
    /\ acq' = [acq EXCEPT ![t] = TRUE]
    /\ tmo' = [tmo EXCEPT ![t] = saved[t].tmo]
    /\ UNCHANGED <<mvars, ker, op, incr, status, saved, depth>>

\* SignalReturn at the end of the handler: the reacquisition is due again, with its timeout.
ker_signal_return(t) ==
    /\ ker = NONE /\ at[t] = "handler"
    /\ at' = [at EXCEPT ![t] = "spec"]
    /\ acq' = [acq EXCEPT ![t] = TRUE]
    /\ incr' = [incr EXCEPT ![t] = saved[t].incr]
    /\ tmo' = [tmo EXCEPT ![t] = saved[t].tmo]
    /\ UNCHANGED <<mvars, ker, op, status, saved, depth>>

\* thread_destroy: the thread leaves its list; a mutex it owns stays locked.
thread_destroy(t) ==
    /\ "kill" \in Events /\ ker # t /\ at[t] # "dead" /\ ker = NONE
    /\ at' = [at EXCEPT ![t] = "dead"]
    /\ waiting' = waiting \ {t}
    /\ condq' = condq \ {t}
    /\ acq' = [acq EXCEPT ![t] = FALSE]
    /\ tmo' = [tmo EXCEPT ![t] = "none"]
    /\ depth' = [depth EXCEPT ![t] = 0]
    /\ UNCHANGED <<word, count, events, ker, op, incr, status, saved>>

\* SyncCtl(_NTO_SCTL_SETEVENT): a process registers for, or cancels, the event of a mutex
\* whose owner dies.
ker_sync_ctl_setevent(t) ==
    /\ "revive" \in Events /\ ker = NONE /\ at[t] = "user"
    /\ word.own \notin {"INITIALIZER", "DESTROYED"}
    /\ events' \in {events \cup {t}, events \ {t}}
    /\ UNCHANGED <<word, count, waiting, condq, ker, tvars>>

\* synchash_rem when the memory of a dead process is unmapped.  If it owned the mutex and
\* an event of another process is registered, the mutex is DEAD until it is revived;
\* otherwise it is destroyed, and a loop with the kernel locked gets rid of the waiters.
synchash_rem(t) ==
    /\ ker = NONE /\ at[t] = "dead" /\ (word.own = t \/ t \in events)
    /\ events' = events \ {t}
    /\ IF word.own # t THEN UNCHANGED <<word, ker, at>>
       ELSE IF events' # {} THEN /\ word' = Word("DEAD")
                                 /\ UNCHANGED <<ker, at>>
       ELSE /\ word' = Word("DESTROYED")
            /\ ker' = t
            /\ at' = [at EXCEPT ![t] = "unmap"]
    /\ UNCHANGED <<count, waiting, condq, op, acq, incr, tmo, status, saved, depth>>

\* One turn of that loop: a waiter with an active timeout is left alone, any other gets
\* SIGDEADLK and runs its handler, or EOWNERDEAD if the signal is blocked.
synchash_rem_loop(t) ==
    /\ at[t] = "unmap"
    /\ \/ /\ waiting = {}
          /\ ker' = NONE
          /\ at' = [at EXCEPT ![t] = "dead"]
          /\ UNCHANGED <<waiting, condq, status, saved, acq, tmo, incr>>
       \/ \E u \in {v \in waiting : tmo[v] # "MUTEX"} :
          /\ \/ \E clobber \in {0, 1} : SignalThread(u, clobber)
             \/ /\ at' = [at EXCEPT ![u] = "ret"]
                /\ waiting' = waiting \ {u}
                /\ status' = [status EXCEPT ![u] = "EOWNERDEAD"]
                /\ UNCHANGED <<condq, saved, acq, tmo, incr>>
          /\ UNCHANGED ker
    /\ UNCHANGED <<word, count, events, op, depth>>

\* Mutant: a mutex whose owner lives is revived as well.
ker_sync_mutex_revive_live(t) ==
    /\ "revive" \in Events /\ ker = NONE /\ at[t] = "user" /\ word.own \notin {"DESTROYED", "INITIALIZER"}
    /\ word' = [own |-> t, w |-> waiting # {}]
    /\ count' = 1
    /\ depth' = [depth EXCEPT ![t] = 1]
    /\ UNCHANGED <<waiting, condq, events, ker, at, op, acq, incr, tmo, status, saved>>

\* SyncMutexRevive: the kernel stays locked from the first store to the end of
\* sync_mutex_lock, which finds the mutex free with the bit set.
ker_sync_mutex_revive(t) ==
    /\ "revive" \in Events /\ ker = NONE /\ at[t] = "user" /\ word.own = "DEAD"
    /\ word' = [own |-> t, w |-> waiting # {}]
    /\ count' = 1
    /\ depth' = [depth EXCEPT ![t] = 1]
    /\ UNCHANGED <<waiting, condq, events, ker, at, op, acq, incr, tmo, status, saved>>

-----------------------------------------------------------------------------
Next ==
    \E t \in Thread :
        \/ \E timeout \in Timeouts : pthread_mutex_lock(t, timeout)
        \/ \E timeout \in Timeouts : ker_sync_condvar_wait(t, timeout)
        \/ library_return(t) \/ pthread_mutex_unlock(t)
        \/ sync_mutex_lock_enter(t) \/ Preempt(t) \/ sync_mutex_lock_take(t)
        \/ sync_mutex_lock_queue(t) \/ sync_mutex_lock_retry(t)
        \/ sync_mutex_unlock(t) \/ ker_sync_condvar_signal(t) \/ sync_destroy(t)
        \/ timer_fire(t) \/ signal_kill_thread(t) \/ ker_signal_return(t)
        \/ thread_destroy(t) \/ ker_sync_ctl_setevent(t)
        \/ synchash_rem(t) \/ synchash_rem_loop(t) \/ ker_sync_mutex_revive(t)

Spec == Init /\ [][Next]_vars

\* A call that has been made goes on: no CPU is kept out of the kernel, or preempted before
\* lock_kernel, for ever; armed timers fire and handlers return.  Programs may keep the
\* mutex as long as they like.
Fairness ==
    \A t \in Thread :
        /\ SF_vars(sync_mutex_lock_enter(t) \/ sync_mutex_unlock(t) \/ timer_fire(t) \/ ker_signal_return(t))
        /\ SF_vars(sync_mutex_lock_take(t) \/ sync_mutex_lock_queue(t))
        /\ WF_vars(sync_mutex_lock_retry(t) \/ library_return(t) \/ synchash_rem_loop(t))

FairSpec == Spec /\ Fairness

-----------------------------------------------------------------------------
(* Properties *)

\* Only the thread the owner word names believes it has the mutex: after any mixture of the
\* user-level exchange, wake-ups, retries, timeouts, signal handlers and revival, a lock
\* or a condition wait that reports success has the mutex, and nobody else has.
MutualExclusion ==
    word.own # "DESTROYED" => \A t \in Thread : depth[t] > 0 => word.own = t

\* What a call reports is true: a lock that succeeds, and a condition wait that ends by a
\* signal or by its timeout, owns the mutex; a lock that fails does not.
ResultIsTrue ==
    word.own # "DESTROYED" => \A t \in Thread : at[t] = "ret" =>
        (word.own = t <=> IF op[t] = "lock" THEN status[t] = "EOK" ELSE status[t] \in {"EOK", "ETIMEDOUT"})

\* A condition wait that reports ETIMEDOUT has the mutex again: "Timeout always overrides
\* success on getting the mutex" is no licence to report it when the mutex was not got.
TimedOutHasMutex ==
    \A t \in Thread : at[t] = "ret" /\ op[t] = "cond" /\ status[t] = "ETIMEDOUT" => word.own = t

\* The count, which the library changes for locks and the kernel for condition waits (incr,
\* saved across signal handlers), is the depth of the owner, and 0 when the mutex is free.
CountExact ==
    /\ word.own = "FREE" => count = 0
    /\ \A t \in Thread : word.own = t /\ at[t] # "dead" =>
          count = IF at[t] = "ret" THEN IF op[t] = "cond" THEN 1 ELSE 0 ELSE depth[t]

\* A thread that will look at the list of the mutex, or take the mutex, without further cause
OnItsWay(t) == \/ at[t] \in {"try", "again", "locked", "spec", "handler", "unmap"}
               \/ at[t] = "call"

\* No wake-up is lost between the exchange in pthread_mutex_unlock and the blocking in
\* sync_mutex_lock: while threads wait, the owner will find the bit set and enter the
\* kernel, or somebody is on the way who will look at the list.
WaitersRemembered ==
    waiting # {} => \/ word.own \in Thread \cup {"DEAD"} /\ (word.w \/ word.own = "DEAD")
                    \/ \E t \in Thread : OnItsWay(t)

\* pthread_mutex_timedlock returns once its time is over, whatever the owner does.
TimedLockReturns ==
    \A t \in Thread : (op[t] = "lock" /\ tmo[t] = "MUTEX") ~> (op[t] # "lock")

\* The loop of synchash_rem over the waiters of a mutex whose owner died ends.
UnmapFinishes == \A t \in Thread : (at[t] = "unmap") ~> (at[t] # "unmap")

\* sync_destroy wakes no thread that waits for a mutex, as its comment says.
DestroyWakesNobody == [][\A t \in Thread : sync_destroy(t) => waiting = {}]_vars
=============================================================================
