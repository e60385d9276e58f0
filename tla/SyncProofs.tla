----------------------------- MODULE SyncProofs -----------------------------
(***************************************************************************)
(* Theorems about Sync, for any threads, for a recursive mutex or another, *)
(* and whatever may happen: mutual exclusion, the truth of what the calls  *)
(* report, and the exact count.                                            *)
(***************************************************************************)
EXTENDS Sync, TLAPS

\* Places in sync_mutex_lock
Locking == {"try", "again", "locked"}

\* The call a thread is in, and its flag, by how far it has come
CallState(t) ==
    /\ at[t] \in Locking \cup {"MUTEX", "spec", "handler", "ret"} => op[t] \in {"lock", "cond"}
    /\ at[t] = "CONDVAR" => op[t] = "cond" /\ acq[t]
    /\ at[t] = "spec" => acq[t]
    /\ at[t] \in {"user", "call", "ret", "MUTEX", "handler", "dead"} => ~acq[t]
    /\ at[t] \in Locking /\ op[t] = "cond" => acq[t]
    /\ at[t] # "unmap"

\* Only a lock is timed while it waits for the mutex, and it never finds the ETIMEDOUT of an
\* earlier call in the status when it is given the mutex.
TimeoutState(t) ==
    /\ tmo[t] \in {"MUTEX", "IMMEDIATE"} => op[t] = "lock" /\ at[t] \notin {"user", "ret"}
    /\ at[t] = "handler" => saved[t].tmo # "IMMEDIATE" /\ (saved[t].tmo = "MUTEX" => op[t] = "lock")
    /\ op[t] = "lock" /\ (acq[t] \/ at[t] \in {"MUTEX", "spec", "handler"}) => status[t] # "ETIMEDOUT"

\* What the special return adds to the count: 1 for a condition wait, 0 for a lock
IncrState(t) ==
    /\ op[t] = "cond" /\ at[t] \in Locking \cup {"CONDVAR", "MUTEX", "spec"} => incr[t] = 1
    /\ op[t] = "cond" /\ at[t] = "handler" => saved[t].incr = 1
    /\ op[t] = "lock" /\ (acq[t] \/ at[t] \in {"MUTEX", "spec"}) => incr[t] = 0
    /\ op[t] = "lock" /\ at[t] = "handler" => saved[t].incr = 0

QueueState(t) == (t \in waiting => at[t] = "MUTEX") /\ (t \in condq => at[t] = "CONDVAR")

ThreadState(t) == CallState(t) /\ TimeoutState(t) /\ IncrState(t) /\ QueueState(t)

Success(t) == IF op[t] = "lock" THEN status[t] = "EOK" ELSE status[t] \in {"EOK", "ETIMEDOUT"}
Holds(t) == IF at[t] = "ret" THEN IF op[t] = "cond" THEN 1 ELSE 0 ELSE depth[t]

\* The owner is outside the kernel, and nobody else believes to own the mutex.
OwnerState(t) ==
    /\ depth[t] > 0 => word.own = t
    /\ word.own = t => at[t] \in {"user", "ret", "dead"}
    /\ at[t] = "ret" => (word.own = t <=> Success(t))
    /\ at[t] = "dead" => depth[t] = 0
    /\ ~Recursive => depth[t] <= 1
    /\ word.own = t /\ at[t] # "dead" => count = Holds(t)

LockInv ==
    /\ word.own \in {"FREE", "INITIALIZER"} => count = 0
    /\ \A t \in Thread : ThreadState(t) /\ OwnerState(t)

\* A mutex that is destroyed stays so, and then nothing is promised.
IInv == TypeOK /\ (word.own # "DESTROYED" => LockInv)

\* The invariant is about the mutex and its threads: what keeps those keeps it.
LEMMA SameState ==
    ASSUME UNCHANGED <<word, count, waiting, condq, at, op, acq, incr, tmo, status, saved, depth>>, LockInv
    PROVE  LockInv'
<1>1. ASSUME NEW t \in Thread PROVE ThreadState(t)'
      BY <1>1 DEF LockInv, ThreadState, CallState, TimeoutState, IncrState, QueueState
<1>2. ASSUME NEW t \in Thread PROVE OwnerState(t)'
      BY <1>2 DEF LockInv, OwnerState, Success, Holds
<1>. QED BY <1>1, <1>2 DEF LockInv

-----------------------------------------------------------------------------
(* A step of thread t leaves another thread as it is, or wakes it *)

Same(u) == op'[u] = op[u] /\ incr'[u] = incr[u] /\ status'[u] = status[u] /\ saved'[u] = saved[u]
           /\ depth'[u] = depth[u]
Quiet(u) == /\ Same(u) /\ at'[u] = at[u] /\ acq'[u] = acq[u] /\ tmo'[u] = tmo[u]
            /\ u \in waiting' => u \in waiting
            /\ u \in condq' => u \in condq
Woken(u) == /\ Same(u) /\ at[u] \in {"MUTEX", "CONDVAR"}
            /\ at'[u] = "spec" /\ acq'[u] = TRUE /\ tmo'[u] = "none"
            /\ u \notin waiting' /\ u \notin condq'

\* Nobody but t gains or loses the mutex, and its count changes only with t as the owner.
OwnerChange(t) == \A u \in Thread \ {t} : (word'.own = u <=> word.own = u) /\ (word.own = u => count' = count)

\* A thread that is left alone keeps its state.
LEMMA QuietThread ==
    ASSUME NEW u \in Thread, ThreadState(u), Quiet(u)
    PROVE  ThreadState(u)'
<1>1. CallState(u)'    BY DEF ThreadState, CallState, Quiet, Same
<1>2. TimeoutState(u)' BY DEF ThreadState, TimeoutState, Quiet, Same
<1>3. IncrState(u)'    BY DEF ThreadState, IncrState, Quiet, Same
<1>4. QueueState(u)'   BY DEF ThreadState, QueueState, Quiet, Same
<1>. QED BY <1>1, <1>2, <1>3, <1>4 DEF ThreadState

\* So does its relation to the mutex.
LEMMA QuietOwner ==
    ASSUME NEW u \in Thread, OwnerState(u), Quiet(u),
           word'.own = u <=> word.own = u, word.own = u => count' = count
    PROVE  OwnerState(u)'
<1>1. (Success(u))' <=> Success(u) BY DEF Success, Quiet, Same
<1>2. (Holds(u))' = Holds(u) BY DEF Holds, Quiet, Same
<1>. QED BY <1>1, <1>2 DEF OwnerState, Quiet, Same

\* A waiter that is woken is due to acquire the mutex, with its own increment and status.
LEMMA WokenThread ==
    ASSUME NEW u \in Thread, ThreadState(u), Woken(u)
    PROVE  ThreadState(u)'
<1>1. CallState(u)'    BY DEF ThreadState, CallState, Woken, Same, Locking
<1>2. TimeoutState(u)' BY DEF ThreadState, CallState, TimeoutState, Woken, Same
<1>3. IncrState(u)'    BY DEF ThreadState, CallState, IncrState, Woken, Same, Locking
<1>4. QueueState(u)'   BY DEF ThreadState, QueueState, Woken, Same
<1>. QED BY <1>1, <1>2, <1>3, <1>4 DEF ThreadState

\* It does not own the mutex.
LEMMA WokenOwner ==
    ASSUME NEW u \in Thread, OwnerState(u), Woken(u), word'.own = u <=> word.own = u
    PROVE  OwnerState(u)'
BY DEF OwnerState, Woken, Same

\* What is left to show of a step of thread t
LEMMA StepKeeps ==
    ASSUME LockInv, NEW t \in Thread, OwnerChange(t),
           \A u \in Thread \ {t} : Quiet(u) \/ Woken(u),
           ThreadState(t)', OwnerState(t)',
           word'.own \in {"FREE", "INITIALIZER"} => count' = 0
    PROVE  LockInv'
<1>1. SUFFICES ASSUME NEW u \in Thread PROVE ThreadState(u)' /\ OwnerState(u)'
      BY DEF LockInv
<1>2. ThreadState(u) /\ OwnerState(u) BY DEF LockInv
<1>3. CASE u = t BY <1>3
<1>4. CASE u # t
      <2>1. (word'.own = u <=> word.own = u) /\ (word.own = u => count' = count)
            BY <1>4 DEF OwnerChange
      <2>2. CASE Quiet(u) BY <1>2, <2>1, <2>2, QuietThread, QuietOwner
      <2>3. CASE Woken(u) BY <1>2, <2>1, <2>3, WokenThread, WokenOwner
      <2>. QED BY <1>4, <2>2, <2>3
<1>. QED BY <1>3, <1>4

\* The same for a step that t takes on its way through the kernel, where it owns nothing
LEMMA KernelStepKeeps ==
    ASSUME TypeOK, LockInv, NEW t \in Thread, word'.own = word.own, count' = count, depth'[t] = depth[t],
           at[t] \notin {"user", "ret", "dead"}, at'[t] = "ret" => ~Success(t)',
           \A u \in Thread \ {t} : Quiet(u) \/ Woken(u),
           ThreadState(t)'
    PROVE  LockInv'
<1>1. OwnerChange(t) BY DEF OwnerChange
<1>2. OwnerState(t) BY DEF LockInv
<1>3. OwnerState(t)' BY <1>2 DEF OwnerState, TypeOK
<1>4. word'.own \in {"FREE", "INITIALIZER"} => count' = 0 BY DEF LockInv
<1>. QED BY <1>1, <1>3, <1>4, StepKeeps

\* No thread has the name of a special value of the owner word.
LEMMA NotSpecial == ASSUME NEW t \in Thread PROVE t \notin Special
BY SyncAssumption

-----------------------------------------------------------------------------
(* The C library *)

\* pthread_mutex_lock takes a free mutex, counts, or calls the kernel.
LEMMA LockKeeps ==
    ASSUME TypeOK, LockInv, NEW t \in Thread, NEW timeout \in Timeouts, pthread_mutex_lock(t, timeout)
    PROVE  LockInv'
<1>1. ThreadState(t) /\ OwnerState(t) /\ at[t] = "user" BY DEF LockInv, pthread_mutex_lock
<1>2. \A u \in Thread \ {t} : Quiet(u) BY DEF pthread_mutex_lock, Quiet, Same, TypeOK
<1>3. CASE word = Free /\ word' = Word(t) /\ count' = count + 1 /\ depth'[t] = depth[t] + 1 /\ UNCHANGED <<at, op, tmo>>
      <2>1. word.own = "FREE" /\ word'.own = t BY <1>3 DEF Free, Word
      <2>2. OwnerChange(t) BY <2>1, NotSpecial DEF OwnerChange, Special
      <2>3. count = 0 /\ depth[t] = 0 BY <1>1, <2>1, NotSpecial DEF LockInv, OwnerState, Special, TypeOK
      <2>4. ThreadState(t)'
            BY <1>1, <1>3 DEF pthread_mutex_lock, ThreadState, CallState, TimeoutState, IncrState, QueueState
      <2>5. OwnerState(t)' BY <1>1, <1>3, <2>1, <2>3 DEF OwnerState, Holds
      <2>6. word'.own \notin {"FREE", "INITIALIZER"} BY <2>1, NotSpecial DEF Special
      <2>. QED BY <1>2, <2>2, <2>4, <2>5, <2>6, StepKeeps
<1>4. CASE word.own = t /\ Recursive /\ count' = count + 1 /\ depth'[t] = depth[t] + 1 /\ UNCHANGED <<word, at, op, tmo>>
      <2>1. OwnerChange(t) BY <1>4 DEF OwnerChange
      <2>2. ThreadState(t)'
            BY <1>1, <1>4 DEF pthread_mutex_lock, ThreadState, CallState, TimeoutState, IncrState, QueueState
      <2>3. OwnerState(t)' BY <1>1, <1>4 DEF OwnerState, Holds
      <2>4. word'.own \notin {"FREE", "INITIALIZER"} BY <1>4, NotSpecial DEF Special
      <2>. QED BY <1>2, <2>1, <2>2, <2>3, <2>4, StepKeeps
<1>5. CASE word.own # t /\ at'[t] = "call" /\ op'[t] = "lock" /\ UNCHANGED <<word, count, depth>>
      <2>1. OwnerChange(t) BY <1>5 DEF OwnerChange
      <2>2. ThreadState(t)'
            <3>1. CallState(t)' BY <1>1, <1>5 DEF pthread_mutex_lock, ThreadState, CallState, Locking
            <3>2. TimeoutState(t)'
                  BY <1>1, <1>5, <3>1 DEF pthread_mutex_lock, TimeoutState, CallState
            <3>3. IncrState(t)' BY <1>1, <1>5, <3>1 DEF pthread_mutex_lock, IncrState, CallState, Locking
            <3>4. QueueState(t)' BY <1>1, <1>5 DEF pthread_mutex_lock, ThreadState, QueueState
            <3>. QED BY <3>1, <3>2, <3>3, <3>4 DEF ThreadState
      <2>3. OwnerState(t)' BY <1>1, <1>5 DEF OwnerState
      <2>4. word'.own \in {"FREE", "INITIALIZER"} => count' = 0 BY <1>5 DEF LockInv
      <2>. QED BY <1>2, <2>1, <2>2, <2>3, <2>4, StepKeeps
<1>6. depth' = [depth EXCEPT ![t] = @ + 1] => depth'[t] = depth[t] + 1 BY DEF TypeOK
<1>7. at' = [at EXCEPT ![t] = "call"] /\ op' = [op EXCEPT ![t] = "lock"] => at'[t] = "call" /\ op'[t] = "lock"
      BY DEF TypeOK
<1>. QED BY <1>3, <1>4, <1>5, <1>6, <1>7 DEF pthread_mutex_lock

\* A call that returns with the mutex leaves its depth at 1, and the count with it.
LEMMA ReturnKeeps ==
    ASSUME TypeOK, LockInv, NEW t \in Thread, library_return(t)
    PROVE  LockInv'
<1>1. ThreadState(t) /\ OwnerState(t) /\ at[t] = "ret" BY DEF LockInv, library_return
<1>2. \A u \in Thread \ {t} : Quiet(u) BY DEF library_return, Quiet, Same, TypeOK
<1>3. at'[t] = "user" /\ op'[t] = "none" /\ depth'[t] = (IF Success(t) THEN 1 ELSE 0) BY DEF library_return, Success, TypeOK
<1>4. word' = word /\ (count' = IF op[t] = "lock" /\ status[t] = "EOK" THEN count + 1 ELSE count)
      BY DEF library_return
<1>5. op[t] \in {"lock", "cond"} /\ ~acq[t] BY <1>1 DEF ThreadState, CallState
<1>6. word.own = t <=> Success(t) BY <1>1 DEF OwnerState
<1>7. OwnerChange(t) BY <1>4, <1>6 DEF OwnerChange, Success
<1>8. ThreadState(t)'
      <2>1. CallState(t)' BY <1>3, <1>5, Zenon DEF library_return, CallState, Locking
      <2>2. TimeoutState(t)' BY <1>1, <1>3, <1>5 DEF library_return, ThreadState, TimeoutState
      <2>3. IncrState(t)' BY <1>3 DEF IncrState
      <2>4. QueueState(t)' BY <1>1, <1>3 DEF library_return, ThreadState, QueueState
      <2>. QED BY <2>1, <2>2, <2>3, <2>4 DEF ThreadState
<1>9. OwnerState(t)'
      <2>1. word.own = t => count = IF op[t] = "cond" THEN 1 ELSE 0 BY <1>1 DEF OwnerState, Holds
      <2>2. word'.own = t => count' = 1 BY <1>4, <1>5, <1>6, <2>1 DEF Success
      <2>. QED BY <1>3, <1>4, <1>6, <2>2 DEF OwnerState, Holds
<1>10. word'.own \in {"FREE", "INITIALIZER"} => count' = 0
      BY <1>4, <1>6, NotSpecial DEF LockInv, Success, Special
<1>. QED BY <1>2, <1>7, <1>8, <1>9, <1>10, StepKeeps

\* The owner counts down; the mutex it gives up has the count 0.
LEMMA UnlockKeeps ==
    ASSUME TypeOK, LockInv, NEW t \in Thread, pthread_mutex_unlock(t)
    PROVE  LockInv'
<1>1. ThreadState(t) /\ OwnerState(t) /\ at[t] = "user" /\ word.own = t BY DEF LockInv, pthread_mutex_unlock
<1>2. \A u \in Thread \ {t} : Quiet(u) BY DEF pthread_mutex_unlock, Quiet, Same, TypeOK
<1>3. count = depth[t] /\ count > 0 BY <1>1 DEF OwnerState, Holds, pthread_mutex_unlock
<1>4. depth'[t] = depth[t] - 1 /\ count' = count - 1 BY <1>3 DEF pthread_mutex_unlock, TypeOK
<1>5. CASE Recursive /\ count > 1
      <2>1. UNCHANGED <<word, at, op>> BY <1>5 DEF pthread_mutex_unlock
      <2>2. OwnerChange(t) BY <1>1, <2>1, Zenon DEF OwnerChange
      <2>3. ThreadState(t)'
            BY <1>1, <2>1 DEF pthread_mutex_unlock, ThreadState, CallState, TimeoutState, IncrState, QueueState
      <2>4. OwnerState(t)' BY <1>1, <1>3, <1>4, <1>5, <2>1 DEF OwnerState, Holds, TypeOK
      <2>5. word'.own \notin {"FREE", "INITIALIZER"} BY <1>1, <2>1, NotSpecial DEF Special
      <2>. QED BY <1>2, <2>2, <2>3, <2>4, <2>5, StepKeeps
<1>6. CASE ~(Recursive /\ count > 1)
      <2>1. word'.own = "FREE" BY <1>6 DEF pthread_mutex_unlock, Free
      <2>2. count = 1 BY <1>1, <1>3, <1>6 DEF OwnerState, TypeOK
      <2>3. (at'[t] = "user" /\ op'[t] = op[t]) \/ (at'[t] = "call" /\ op'[t] = "unlock")
            BY <1>1, <1>6 DEF pthread_mutex_unlock, TypeOK
      <2>4. OwnerChange(t) BY <1>1, <2>1, NotSpecial DEF OwnerChange, Special
      <2>5. ThreadState(t)'
            <3>1. CallState(t)' BY <1>1, <2>3 DEF pthread_mutex_unlock, ThreadState, CallState, Locking
            <3>2. TimeoutState(t)' BY <1>1, <2>3, Zenon DEF pthread_mutex_unlock, ThreadState, CallState, TimeoutState
            <3>3. IncrState(t)' BY <1>1, <2>3, Zenon DEF pthread_mutex_unlock, ThreadState, CallState, IncrState, Locking
            <3>4. QueueState(t)' BY <1>1, <2>3 DEF pthread_mutex_unlock, ThreadState, QueueState
            <3>. QED BY <3>1, <3>2, <3>3, <3>4 DEF ThreadState
      <2>6. OwnerState(t)' BY <1>3, <1>4, <2>1, <2>2, <2>3, NotSpecial DEF OwnerState, Special
      <2>. QED BY <1>2, <1>4, <2>1, <2>2, <2>4, <2>5, <2>6, StepKeeps
<1>. QED BY <1>5, <1>6

-----------------------------------------------------------------------------
(* sync_mutex_lock *)

\* What Settle does to the others
LEMMA SettleOthers ==
    ASSUME TypeOK, LockInv, NEW t \in Thread, NEW place, NEW result, NEW W, W \subseteq waiting,
           Settle(t, place, result, W), UNCHANGED <<condq, op, saved, depth>>
    PROVE  \A u \in Thread \ {t} : Quiet(u) \/ Woken(u)
<1>1. TAKE u \in Thread \ {t}
<1>2. Same(u) BY DEF Settle, Same, TypeOK
<1>3. QueueState(u) BY DEF LockInv, ThreadState
<1>4. CASE u \in W
      <2>1. at[u] = "MUTEX" /\ u \notin condq BY <1>3, <1>4 DEF QueueState
      <2>2. at'[u] = "spec" /\ acq'[u] = TRUE /\ tmo'[u] = "none" BY <1>4, Zenon DEF Settle
      <2>3. u \notin waiting' BY <1>4 DEF Settle
      <2>. QED BY <1>2, <2>1, <2>2, <2>3 DEF Woken
<1>5. CASE u \notin W
      <2>1. at'[u] = at[u] /\ acq'[u] = acq[u] /\ tmo'[u] = tmo[u] BY <1>5 DEF Settle, TypeOK
      <2>2. u \in waiting' => u \in waiting BY DEF Settle
      <2>. QED BY <1>2, <2>1, <2>2 DEF Quiet
<1>. QED BY <1>4, <1>5

\* A thread that does not get the mutex waits with its increment, or reports the timeout.
LEMMA BlockKeeps ==
    ASSUME TypeOK, LockInv, NEW t \in Thread, at[t] \in {"try", "locked"}, NEW W, W \subseteq waiting,
           Block(t, W), word'.own = word.own, UNCHANGED <<condq, op, saved, depth>>
    PROVE  LockInv'
<1>1. ThreadState(t) /\ op[t] \in {"lock", "cond"} BY DEF LockInv, ThreadState, CallState, Locking
<1>2. t \notin waiting /\ t \notin condq BY <1>1 DEF ThreadState, QueueState
<1>3. acq'[t] = FALSE BY Zenon DEF Block, Settle
<1>4. CASE tmo[t] = "IMMEDIATE"
      <2>1. Settle(t, "ret", "ETIMEDOUT", W) BY <1>4 DEF Block
      <2>2. op[t] = "lock" /\ (acq[t] => incr[t] = 0) BY <1>1, <1>4 DEF ThreadState, TimeoutState, IncrState
      <2>3. count' = count BY <2>1, <2>2 DEF Settle, TypeOK
      <2>4. at'[t] = "ret" /\ tmo'[t] = "none" /\ status'[t] = "ETIMEDOUT" /\ t \notin waiting'
            BY <1>2, <2>1 DEF Settle, TypeOK
      <2>5. ThreadState(t)'
            BY <1>2, <1>3, <2>2, <2>4 DEF ThreadState, CallState, TimeoutState, IncrState, QueueState, Locking
      <2>6. ~Success(t)' BY <2>2, <2>4 DEF Success
      <2>7. \A u \in Thread \ {t} : Quiet(u) \/ Woken(u) BY <2>1, SettleOthers, Zenon
      <2>. QED BY <2>3, <2>5, <2>6, <2>7, KernelStepKeeps
<1>5. CASE tmo[t] # "IMMEDIATE"
      <2>1. Settle(t, "MUTEX", "EOK", W) BY <1>5 DEF Block
      <2>2. count' = count BY <2>1 DEF Settle
      <2>3. at'[t] = "MUTEX" /\ tmo'[t] = tmo[t] BY <1>2, <2>1 DEF Settle, TypeOK
      <2>4. op[t] = "lock" => status'[t] # "ETIMEDOUT"
            BY <1>1, <2>1, Zenon DEF Settle, TypeOK, ThreadState, TimeoutState
      <2>5. incr'[t] = IF op[t] = "cond" THEN 1 ELSE 0
            BY <1>1, <2>1 DEF Settle, TypeOK, ThreadState, CallState, IncrState, Locking
      <2>6. CallState(t)' BY <1>1, <1>3, <2>3, Zenon DEF CallState, Locking
      <2>7. TimeoutState(t)' BY <1>1, <1>3, <1>5, <2>3, <2>4 DEF ThreadState, TimeoutState
      <2>8. IncrState(t)' BY <1>3, <2>3, <2>5 DEF IncrState, Locking
      <2>9. QueueState(t)' BY <1>2, <2>3 DEF QueueState
      <2>10. \A u \in Thread \ {t} : Quiet(u) \/ Woken(u) BY <2>1, SettleOthers
      <2>. QED BY <2>2, <2>3, <2>6, <2>7, <2>8, <2>9, <2>10, KernelStepKeeps DEF ThreadState
<1>. QED BY <1>4, <1>5

\* A thread that takes the mutex finds it free, with the count 0, and adds its own increment.
LEMMA TakeKeeps ==
    ASSUME TypeOK, LockInv, NEW t \in Thread, sync_mutex_lock_take(t)
    PROVE  LockInv'
<1>1. UNCHANGED <<condq, op, saved, depth>> /\ at[t] \in {"try", "locked"} BY DEF sync_mutex_lock_take
<1>2. CASE word = Passing
      <2>1. Settle(t, "ret", "EOK", {}) /\ word'.own = t /\ word.own = "FREE"
            BY <1>2 DEF sync_mutex_lock_take, Passing
      <2>2. ThreadState(t) /\ OwnerState(t) /\ count = 0 BY <2>1 DEF LockInv
      <2>3. op[t] \in {"lock", "cond"} /\ (op[t] = "cond" => acq[t]) BY <1>1, <2>2 DEF ThreadState, CallState, Locking
      <2>4. t \notin waiting /\ t \notin condq BY <1>1, <2>2, Zenon DEF ThreadState, QueueState
      <2>5. count' = IF op[t] = "cond" THEN 1 ELSE 0
            BY <1>1, <2>1, <2>2, <2>3 DEF Settle, TypeOK, ThreadState, IncrState, Locking
      <2>6. at'[t] = "ret" /\ tmo'[t] = "none" /\ acq'[t] = FALSE /\ t \notin waiting'
            BY <2>1, <2>4, Zenon DEF Settle
      <2>7. Success(t)'
            BY <1>1, <2>1, <2>2, <2>3, Zenon DEF Success, Settle, TypeOK, ThreadState, TimeoutState
      <2>8. ThreadState(t)'
            BY <1>1, <2>3, <2>4, <2>6 DEF ThreadState, CallState, TimeoutState, IncrState, QueueState, Locking
      <2>9. depth[t] = 0 BY <2>1, <2>2, NotSpecial DEF OwnerState, TypeOK, Special
      <2>10. OwnerState(t)' BY <1>1, <2>1, <2>5, <2>6, <2>7, <2>9 DEF OwnerState, Holds
      <2>11. \A u \in Thread \ {t} : Quiet(u) \/ Woken(u) BY <1>1, <2>1, SettleOthers
      <2>12. OwnerChange(t) BY <2>1, NotSpecial DEF OwnerChange, Special
      <2>13. word'.own \notin {"FREE", "INITIALIZER"} BY <2>1, NotSpecial DEF Special
      <2>. QED BY <2>8, <2>10, <2>11, <2>12, <2>13, StepKeeps
<1>3. CASE word # Passing
      <2>1. Block(t, {}) /\ word'.own = word.own BY <1>3 DEF sync_mutex_lock_take, Free, Passing
      <2>. QED BY <1>1, <2>1, BlockKeeps
<1>. QED BY <1>2, <1>3

\* A step that only moves a thread on its way through the kernel from place to place
LEMMA MoveKeeps ==
    ASSUME TypeOK, LockInv, NEW t \in Thread, word'.own = word.own, NEW place, at' = [at EXCEPT ![t] = place],
           UNCHANGED <<count, waiting, condq, op, acq, incr, tmo, status, saved, depth>>,
           at[t] \in Locking \cup {"call", "spec"},
           place \in Locking \/ (place = "spec" /\ acq[t]) \/ (place = "call" /\ ~acq[t]),
           at[t] = "call" => op[t] = "lock"
    PROVE  LockInv'
<1>1. ThreadState(t) BY DEF LockInv
<1>2. at'[t] = place BY DEF TypeOK
<1>3. CallState(t)' BY <1>1, <1>2, Zenon DEF ThreadState, CallState, Locking
<1>4. TimeoutState(t)' BY <1>1, <1>2, Zenon DEF ThreadState, CallState, TimeoutState, Locking
<1>5. IncrState(t)' BY <1>1, <1>2, Zenon DEF ThreadState, CallState, IncrState, Locking
<1>6. QueueState(t)' BY <1>1, <1>2 DEF ThreadState, QueueState, Locking
<1>7. \A u \in Thread \ {t} : Quiet(u) BY Zenon DEF Quiet, Same, TypeOK
<1>8. at[t] \notin {"user", "ret", "dead"} /\ at'[t] # "ret" BY <1>2 DEF Locking
<1>. QED BY <1>3, <1>4, <1>5, <1>6, <1>7, <1>8, KernelStepKeeps DEF ThreadState

\* The bit is set without touching the owner.
LEMMA SetOwner == ASSUME NEW wd \in [own : Thread \cup Special, w : BOOLEAN]
                  PROVE  atomic_set(wd).own = wd.own
BY DEF atomic_set

\* A static mutex is created, or the bit is set.
LEMMA EnterKeeps ==
    ASSUME TypeOK, LockInv, NEW t \in Thread, sync_mutex_lock_enter(t), word.own # "DESTROYED"
    PROVE  LockInv'
<1>1. CASE word.own = "INITIALIZER"
      <2>1. UNCHANGED <<waiting, at, status, count, incr, acq, tmo, ker, condq, events, op, saved, depth>>
            /\ word' = Free
            BY <1>1 DEF sync_mutex_lock_enter
      <2>2. OwnerChange(t) BY <1>1, <2>1, NotSpecial DEF OwnerChange, Free, Special
      <2>3. Quiet(t) /\ \A u \in Thread \ {t} : Quiet(u) BY <2>1 DEF Quiet, Same
      <2>4. ThreadState(t) /\ OwnerState(t) /\ count = 0 BY <1>1 DEF LockInv
      <2>5. word'.own = t <=> word.own = t BY <1>1, <2>1, NotSpecial DEF Free, Special
      <2>6. ThreadState(t)' /\ OwnerState(t)' BY <2>1, <2>3, <2>4, <2>5, QuietThread, QuietOwner
      <2>. QED BY <2>1, <2>2, <2>3, <2>4, <2>6, StepKeeps
<1>2. CASE word.own # "INITIALIZER"
      <2>1. /\ word' = atomic_set(word) /\ at' = [at EXCEPT ![t] = "try"]
            /\ UNCHANGED <<count, waiting, condq, op, acq, incr, tmo, status, saved, depth>>
            /\ at[t] = "spec" \/ (at[t] = "call" /\ op[t] = "lock")
            BY <1>2 DEF sync_mutex_lock_enter
      <2>2. word'.own = word.own BY <2>1, SetOwner DEF TypeOK
      <2>3. "try" \in Locking BY DEF Locking
      <2>. QED BY <2>1, <2>2, <2>3, MoveKeeps, Zenon
<1>. QED BY <1>1, <1>2

\* The call starts over.
LEMMA PreemptKeeps ==
    ASSUME TypeOK, LockInv, NEW t \in Thread, Preempt(t)
    PROVE  LockInv'
<1> DEFINE place == IF acq[t] THEN "spec" ELSE "call"
<1>1. /\ at[t] = "try" /\ at' = [at EXCEPT ![t] = place] /\ word' = word
      /\ UNCHANGED <<count, waiting, condq, op, acq, incr, tmo, status, saved, depth>>
      BY DEF Preempt, mvars
<1>2. (place = "spec" /\ acq[t]) \/ (place = "call" /\ ~acq[t]) OBVIOUS
<1>3. "try" \in Locking BY DEF Locking
<1> HIDE DEF place
<1>. QED BY <1>1, <1>2, <1>3, MoveKeeps, Zenon

\* goto retry
LEMMA RetryKeeps ==
    ASSUME TypeOK, LockInv, NEW t \in Thread, sync_mutex_lock_retry(t)
    PROVE  LockInv'
<1>1. word'.own = word.own BY SetOwner DEF sync_mutex_lock_retry, TypeOK
<1>2. at[t] \in Locking /\ "locked" \in Locking /\ at[t] # "call" BY DEF sync_mutex_lock_retry, Locking
<1>3. /\ at' = [at EXCEPT ![t] = "locked"]
      /\ UNCHANGED <<count, waiting, condq, op, acq, incr, tmo, status, saved, depth>>
      BY DEF sync_mutex_lock_retry
<1>. QED BY <1>1, <1>2, <1>3, MoveKeeps, Zenon

\* A thread that waits its turn
LEMMA QueueKeeps ==
    ASSUME TypeOK, LockInv, NEW t \in Thread, sync_mutex_lock_queue(t)
    PROVE  LockInv'
<1>1. at[t] \in {"try", "locked"} /\ UNCHANGED <<word, condq, op, saved, depth>> BY DEF sync_mutex_lock_queue
<1>2. CASE at' = [at EXCEPT ![t] = "again"] /\ UNCHANGED <<waiting, status, count, incr, acq, tmo, ker>>
      <2>1. at[t] \in Locking /\ at[t] # "call" /\ "again" \in Locking BY <1>1 DEF Locking
      <2>. QED BY <1>1, <1>2, <2>1, MoveKeeps, Zenon
<1>3. ASSUME NEW u \in waiting, Block(t, {u}) PROVE LockInv'
      BY <1>1, <1>3, {u} \subseteq waiting, BlockKeeps
<1>4. CASE Block(t, {}) BY <1>1, <1>4, BlockKeeps
<1>. QED BY <1>2, <1>3, <1>4, Zenon DEF sync_mutex_lock_queue
-----------------------------------------------------------------------------
(***************************************************************************)
(* The other kernel calls on the mutex, timeouts, signals and death keep   *)
(* the invariant; the theorems.                                            *)
(***************************************************************************)

\* The wake-up at the end of an unlock does not change the owner.
LEMMA WakeOwner ==
    ASSUME NEW W, NEW wd \in [own : Thread \cup Special, w : BOOLEAN], WakeFirst(W, wd)
    PROVE  word'.own = wd.own
BY SetOwner DEF WakeFirst

\* Wake-ups of waiters of the mutex or of the condition variable
LEMMA WakeOthers ==
    ASSUME TypeOK, LockInv, NEW t \in Thread, NEW W, W \subseteq waiting \/ W \subseteq condq,
           (waiting \cup condq)' \subseteq ((waiting \cup condq) \ W) \cup {t},
           waiting' \subseteq waiting, condq' \subseteq condq \cup {t},
           \A u \in Thread \ {t} : /\ Same(u)
                                   /\ at'[u] = IF u \in W THEN "spec" ELSE at[u]
                                   /\ acq'[u] = (acq[u] \/ u \in W)
                                   /\ tmo'[u] = IF u \in W THEN "none" ELSE tmo[u]
    PROVE  \A u \in Thread \ {t} : Quiet(u) \/ Woken(u)
<1>1. TAKE u \in Thread \ {t}
<1>2. QueueState(u) BY Zenon DEF LockInv, ThreadState
<1>3. CASE u \in W
      <2>1. at[u] \in {"MUTEX", "CONDVAR"} BY <1>2, <1>3 DEF QueueState
      <2>2. at'[u] = "spec" /\ tmo'[u] = "none" /\ Same(u) BY <1>3
      <2>3. acq'[u] = TRUE BY <1>3, Zenon
      <2>. QED BY <1>3, <2>1, <2>2, <2>3 DEF Woken
<1>4. CASE u \notin W
      <2>1. at'[u] = at[u] /\ tmo'[u] = tmo[u] /\ Same(u) BY <1>4, Zenon
      <2>2. acq'[u] = acq[u] BY <1>4, Zenon DEF TypeOK
      <2>. QED BY <2>1, <2>2, Zenon DEF Quiet
<1>. QED BY <1>3, <1>4

\* SyncMutexUnlock: whoever has the mutex by now keeps it.
LEMMA KernelUnlockKeeps ==
    ASSUME TypeOK, LockInv, NEW t \in Thread, sync_mutex_unlock(t)
    PROVE  LockInv'
<1>1. PICK W \in SUBSET waiting :
          /\ WakeFirst(W, word)
          /\ at' = [u \in Thread |-> IF u = t THEN "user" ELSE IF u \in W THEN "spec" ELSE at[u]]
          /\ acq' = [u \in Thread |-> acq[u] \/ u \in W]
          /\ tmo' = [u \in Thread |-> IF u \in W THEN "none" ELSE tmo[u]]
      BY DEF sync_mutex_unlock
<1>2. ThreadState(t) /\ OwnerState(t) /\ at[t] = "call" /\ op[t] = "unlock" BY Zenon DEF LockInv, sync_mutex_unlock
<1>3. t \notin W /\ t \notin waiting /\ t \notin condq /\ ~acq[t] BY <1>1, <1>2, Zenon DEF ThreadState, QueueState, CallState
<1>4. /\ op'[t] = "none" /\ waiting' = waiting \ W
      /\ \A u \in Thread \ {t} : Same(u)
      /\ UNCHANGED <<count, condq, status, saved, incr, depth>>
      BY <1>1 DEF sync_mutex_unlock, WakeFirst, Same, TypeOK
<1>5. W \cap condq = {} BY <1>1, Zenon DEF LockInv, ThreadState, QueueState, TypeOK
<1>6. \A u \in Thread \ {t} : Quiet(u) \/ Woken(u) BY <1>1, <1>4, <1>5, WakeOthers
<1>7. word'.own = word.own BY <1>1, WakeOwner DEF TypeOK
<1>8. OwnerChange(t) BY <1>4, <1>7 DEF OwnerChange
<1>9. at'[t] = "user" /\ tmo'[t] = tmo[t] BY <1>1, <1>3
<1>10. ~acq'[t] BY <1>1, <1>3, Zenon
<1>11. ThreadState(t)'
      <2>1. CallState(t)' BY <1>4, <1>9, <1>10, Zenon DEF CallState, Locking
      <2>2. TimeoutState(t)' BY <1>2, <1>4, <1>9, <1>10, Zenon DEF ThreadState, TimeoutState
      <2>3. IncrState(t)' BY <1>4 DEF IncrState
      <2>4. QueueState(t)' BY <1>3, <1>4, Zenon DEF QueueState
      <2>. QED BY <2>1, <2>2, <2>3, <2>4, Zenon DEF ThreadState
<1>12. OwnerState(t)' BY <1>2, <1>4, <1>7, <1>9 DEF OwnerState
<1>13. word'.own \in {"FREE", "INITIALIZER"} => count' = 0 BY <1>4, <1>7 DEF LockInv
<1>. QED BY <1>6, <1>8, <1>11, <1>12, <1>13, StepKeeps, Zenon

\* SyncCondvarWait: the mutex is given up with its count, which becomes the increment.
LEMMA CondWaitKeeps ==
    ASSUME TypeOK, LockInv, NEW t \in Thread, NEW timeout \in Timeouts, ker_sync_condvar_wait(t, timeout)
    PROVE  LockInv'
<1> DEFINE wd == IF waiting = {} THEN Free ELSE Passing
<1>1. PICK W \in SUBSET waiting :
          /\ WakeFirst(W, wd)
          /\ at' = [u \in Thread |-> IF u = t THEN IF timeout = "IMMEDIATE" THEN "spec" ELSE "CONDVAR"
                                     ELSE IF u \in W THEN "spec" ELSE at[u]]
          /\ acq' = [u \in Thread |-> u = t \/ acq[u] \/ u \in W]
          /\ tmo' = [u \in Thread |-> IF u = t THEN IF timeout = "CONDVAR" THEN timeout ELSE "none"
                                      ELSE IF u \in W THEN "none" ELSE tmo[u]]
      BY DEF ker_sync_condvar_wait
<1>2. ThreadState(t) /\ OwnerState(t) /\ at[t] = "user" /\ word.own = t /\ depth[t] = 1
      BY Zenon DEF LockInv, ker_sync_condvar_wait
<1>3. t \notin W /\ t \notin waiting /\ t \notin condq BY <1>1, <1>2, Zenon DEF ThreadState, QueueState
<1>4. count = 1 BY <1>2, Zenon DEF OwnerState, Holds
<1>5. /\ waiting' = waiting \ W /\ saved' = saved
      /\ \A u \in Thread \ {t} : Same(u)
      /\ condq' = IF timeout = "IMMEDIATE" THEN condq ELSE condq \cup {t}
      BY <1>1 DEF ker_sync_condvar_wait, WakeFirst, Same, TypeOK
<1>6. W \cap condq = {} BY <1>1, Zenon DEF LockInv, ThreadState, QueueState, TypeOK
<1>7. \A u \in Thread \ {t} : Quiet(u) \/ Woken(u)
      <2>1. \A u \in Thread \ {t} : /\ Same(u)
                                    /\ at'[u] = IF u \in W THEN "spec" ELSE at[u]
                                    /\ acq'[u] = (acq[u] \/ u \in W)
                                    /\ tmo'[u] = IF u \in W THEN "none" ELSE tmo[u]
            BY <1>1, <1>5
      <2>. QED BY <1>1, <1>5, <1>6, <2>1, WakeOthers, Zenon
<1>8. word'.own = "FREE"
      <2>1. wd \in [own : Thread \cup Special, w : BOOLEAN] /\ wd.own = "FREE" BY DEF Free, Passing, Special
      <2> HIDE DEF wd
      <2>. QED BY <1>1, <2>1, WakeOwner
<1>9. OwnerChange(t) BY <1>2, <1>8, NotSpecial, Zenon DEF OwnerChange, Special
<1>10. count' = 0 /\ incr'[t] = 1 /\ op'[t] = "cond" /\ depth'[t] = 0
      BY <1>4 DEF ker_sync_condvar_wait, TypeOK
<1>11. /\ at'[t] = IF timeout = "IMMEDIATE" THEN "spec" ELSE "CONDVAR"
       /\ tmo'[t] \in {"none", "CONDVAR"}
       /\ acq'[t] = TRUE
      BY <1>1, Zenon
<1>12. ThreadState(t)'
      <2>1. CallState(t)' BY <1>10, <1>11 DEF CallState, Locking
      <2>2. TimeoutState(t)' BY <1>10, <1>11 DEF TimeoutState
      <2>3. IncrState(t)' BY <1>10, <1>11 DEF IncrState, Locking
      <2>4. QueueState(t)' BY <1>3, <1>5, <1>11 DEF QueueState
      <2>. QED BY <2>1, <2>2, <2>3, <2>4, Zenon DEF ThreadState
<1>13. OwnerState(t)' BY <1>8, <1>10, <1>11, NotSpecial DEF OwnerState, Special
<1>. QED BY <1>7, <1>9, <1>10, <1>12, <1>13, StepKeeps, Zenon

\* SyncCondvarSignal: the woken threads are due to reacquire the mutex.
LEMMA CondSignalKeeps ==
    ASSUME TypeOK, LockInv, NEW t \in Thread, ker_sync_condvar_signal(t)
    PROVE  LockInv'
<1>1. PICK W \in {condq} \cup {{u} : u \in condq} :
          /\ condq' = condq \ W
          /\ at' = [u \in Thread |-> IF u \in W THEN "spec" ELSE at[u]]
          /\ acq' = [u \in Thread |-> acq[u] \/ u \in W]
          /\ tmo' = [u \in Thread |-> IF u \in W THEN "none" ELSE tmo[u]]
      BY DEF ker_sync_condvar_signal
<1>2. W \subseteq condq BY <1>1
<1>3. ThreadState(t) /\ OwnerState(t) /\ at[t] = "user" BY DEF LockInv, ker_sync_condvar_signal
<1>4. t \notin W BY <1>2, <1>3 DEF ThreadState, QueueState
<1>5. UNCHANGED <<word, count, waiting, op, incr, status, saved, depth>> BY DEF ker_sync_condvar_signal
<1>6. W \cap waiting = {} BY <1>2 DEF LockInv, ThreadState, QueueState, TypeOK
<1>7. \A u \in Thread : Same(u) BY <1>5 DEF Same
<1>8. \A u \in Thread \ {t} : Quiet(u) \/ Woken(u) BY <1>1, <1>2, <1>5, <1>6, <1>7, WakeOthers
<1>9. acq'[t] = acq[t] BY <1>1, <1>4 DEF TypeOK
<1>10. Quiet(t) BY <1>1, <1>4, <1>5, <1>7, <1>9 DEF Quiet
<1>11. ThreadState(t)' /\ OwnerState(t)' BY <1>3, <1>5, <1>10, QuietThread, QuietOwner
<1>12. OwnerChange(t) BY <1>5 DEF OwnerChange
<1>. QED BY <1>5, <1>8, <1>11, <1>12, StepKeeps DEF LockInv

-----------------------------------------------------------------------------
(* Timeouts, signals, death *)

\* The timer of a lock that waits makes it fail; a condition wait reacquires the mutex.
LEMMA TimerKeeps ==
    ASSUME TypeOK, LockInv, NEW t \in Thread, timer_fire(t)
    PROVE  LockInv'
<1>1. ThreadState(t) /\ at[t] \in {"MUTEX", "CONDVAR"} /\ tmo[t] = at[t] BY DEF LockInv, timer_fire
<1>2. UNCHANGED <<word, count, op, acq, incr, saved, depth>> BY DEF timer_fire
<1>3. status'[t] = "ETIMEDOUT" /\ tmo'[t] = "none" /\ t \notin waiting' /\ t \notin condq'
      BY DEF timer_fire, TypeOK
<1>4. at'[t] = IF acq[t] THEN "spec" ELSE "ret" BY DEF timer_fire, TypeOK
<1>5. at[t] = "MUTEX" => op[t] = "lock" /\ ~acq[t] BY <1>1, Zenon DEF ThreadState, CallState, TimeoutState
<1>6. at[t] = "CONDVAR" => op[t] = "cond" /\ acq[t] BY <1>1, Zenon DEF ThreadState, CallState
<1>7. ThreadState(t)'
      <2>1. CallState(t)' BY <1>1, <1>2, <1>4, <1>5, <1>6, Zenon DEF CallState, Locking
      <2>2. TimeoutState(t)' BY <1>1, <1>2, <1>3, <1>4, <1>5, <1>6, Zenon DEF TimeoutState
      <2>3. IncrState(t)' BY <1>1, <1>2, <1>4, <1>5, <1>6, Zenon DEF ThreadState, IncrState, Locking
      <2>4. QueueState(t)' BY <1>3, Zenon DEF QueueState
      <2>. QED BY <2>1, <2>2, <2>3, <2>4 DEF ThreadState
<1>8. at'[t] = "ret" => ~Success(t)' BY <1>1, <1>2, <1>3, <1>4, <1>5, <1>6, Zenon DEF Success
<1>9. \A u \in Thread \ {t} : Quiet(u) BY Zenon DEF timer_fire, Quiet, Same, TypeOK
<1>. QED BY <1>1, <1>2, <1>7, <1>8, <1>9, KernelStepKeeps

\* A handler runs with the increment and the timeout saved.
LEMMA SignalKeeps ==
    ASSUME TypeOK, LockInv, NEW t \in Thread, signal_kill_thread(t)
    PROVE  LockInv'
<1>1. PICK clobber \in {0, 1} : SignalThread(t, clobber) BY DEF signal_kill_thread
<1>2. ThreadState(t) /\ at[t] \in {"MUTEX", "CONDVAR", "spec"} BY DEF LockInv, signal_kill_thread
<1>3. UNCHANGED <<word, count, op, depth>> BY Zenon DEF signal_kill_thread
<1>4. /\ at'[t] = "handler" /\ acq'[t] = FALSE /\ tmo'[t] = "none" /\ t \notin waiting' /\ t \notin condq'
      /\ saved'[t].incr = incr[t] /\ saved'[t].tmo = IF tmo[t] = "MUTEX" THEN "MUTEX" ELSE "none"
      /\ status'[t] = IF at[t] = "spec" THEN status[t] ELSE "EINTR"
      BY <1>1 DEF SignalThread, TypeOK
<1>5. op[t] \in {"lock", "cond"} BY <1>2 DEF ThreadState, CallState
<1>6. ThreadState(t)'
      <2>1. CallState(t)' BY <1>3, <1>4, <1>5, Zenon DEF CallState, Locking
      <2>2. TimeoutState(t)' BY <1>2, <1>3, <1>4, <1>5, Zenon DEF ThreadState, TimeoutState
      <2>3. IncrState(t)'
            <3>1. op[t] = "lock" => at[t] # "CONDVAR" BY <1>2 DEF ThreadState, CallState
            <3>. QED BY <1>2, <1>3, <1>4, <1>5, <3>1, Zenon DEF ThreadState, IncrState, Locking
      <2>4. QueueState(t)' BY <1>4, Zenon DEF QueueState
      <2>. QED BY <2>1, <2>2, <2>3, <2>4, Zenon DEF ThreadState
<1>7. \A u \in Thread \ {t} : Quiet(u) BY <1>1, <1>3, Zenon DEF SignalThread, Quiet, Same, TypeOK
<1>. QED BY <1>2, <1>3, <1>4, <1>6, <1>7, KernelStepKeeps

\* SignalReturn restores both.
LEMMA SignalReturnKeeps ==
    ASSUME TypeOK, LockInv, NEW t \in Thread, ker_signal_return(t)
    PROVE  LockInv'
<1>1. ThreadState(t) /\ at[t] = "handler" BY DEF LockInv, ker_signal_return
<1>2. UNCHANGED <<word, count, waiting, condq, op, status, saved, depth>> BY DEF ker_signal_return, mvars
<1>3. at'[t] = "spec" /\ acq'[t] = TRUE /\ incr'[t] = saved[t].incr /\ tmo'[t] = saved[t].tmo
      BY DEF ker_signal_return, TypeOK
<1>4. op[t] \in {"lock", "cond"} BY <1>1, Zenon DEF ThreadState, CallState
<1>5. ThreadState(t)'
      <2>1. CallState(t)' BY <1>2, <1>3, <1>4, Zenon DEF CallState, Locking
      <2>2. TimeoutState(t)' BY <1>1, <1>2, <1>3, <1>4, Zenon DEF ThreadState, TimeoutState
      <2>3. IncrState(t)' BY <1>1, <1>2, <1>3, <1>4, Zenon DEF ThreadState, IncrState, Locking
      <2>4. QueueState(t)' BY <1>1, <1>2, Zenon DEF ThreadState, QueueState
      <2>. QED BY <2>1, <2>2, <2>3, <2>4 DEF ThreadState
<1>6. \A u \in Thread \ {t} : Quiet(u) BY <1>2, Zenon DEF ker_signal_return, Quiet, Same, TypeOK
<1>. QED BY <1>1, <1>2, <1>3, <1>5, <1>6, KernelStepKeeps

\* A thread that dies may leave the mutex locked.
LEMMA DestroyKeeps ==
    ASSUME TypeOK, LockInv, NEW t \in Thread, thread_destroy(t)
    PROVE  LockInv'
<1>1. /\ at'[t] = "dead" /\ acq'[t] = FALSE /\ tmo'[t] = "none" /\ depth'[t] = 0
      /\ t \notin waiting' /\ t \notin condq' /\ UNCHANGED <<word, count, op, incr, status, saved>>
      BY Zenon DEF thread_destroy, TypeOK
<1>2. ThreadState(t)'
      BY <1>1, Zenon DEF ThreadState, CallState, TimeoutState, IncrState, QueueState, Locking
<1>3. OwnerState(t)' BY <1>1 DEF OwnerState
<1>4. \A u \in Thread \ {t} : Quiet(u) BY DEF thread_destroy, Quiet, Same, TypeOK
<1>5. OwnerChange(t) BY <1>1 DEF OwnerChange
<1>. QED BY <1>1, <1>2, <1>3, <1>4, <1>5, StepKeeps DEF LockInv

\* The mutex of a dead owner is DEAD; if it is destroyed there is nothing to show.
LEMMA UnmapKeeps ==
    ASSUME TypeOK, LockInv, NEW t \in Thread, synchash_rem(t), word'.own # "DESTROYED"
    PROVE  LockInv'
<1>1. UNCHANGED <<count, waiting, condq, op, acq, incr, tmo, status, saved, depth>> /\ at[t] = "dead"
      BY DEF synchash_rem
<1>2. at' = at /\ (word' = word \/ (word.own = t /\ word'.own = "DEAD")) BY DEF synchash_rem, Word
<1>3. \A u \in Thread : Quiet(u) BY <1>1, <1>2 DEF Quiet, Same
<1>4. ThreadState(t) /\ OwnerState(t) BY DEF LockInv
<1>5. ThreadState(t)' BY <1>3, <1>4, QuietThread
<1>6. OwnerState(t)'
      <2>1. depth[t] = 0 BY <1>4, <1>1, Zenon DEF OwnerState
      <2>. QED BY <1>1, <1>2, <1>4, <2>1, NotSpecial, SMTT(30) DEF OwnerState, Special
<1>7. OwnerChange(t) BY <1>1, <1>2, NotSpecial DEF OwnerChange, Special
<1>8. word'.own \in {"FREE", "INITIALIZER"} => count' = 0 BY <1>1, <1>2, Zenon DEF LockInv
<1>. QED BY <1>3, <1>5, <1>6, <1>7, <1>8, StepKeeps

\* SyncCtl only registers an event.
LEMMA SetEventKeeps ==
    ASSUME LockInv, NEW t \in Thread, ker_sync_ctl_setevent(t)
    PROVE  LockInv'
<1>1. UNCHANGED <<word, count, waiting, condq, at, op, acq, incr, tmo, status, saved, depth>>
      BY DEF ker_sync_ctl_setevent, tvars
<1>. QED BY <1>1, SameState

\* SyncMutexRevive: the mutex of nobody becomes the caller's, once.
LEMMA ReviveKeeps ==
    ASSUME TypeOK, LockInv, NEW t \in Thread, ker_sync_mutex_revive(t)
    PROVE  LockInv'
<1>1. /\ word.own = "DEAD" /\ word'.own = t /\ count' = 1 /\ depth'[t] = 1 /\ at[t] = "user"
      /\ UNCHANGED <<waiting, condq, at, op, acq, incr, tmo, status, saved>>
      BY DEF ker_sync_mutex_revive, TypeOK
<1>2. ThreadState(t) BY Zenon DEF LockInv
<1>3. ThreadState(t)'
      BY <1>1, <1>2, Zenon DEF ThreadState, CallState, TimeoutState, IncrState, QueueState
<1>4. OwnerState(t)' BY <1>1 DEF OwnerState, Holds
<1>5. \A u \in Thread \ {t} : Quiet(u) BY DEF ker_sync_mutex_revive, Quiet, Same, TypeOK
<1>6. OwnerChange(t) BY <1>1, NotSpecial DEF OwnerChange, Special
<1>7. word'.own \notin {"FREE", "INITIALIZER"} BY <1>1, NotSpecial DEF Special
<1>. QED BY <1>3, <1>4, <1>5, <1>6, <1>7, StepKeeps, Zenon

-----------------------------------------------------------------------------
(* All together *)

\* The types
LEMMA SettleType ==
    ASSUME TypeOK, NEW t \in Thread, NEW place \in Places, NEW result \in Errors, NEW W, W \subseteq waiting,
           Settle(t, place, result, W)
    PROVE  /\ count' \in Nat /\ waiting' \subseteq Thread /\ ker' \in Thread \cup {NONE}
           /\ at' \in [Thread -> Places] /\ acq' \in [Thread -> BOOLEAN] /\ incr' \in [Thread -> {0, 1}]
           /\ tmo' \in [Thread -> Timeouts] /\ status' \in [Thread -> Errors]
<1>1. count' \in Nat BY SMTT(30) DEF Settle, TypeOK
<1>2. waiting' \subseteq Thread /\ ker' \in Thread \cup {NONE} BY Zenon DEF Settle, TypeOK
<1>3. at' \in [Thread -> Places] BY DEF Settle, TypeOK, Places
<1>4. acq' \in [Thread -> BOOLEAN] BY Zenon DEF Settle
<1>5. incr' \in [Thread -> {0, 1}] BY Zenon DEF Settle, TypeOK
<1>6. tmo' \in [Thread -> Timeouts] BY Zenon DEF Settle, TypeOK, Timeouts
<1>7. status' \in [Thread -> Errors] BY DEF Settle, TypeOK
<1>. QED BY <1>1, <1>2, <1>3, <1>4, <1>5, <1>6, <1>7, Zenon

LEMMA BlockType ==
    ASSUME TypeOK, NEW t \in Thread, NEW W, W \subseteq waiting, Block(t, W)
    PROVE  /\ count' \in Nat /\ waiting' \subseteq Thread /\ ker' \in Thread \cup {NONE}
           /\ at' \in [Thread -> Places] /\ acq' \in [Thread -> BOOLEAN] /\ incr' \in [Thread -> {0, 1}]
           /\ tmo' \in [Thread -> Timeouts] /\ status' \in [Thread -> Errors]
<1>1. Settle(t, "ret", "ETIMEDOUT", W) \/ Settle(t, "MUTEX", "EOK", W) BY DEF Block
<1>2. {"ret", "MUTEX"} \subseteq Places /\ {"ETIMEDOUT", "EOK"} \subseteq Errors BY Zenon DEF Places, Errors
<1>. QED BY <1>1, <1>2, SettleType

LEMMA NextType == ASSUME TypeOK, Next PROVE TypeOK'
<1>1. PICK t \in Thread :
        \/ \E timeout \in Timeouts : pthread_mutex_lock(t, timeout)
        \/ \E timeout \in Timeouts : ker_sync_condvar_wait(t, timeout)
        \/ library_return(t) \/ pthread_mutex_unlock(t)
        \/ sync_mutex_lock_enter(t) \/ Preempt(t) \/ sync_mutex_lock_take(t)
        \/ sync_mutex_lock_queue(t) \/ sync_mutex_lock_retry(t)
        \/ sync_mutex_unlock(t) \/ ker_sync_condvar_signal(t) \/ sync_destroy(t)
        \/ timer_fire(t) \/ signal_kill_thread(t) \/ ker_signal_return(t)
        \/ thread_destroy(t) \/ ker_sync_ctl_setevent(t)
        \/ synchash_rem(t) \/ synchash_rem_loop(t) \/ ker_sync_mutex_revive(t)
      BY DEF Next
<1>2. {"user", "call", "try", "again", "locked", "spec", "handler", "ret", "unmap", "dead", "CONDVAR"} \subseteq Places
      /\ {"none", "lock", "unlock", "cond"} \subseteq Calls
      /\ {"EOK", "ETIMEDOUT", "EINTR", "EINVAL", "EOWNERDEAD"} \subseteq Errors
      /\ {"none", "MUTEX", "CONDVAR", "IMMEDIATE"} \subseteq Timeouts
      BY DEF Places, Calls, Errors, Timeouts
<1> DEFINE Words == [own : Thread \cup Special, w : BOOLEAN]
<1>3. /\ Free \in Words /\ Passing \in Words
      /\ \A o \in Thread \cup Special : Word(o) \in Words
      /\ \A wd \in Words : atomic_set(wd) \in Words
      /\ \A o \in Thread \cup Special, b \in BOOLEAN : [own |-> o, w |-> b] \in Words
      BY Zenon DEF Free, Passing, Word, Special, atomic_set
<1>4. word \in Words BY Zenon DEF TypeOK
<1>5. ASSUME NEW timeout \in Timeouts, pthread_mutex_lock(t, timeout) PROVE TypeOK'
      <2>1. word' \in Words BY <1>3, <1>4, <1>5 DEF pthread_mutex_lock
      <2>2. /\ count' = count + 1 \/ count' = count
            /\ depth' = [depth EXCEPT ![t] = @ + 1] \/ depth' = depth
            /\ at' = [at EXCEPT ![t] = "call"] \/ at' = at
            /\ op' = [op EXCEPT ![t] = "lock"] \/ op' = op
            /\ tmo' = [tmo EXCEPT ![t] = timeout] \/ tmo' = tmo
            BY <1>5 DEF pthread_mutex_lock
      <2>3. count' \in Nat /\ depth' \in [Thread -> Nat] BY <2>2 DEF TypeOK
      <2>4. at' \in [Thread -> Places] /\ op' \in [Thread -> Calls] BY <1>2, <2>2, SMTT(30) DEF TypeOK
      <2>5. tmo' \in [Thread -> Timeouts] BY <2>2, Zenon DEF TypeOK
      <2>6. UNCHANGED <<waiting, condq, events, ker, acq, incr, status, saved>> BY <1>5, Zenon DEF pthread_mutex_lock
      <2>. QED BY <2>1, <2>3, <2>4, <2>5, <2>6, Zenon DEF TypeOK
<1>6. ASSUME NEW timeout \in Timeouts, ker_sync_condvar_wait(t, timeout) PROVE TypeOK'
      <2>1. PICK W \in SUBSET waiting :
                /\ WakeFirst(W, IF waiting = {} THEN Free ELSE Passing)
                /\ at' = [u \in Thread |-> IF u = t THEN IF timeout = "IMMEDIATE" THEN "spec" ELSE "CONDVAR"
                                           ELSE IF u \in W THEN "spec" ELSE at[u]]
                /\ acq' = [u \in Thread |-> u = t \/ acq[u] \/ u \in W]
                /\ tmo' = [u \in Thread |-> IF u = t THEN IF timeout = "CONDVAR" THEN timeout ELSE "none"
                                            ELSE IF u \in W THEN "none" ELSE tmo[u]]
            BY <1>6, Zenon DEF ker_sync_condvar_wait
      <2>2. word' \in Words /\ waiting' \subseteq Thread BY <1>3, <2>1, Zenon DEF WakeFirst, TypeOK
      <2>3. at' \in [Thread -> Places] /\ tmo' \in [Thread -> Timeouts] BY <1>2, <2>1, Zenon DEF TypeOK
      <2>4. acq' \in [Thread -> BOOLEAN] BY <2>1, Zenon
      <2>5. count' \in Nat /\ incr' \in [Thread -> {0, 1}] BY <1>6 DEF ker_sync_condvar_wait, TypeOK
      <2>. QED BY <1>2, <1>6, <2>2, <2>3, <2>4, <2>5, Zenon DEF TypeOK, ker_sync_condvar_wait
<1>7. CASE library_return(t) BY <1>2, <1>7 DEF TypeOK, library_return
<1>8. CASE pthread_mutex_unlock(t) BY <1>2, <1>3, <1>4, <1>8, SMTT(30) DEF TypeOK, pthread_mutex_unlock
<1>9. CASE sync_mutex_lock_enter(t)
      <2>1. CASE Settle(t, "ret", "EINVAL", {}) /\ UNCHANGED <<word, condq, events, op, saved, depth>>
            BY <1>2, <2>1, SettleType DEF TypeOK
      <2>2. CASE word' = Free /\ UNCHANGED <<waiting, at, status, count, incr, acq, tmo, ker, condq, events, op, saved, depth>>
            BY <1>3, <2>2, Zenon DEF TypeOK
      <2>3. CASE word' = atomic_set(word) /\ ker' = t /\ at' = [at EXCEPT ![t] = "try"]
                 /\ UNCHANGED <<waiting, status, count, incr, acq, tmo, condq, events, op, saved, depth>>
            BY <1>2, <1>3, <1>4, <2>3, Zenon DEF TypeOK
      <2>. QED BY <1>9, <2>1, <2>2, <2>3 DEF sync_mutex_lock_enter
<1>10. CASE Preempt(t) BY <1>2, <1>10, Zenon DEF TypeOK, Preempt, mvars
<1>11. CASE sync_mutex_lock_take(t)
      <2>1. word' \in Words BY <1>3, <1>4, <1>11, Zenon DEF sync_mutex_lock_take
      <2>2. Settle(t, "ret", "EOK", {}) \/ Block(t, {}) BY <1>11, Zenon DEF sync_mutex_lock_take
      <2>3. UNCHANGED <<condq, events, op, saved, depth>> BY <1>11 DEF sync_mutex_lock_take
      <2>. QED BY <1>2, <2>1, <2>2, <2>3, SettleType, BlockType, SMTT(30) DEF TypeOK
<1>12. CASE sync_mutex_lock_queue(t)
      <2>1. UNCHANGED <<word, condq, events, op, saved, depth>> BY <1>12, Zenon DEF sync_mutex_lock_queue
      <2>2. CASE at' = [at EXCEPT ![t] = "again"] /\ UNCHANGED <<waiting, status, count, incr, acq, tmo, ker>>
            BY <1>2, <2>1, <2>2, Zenon DEF TypeOK
      <2>3. ASSUME NEW W, W \subseteq waiting, Block(t, W) PROVE TypeOK'
            BY <2>1, <2>3, BlockType, Zenon DEF TypeOK
      <2>. QED BY <1>12, <2>2, <2>3, Zenon DEF sync_mutex_lock_queue
<1>13. CASE sync_mutex_lock_retry(t) BY <1>2, <1>3, <1>4, <1>13, Zenon DEF TypeOK, sync_mutex_lock_retry
<1>14. CASE sync_mutex_unlock(t)
      <2>1. PICK W \in SUBSET waiting :
                /\ WakeFirst(W, word)
                /\ at' = [u \in Thread |-> IF u = t THEN "user" ELSE IF u \in W THEN "spec" ELSE at[u]]
                /\ acq' = [u \in Thread |-> acq[u] \/ u \in W]
                /\ tmo' = [u \in Thread |-> IF u \in W THEN "none" ELSE tmo[u]]
            BY <1>14, Zenon DEF sync_mutex_unlock
      <2>2. word' \in Words /\ waiting' \subseteq Thread BY <1>3, <1>4, <2>1, Zenon DEF WakeFirst, TypeOK
      <2>3. at' \in [Thread -> Places] /\ tmo' \in [Thread -> Timeouts] BY <1>2, <2>1, Zenon DEF TypeOK
      <2>4. acq' \in [Thread -> BOOLEAN] BY <2>1, Zenon
      <2>. QED BY <1>2, <1>14, <2>2, <2>3, <2>4, Zenon DEF TypeOK, sync_mutex_unlock
<1>15. CASE ker_sync_condvar_signal(t)
      <2>1. PICK W \in {condq} \cup {{u} : u \in condq} :
                /\ condq' = condq \ W
                /\ at' = [u \in Thread |-> IF u \in W THEN "spec" ELSE at[u]]
                /\ acq' = [u \in Thread |-> acq[u] \/ u \in W]
                /\ tmo' = [u \in Thread |-> IF u \in W THEN "none" ELSE tmo[u]]
            BY <1>15 DEF ker_sync_condvar_signal
      <2>2. condq' \subseteq Thread BY <2>1, Zenon DEF TypeOK
      <2>3. at' \in [Thread -> Places] /\ tmo' \in [Thread -> Timeouts] BY <1>2, <2>1 DEF TypeOK
      <2>4. acq' \in [Thread -> BOOLEAN] BY <2>1, Zenon
      <2>. QED BY <1>15, <2>2, <2>3, <2>4, Zenon DEF TypeOK, ker_sync_condvar_signal
<1>16. CASE sync_destroy(t) BY <1>2, <1>3, <1>16, Zenon DEF TypeOK, sync_destroy, Special
<1>17. CASE timer_fire(t) BY <1>2, <1>17, Zenon DEF TypeOK, timer_fire
<1>18. ASSUME NEW u \in Thread, NEW clobber \in {0, 1}, SignalThread(u, clobber),
              UNCHANGED <<word, count, events, ker, op, depth>>
       PROVE  TypeOK'
      BY <1>2, <1>18 DEF TypeOK, SignalThread
<1>19. CASE signal_kill_thread(t) BY <1>18, <1>19, Zenon DEF signal_kill_thread
<1>20. CASE ker_signal_return(t) BY <1>2, <1>20, Zenon DEF TypeOK, ker_signal_return, mvars
<1>21. CASE thread_destroy(t) BY <1>2, <1>21, Zenon DEF TypeOK, thread_destroy
<1>22. CASE ker_sync_ctl_setevent(t) BY <1>22, Zenon DEF TypeOK, ker_sync_ctl_setevent, tvars
<1>23. CASE synchash_rem(t) BY <1>2, <1>3, <1>23 DEF TypeOK, synchash_rem, Special
<1>24. CASE synchash_rem_loop(t)
      <2>1. CASE waiting = {} /\ ker' = NONE /\ at' = [at EXCEPT ![t] = "dead"]
                 /\ UNCHANGED <<waiting, condq, status, saved, acq, tmo, incr>>
            BY <1>2, <1>24, <2>1, Zenon DEF TypeOK, synchash_rem_loop
      <2>2. ASSUME NEW u \in waiting, UNCHANGED ker,
                   \/ \E clobber \in {0, 1} : SignalThread(u, clobber)
                   \/ /\ at' = [at EXCEPT ![u] = "ret"]
                      /\ waiting' = waiting \ {u}
                      /\ status' = [status EXCEPT ![u] = "EOWNERDEAD"]
                      /\ UNCHANGED <<condq, saved, acq, tmo, incr>>
            PROVE  TypeOK'
            <3>1. u \in Thread /\ UNCHANGED <<word, count, events, ker, op, depth>>
                  BY <1>24, <2>2 DEF TypeOK, synchash_rem_loop
            <3>2. CASE \E clobber \in {0, 1} : SignalThread(u, clobber) BY <1>18, <3>1, <3>2, Zenon
            <3>3. CASE /\ at' = [at EXCEPT ![u] = "ret"]
                       /\ waiting' = waiting \ {u}
                       /\ status' = [status EXCEPT ![u] = "EOWNERDEAD"]
                       /\ UNCHANGED <<condq, saved, acq, tmo, incr>>
                  BY <1>2, <3>1, <3>3, Zenon DEF TypeOK
            <3>. QED BY <2>2, <3>2, <3>3, Zenon
      <2>. QED BY <1>24, <2>1, <2>2, Zenon DEF synchash_rem_loop
<1>25. CASE ker_sync_mutex_revive(t) BY <1>3, <1>25, Zenon DEF TypeOK, ker_sync_mutex_revive
<1>. QED BY <1>1, <1>5, <1>6, <1>7, <1>8, <1>9, <1>10, <1>11, <1>12, <1>13, <1>14, <1>15, <1>16, <1>17, <1>19,
            <1>20, <1>21, <1>22, <1>23, <1>24, <1>25, Zenon

\* A mutex that is destroyed stays so.
LEMMA DestroyedStays ==
    ASSUME TypeOK, Next, word.own = "DESTROYED"
    PROVE  word'.own = "DESTROYED"
<1>1. word # Free /\ word # Passing /\ atomic_set(word) = word BY DEF Free, Passing, atomic_set
<1>2. \A t \in Thread : word.own # t BY NotSpecial, Zenon DEF Special
<1>3. ASSUME NEW t \in Thread, NEW timeout \in Timeouts,
             pthread_mutex_lock(t, timeout) \/ ker_sync_condvar_wait(t, timeout)
      PROVE  word' = word
      BY <1>1, <1>2, <1>3 DEF pthread_mutex_lock, ker_sync_condvar_wait
<1>4. ASSUME NEW t \in Thread, \/ library_return(t) \/ pthread_mutex_unlock(t)
                               \/ sync_mutex_lock_enter(t) \/ Preempt(t) \/ sync_mutex_lock_take(t)
                               \/ sync_mutex_lock_queue(t) \/ sync_mutex_lock_retry(t)
      PROVE  word' = word
      BY <1>1, <1>2, <1>4, Zenon DEF library_return, pthread_mutex_unlock, sync_mutex_lock_enter, Preempt, mvars,
                              sync_mutex_lock_take, sync_mutex_lock_queue, sync_mutex_lock_retry
<1>5. ASSUME NEW t \in Thread, \/ sync_mutex_unlock(t) \/ ker_sync_condvar_signal(t) \/ timer_fire(t)
                               \/ signal_kill_thread(t) \/ ker_signal_return(t) \/ thread_destroy(t)
      PROVE  word' = word
      BY <1>1, <1>2, <1>5, Zenon DEF sync_mutex_unlock, WakeFirst, ker_sync_condvar_signal, timer_fire,
                              signal_kill_thread, ker_signal_return, mvars, thread_destroy
<1>6. ASSUME NEW t \in Thread, \/ ker_sync_ctl_setevent(t) \/ synchash_rem(t) \/ synchash_rem_loop(t)
                               \/ ker_sync_mutex_revive(t)
      PROVE  word' = word
      BY <1>2, <1>6, Zenon DEF ker_sync_ctl_setevent, synchash_rem, synchash_rem_loop, ker_sync_mutex_revive
<1>7. ASSUME NEW t \in Thread, sync_destroy(t) PROVE word'.own = "DESTROYED" BY <1>7 DEF sync_destroy, Word
<1>. QED BY <1>3, <1>4, <1>5, <1>6, <1>7 DEF Next

LEMMA InitHolds == Init => IInv
<1>1. SUFFICES ASSUME Init PROVE IInv OBVIOUS
<1>2. TypeOK
      <2>1. word \in [own : Thread \cup Special, w : BOOLEAN]
            <3>1. word = Free \/ word = Word("INITIALIZER") BY <1>1 DEF Init
            <3>2. Free \in [own : Thread \cup Special, w : BOOLEAN] BY DEF Free, Special
            <3>3. Word("INITIALIZER") \in [own : Thread \cup Special, w : BOOLEAN] BY DEF Word, Special
            <3>. QED BY <3>1, <3>2, <3>3, Zenon
      <2>2. at \in [Thread -> Places] /\ op \in [Thread -> Calls] BY <1>1, Zenon DEF Init, Places, Calls
      <2>3. tmo \in [Thread -> Timeouts] /\ status \in [Thread -> Errors] BY <1>1 DEF Init, Timeouts, Errors
      <2>4. saved \in [Thread -> [incr : {0, 1}, tmo : Timeouts]] BY <1>1 DEF Init, Timeouts
      <2>5. acq \in [Thread -> BOOLEAN] BY <1>1, Zenon DEF Init
      <2>6. incr \in [Thread -> {0, 1}] /\ depth \in [Thread -> Nat] BY <1>1, Zenon DEF Init
      <2>. QED BY <1>1, <2>1, <2>2, <2>3, <2>4, <2>5, <2>6, Zenon DEF Init, TypeOK
<1>3. word.own \in {"FREE", "INITIALIZER"} BY <1>1 DEF Init, Free, Word
<1>4. ASSUME NEW t \in Thread PROVE ThreadState(t) /\ OwnerState(t)
      <2>1. ThreadState(t)
            BY <1>1 DEF Init, ThreadState, CallState, TimeoutState, IncrState, QueueState, Locking
      <2>2. word.own # t BY <1>3, NotSpecial, Zenon DEF Special
      <2>3. OwnerState(t) BY <1>1, <2>2 DEF Init, OwnerState
      <2>. QED BY <2>1, <2>3, Zenon
<1>5. count = 0 BY <1>1 DEF Init
<1>. QED BY <1>2, <1>4, <1>5 DEF IInv, LockInv

\* Every step keeps the invariant.
LEMMA NextKeeps == IInv /\ [Next]_vars => IInv'
<1>1. SUFFICES ASSUME IInv, [Next]_vars PROVE IInv' OBVIOUS
<1>2. CASE UNCHANGED vars
      <2>1. TypeOK' BY <1>1, <1>2 DEF vars, IInv, TypeOK
      <2>2. UNCHANGED <<word, count, waiting, condq, at, op, acq, incr, tmo, status, saved, depth>>
            BY <1>2, Zenon DEF vars
      <2>. QED BY <1>1, <2>1, <2>2, SameState, Zenon DEF IInv
<1>3. CASE Next
      <2>1. TypeOK' BY <1>1, <1>3, NextType DEF IInv
      <2>2. SUFFICES ASSUME word'.own # "DESTROYED" PROVE LockInv' BY <2>1 DEF IInv
      <2>3. TypeOK /\ LockInv /\ word.own # "DESTROYED" BY <1>1, <1>3, <2>2, DestroyedStays DEF IInv
      <2>4. PICK t \in Thread :
              \/ \E timeout \in Timeouts : pthread_mutex_lock(t, timeout)
              \/ \E timeout \in Timeouts : ker_sync_condvar_wait(t, timeout)
              \/ library_return(t) \/ pthread_mutex_unlock(t)
              \/ sync_mutex_lock_enter(t) \/ Preempt(t) \/ sync_mutex_lock_take(t)
              \/ sync_mutex_lock_queue(t) \/ sync_mutex_lock_retry(t)
              \/ sync_mutex_unlock(t) \/ ker_sync_condvar_signal(t) \/ sync_destroy(t)
              \/ timer_fire(t) \/ signal_kill_thread(t) \/ ker_signal_return(t)
              \/ thread_destroy(t) \/ ker_sync_ctl_setevent(t)
              \/ synchash_rem(t) \/ synchash_rem_loop(t) \/ ker_sync_mutex_revive(t)
            BY <1>3 DEF Next
      <2>5. CASE \E timeout \in Timeouts : pthread_mutex_lock(t, timeout) BY <2>3, <2>5, LockKeeps
      <2>6. CASE \E timeout \in Timeouts : ker_sync_condvar_wait(t, timeout) BY <2>3, <2>6, CondWaitKeeps
      <2>7. CASE library_return(t) BY <2>3, <2>7, ReturnKeeps
      <2>8. CASE pthread_mutex_unlock(t) BY <2>3, <2>8, UnlockKeeps
      <2>9. CASE sync_mutex_lock_enter(t) BY <2>3, <2>9, EnterKeeps, Zenon
      <2>10. CASE Preempt(t) BY <2>3, <2>10, PreemptKeeps
      <2>11. CASE sync_mutex_lock_take(t) BY <2>3, <2>11, TakeKeeps
      <2>12. CASE sync_mutex_lock_queue(t) BY <2>3, <2>12, QueueKeeps
      <2>13. CASE sync_mutex_lock_retry(t) BY <2>3, <2>13, RetryKeeps
      <2>14. CASE sync_mutex_unlock(t) BY <2>3, <2>14, KernelUnlockKeeps
      <2>15. CASE ker_sync_condvar_signal(t) BY <2>3, <2>15, CondSignalKeeps
      <2>16. CASE sync_destroy(t) BY <2>2, <2>16 DEF sync_destroy, Word
      <2>17. CASE timer_fire(t) BY <2>3, <2>17, TimerKeeps
      <2>18. CASE signal_kill_thread(t) BY <2>3, <2>18, SignalKeeps
      <2>19. CASE ker_signal_return(t) BY <2>3, <2>19, SignalReturnKeeps
      <2>20. CASE thread_destroy(t) BY <2>3, <2>20, DestroyKeeps
      <2>21. CASE ker_sync_ctl_setevent(t) BY <2>3, <2>21, SetEventKeeps
      <2>22. CASE synchash_rem(t) BY <2>2, <2>3, <2>22, UnmapKeeps, Zenon
      <2>23. CASE synchash_rem_loop(t)
             BY <2>3, <2>23, Zenon DEF LockInv, ThreadState, CallState, synchash_rem_loop
      <2>24. CASE ker_sync_mutex_revive(t) BY <2>3, <2>24, ReviveKeeps
      <2>. QED BY <2>4, <2>5, <2>6, <2>7, <2>8, <2>9, <2>10, <2>11, <2>12, <2>13, <2>14, <2>15, <2>16, <2>17, <2>18,
                  <2>19, <2>20, <2>21, <2>22, <2>23, <2>24
<1>. QED BY <1>1, <1>2, <1>3

\* The invariant that relates the owner word, the count and the lists to where every thread
\* is in its call.
THEOREM Invariance == Spec => []IInv
BY InitHolds, NextKeeps, PTL DEF Spec

\* The values are of their types.
THEOREM TypeCorrect == Spec => []TypeOK
<1>1. IInv => TypeOK BY DEF IInv
<1>. QED BY <1>1, Invariance, PTL

\* At most one thread believes to have the mutex, and it is the one the owner word names:
\* the user-level exchange, wake-ups, retries after preemption, timeouts, handlers that
\* interrupt a wait, death and revival do not make two.
THEOREM MutexIsExclusive == Spec => []MutualExclusion
<1>1. IInv => MutualExclusion BY DEF IInv, LockInv, OwnerState, MutualExclusion
<1>. QED BY <1>1, Invariance, PTL

\* A lock or a condition wait reports success if and only if it has the mutex.
THEOREM ResultsAreTrue == Spec => []ResultIsTrue
<1>1. IInv => ResultIsTrue BY DEF IInv, LockInv, OwnerState, Success, ResultIsTrue
<1>. QED BY <1>1, Invariance, PTL

\* The count that user level and kernel keep together is the depth of the owner.
THEOREM CountIsExact == Spec => []CountExact
<1>1. IInv => CountExact
      <2>1. SUFFICES ASSUME IInv PROVE CountExact OBVIOUS
      <2>2. CASE word.own = "DESTROYED" BY <2>2, NotSpecial DEF CountExact, Special
      <2>3. CASE word.own # "DESTROYED" BY <2>1, <2>3 DEF IInv, LockInv, OwnerState, Holds, CountExact
      <2>. QED BY <2>2, <2>3
<1>. QED BY <1>1, Invariance, PTL
-----------------------------------------------------------------------------
(* No wake-up is lost *)

\* The bit that a thread sets in the owner word on its way to the list stays set until it is
\* on the list, unless the owner has exchanged the word and is on its way to the kernel,
\* where it cannot get before the thread has left it.
Releasing == \E t \in Thread : at[t] = "call" /\ op[t] = "unlock"

WakeInv ==
    /\ \A t \in Thread : at[t] \in Locking => ker = t /\ word.own \in Thread \cup {"FREE"}
    /\ \A t \in Thread : at[t] \in {"try", "locked"} => word.w \/ Releasing
    /\ \A t \in Thread : at[t] \notin {"dead", "unmap"}
    /\ word.own # "DEAD"
    /\ word.own = "DESTROYED" => waiting = {}
    /\ WaitersRemembered

\* Waiters are remembered by a thread on its way.
LEMMA SomeoneComes ==
    ASSUME NEW t \in Thread, at'[t] \in Locking \cup {"call", "spec", "handler"}
    PROVE  WaitersRemembered'
BY DEF WaitersRemembered, OnItsWay, Locking

\* A step outside the kernel's lock: nobody is in sync_mutex_lock, before or after.
LEMMA OutsideKeeps ==
    ASSUME WakeInv, ker = NONE, \A t \in Thread : at'[t] \notin Locking \cup {"dead", "unmap"},
           word'.own # "DEAD", word'.own = "DESTROYED" => waiting' = {}, WaitersRemembered'
    PROVE  WakeInv'
BY DEF WakeInv, Locking

\* Without ker, nobody is in sync_mutex_lock.
LEMMA NobodyInside ==
    ASSUME WakeInv, ker = NONE, NEW t \in Thread
    PROVE  at[t] \notin Locking \cup {"dead", "unmap"}
BY SyncAssumption, Zenon DEF WakeInv

LEMMA WakeLock ==
    ASSUME TypeOK, WakeInv, NEW t \in Thread, NEW timeout \in Timeouts, pthread_mutex_lock(t, timeout)
    PROVE  WakeInv'
<1>1. at[t] = "user" /\ UNCHANGED <<waiting, ker>> BY Zenon DEF pthread_mutex_lock
<1>2. CASE word = Free /\ word' = Word(t) /\ UNCHANGED <<at, op>>
      <2>1. ~word.w /\ word.own = "FREE" /\ word'.own = t BY <1>2 DEF Free, Word
      <2>2. WaitersRemembered'
            BY <1>1, <1>2, <2>1, NotSpecial, Zenon DEF WakeInv, WaitersRemembered, OnItsWay, Special
      <2>. QED BY <1>1, <1>2, <2>1, <2>2, NotSpecial DEF WakeInv, Releasing, Special
<1>3. CASE UNCHANGED <<word, at, op>>
      BY <1>1, <1>3 DEF WakeInv, Releasing, WaitersRemembered, OnItsWay
<1>4. CASE at' = [at EXCEPT ![t] = "call"] /\ op' = [op EXCEPT ![t] = "lock"] /\ UNCHANGED word
      <2>1. at'[t] = "call" /\ \A u \in Thread \ {t} : at'[u] = at[u] /\ op'[u] = op[u] BY <1>4 DEF TypeOK
      <2>2. Releasing => Releasing' BY <1>1, <2>1, Zenon DEF Releasing
      <2>3. WaitersRemembered' BY <2>1, SomeoneComes, Zenon
      <2>. QED BY <1>1, <1>4, <2>1, <2>2, <2>3 DEF WakeInv, Locking
<1>. QED BY <1>2, <1>3, <1>4, Zenon DEF pthread_mutex_lock

LEMMA WakeUnlock ==
    ASSUME TypeOK, WakeInv, NEW t \in Thread, pthread_mutex_unlock(t)
    PROVE  WakeInv'
<1>1. at[t] = "user" /\ word.own = t /\ UNCHANGED <<waiting, ker>> BY Zenon DEF pthread_mutex_unlock
<1>2. CASE UNCHANGED <<word, at, op>>
      BY <1>1, <1>2, Zenon DEF WakeInv, Releasing, WaitersRemembered, OnItsWay
<1>3. CASE word' = Free /\ word.w /\ at' = [at EXCEPT ![t] = "call"] /\ op' = [op EXCEPT ![t] = "unlock"]
      <2>1. at'[t] = "call" /\ op'[t] = "unlock" /\ \A u \in Thread \ {t} : at'[u] = at[u] BY <1>3, Zenon DEF TypeOK
      <2>2. Releasing' BY <2>1 DEF Releasing
      <2>3. WaitersRemembered' BY <2>1, SomeoneComes
      <2>4. word'.own = "FREE" BY <1>3 DEF Free
      <2>. QED BY <1>1, <2>1, <2>2, <2>3, <2>4 DEF WakeInv, Locking
<1>4. CASE word' = Free /\ ~word.w /\ UNCHANGED <<at, op>>
      <2>1. word'.own = "FREE" BY <1>4 DEF Free
      <2>2. WaitersRemembered'
            BY <1>1, <1>4, NotSpecial DEF WakeInv, WaitersRemembered, OnItsWay, Special
      <2>. QED BY <1>1, <1>4, <2>1, <2>2 DEF WakeInv, Releasing
<1>. QED BY <1>2, <1>3, <1>4, Zenon DEF pthread_mutex_unlock

LEMMA WakeEnter ==
    ASSUME TypeOK, WakeInv, NEW t \in Thread, sync_mutex_lock_enter(t)
    PROVE  WakeInv'
<1>1. ker = NONE /\ at[t] \in {"spec", "call"} BY DEF sync_mutex_lock_enter
<1>2. \A u \in Thread : at[u] \notin Locking \cup {"dead", "unmap"} BY <1>1, NobodyInside, Zenon
<1>3. CASE word.own = "DESTROYED"
      <2>1. Settle(t, "ret", "EINVAL", {}) /\ word' = word BY <1>3, Zenon DEF sync_mutex_lock_enter
      <2>2. waiting' = {} BY <1>3, <2>1, Zenon DEF WakeInv, Settle
      <2>3. \A u \in Thread : at'[u] \notin Locking \cup {"dead", "unmap"} BY <1>2, <2>1 DEF Settle, Locking
      <2>4. WaitersRemembered' BY <2>2 DEF WaitersRemembered
      <2>. QED BY <1>1, <1>3, <2>1, <2>2, <2>3, <2>4, OutsideKeeps
<1>4. CASE word.own = "INITIALIZER"
      <2>1. word' = Free /\ UNCHANGED <<waiting, at>> BY <1>4 DEF sync_mutex_lock_enter
      <2>2. WaitersRemembered' BY <1>1, <2>1, SomeoneComes, Zenon
      <2>. QED BY <1>1, <1>2, <2>1, <2>2, OutsideKeeps DEF Free
<1>5. CASE word.own \notin {"DESTROYED", "INITIALIZER"}
      <2>1. word' = atomic_set(word) /\ ker' = t /\ at' = [at EXCEPT ![t] = "try"] /\ waiting' = waiting
            BY <1>5 DEF sync_mutex_lock_enter
      <2>2. word'.w /\ word'.own = word.own BY <1>5, <2>1, Zenon DEF WakeInv, atomic_set, TypeOK
      <2>3. word.own \in Thread \cup {"FREE"} BY <1>5, Zenon DEF WakeInv, TypeOK, Special
      <2>4. at'[t] = "try" /\ \A u \in Thread \ {t} : at'[u] = at[u] BY <2>1 DEF TypeOK
      <2>5. WaitersRemembered' BY <2>4, SomeoneComes DEF Locking
      <2>. QED BY <1>2, <1>5, <2>1, <2>2, <2>3, <2>4, <2>5, NotSpecial DEF WakeInv, Special
<1>. QED BY <1>3, <1>4, <1>5

\* Only t is in sync_mutex_lock.
LEMMA OnlyInside ==
    ASSUME WakeInv, NEW t \in Thread, at[t] \in Locking, NEW u \in Thread \ {t}
    PROVE  at[u] \notin Locking
BY Zenon DEF WakeInv

LEMMA WakeBlock ==
    ASSUME TypeOK, LockInv, WakeInv, NEW t \in Thread, at[t] \in {"try", "locked"}, NEW W, W \subseteq waiting,
           Block(t, W), op' = op, \/ W = {} /\ word # Passing /\ word' = (IF word = Free THEN Passing ELSE word)
                                  \/ W # {} /\ word' = word
    PROVE  WakeInv'
<1>1. at[t] \in Locking /\ word.own \in Thread \cup {"FREE"} BY Zenon DEF WakeInv, Locking
<1>2. at'[t] \in {"ret", "MUTEX"} /\ \A u \in Thread \ {t} : at'[u] = IF u \in W THEN "spec" ELSE at[u]
      BY Zenon DEF Block, Settle
<1>3. \A u \in Thread : at'[u] \notin Locking \cup {"dead", "unmap"}
      BY <1>1, <1>2, OnlyInside, Zenon DEF WakeInv, Locking
<1>4. word'.own = word.own BY DEF Free, Passing
<1>5. t \notin waiting BY DEF LockInv, ThreadState, QueueState
<1>6. WaitersRemembered'
      <2>1. CASE W # {}
            <3>1. PICK u \in W : u \in Thread \ {t} BY <1>5, <2>1, Zenon DEF TypeOK
            <3>2. at'[u] = "spec" BY <1>2, <3>1, Zenon
            <3>. QED BY <3>1, <3>2, SomeoneComes, Zenon
      <2>2. CASE Releasing
            <3>1. PICK u \in Thread : at[u] = "call" /\ op[u] = "unlock" BY <2>2, Zenon DEF Releasing
            <3>2. at'[u] \in {"call", "spec"} BY <1>2, <3>1
            <3>. QED BY <3>1, <3>2, SomeoneComes
      <2>3. CASE W = {} /\ word.w
            <3>1. word.own \in Thread
                  <4>1. word = [own |-> word.own, w |-> TRUE] BY <2>3, Zenon DEF TypeOK
                  <4>. QED BY <1>1, <2>3, <4>1, Zenon DEF Passing
            <3>2. word' = word BY <2>3 DEF Free
            <3>. QED BY <2>3, <3>1, <3>2 DEF WaitersRemembered
      <2>. QED BY <2>1, <2>2, <2>3 DEF WakeInv
<1>. QED BY <1>1, <1>3, <1>4, <1>6, NotSpecial, Zenon DEF WakeInv, Special, Locking

LEMMA WakeTake ==
    ASSUME TypeOK, LockInv, WakeInv, NEW t \in Thread, sync_mutex_lock_take(t)
    PROVE  WakeInv'
<1>1. at[t] \in {"try", "locked"} /\ op' = op BY DEF sync_mutex_lock_take
<1>2. CASE word = Passing
      <2>1. Settle(t, "ret", "EOK", {}) /\ word' = [own |-> t, w |-> waiting # {}]
            BY <1>2, Zenon DEF sync_mutex_lock_take
      <2>2. waiting' = waiting /\ at'[t] = "ret" /\ \A u \in Thread \ {t} : at'[u] = at[u] BY <2>1 DEF Settle
      <2>3. WaitersRemembered' BY <2>1, <2>2, Zenon DEF WaitersRemembered
      <2>4. \A u \in Thread : at'[u] \notin Locking \cup {"dead", "unmap"}
            BY <1>1, <2>2, OnlyInside DEF WakeInv, Locking
      <2>. QED BY <2>1, <2>3, <2>4, NotSpecial, Zenon DEF WakeInv, Special, Locking
<1>3. CASE word # Passing
      <2>1. Block(t, {}) /\ word' = IF word = Free THEN Passing ELSE word BY <1>3 DEF sync_mutex_lock_take
      <2>. QED BY <1>1, <1>3, <2>1, WakeBlock, Zenon
<1>. QED BY <1>2, <1>3, Zenon

LEMMA WakeQueue ==
    ASSUME TypeOK, LockInv, WakeInv, NEW t \in Thread, sync_mutex_lock_queue(t)
    PROVE  WakeInv'
<1>1. at[t] \in {"try", "locked"} /\ UNCHANGED <<word, op>> BY Zenon DEF sync_mutex_lock_queue
<1>2. CASE at' = [at EXCEPT ![t] = "again"] /\ UNCHANGED <<waiting, ker>>
      <2>1. at'[t] = "again" /\ \A u \in Thread \ {t} : at'[u] = at[u] BY <1>2 DEF TypeOK
      <2>2. WaitersRemembered' BY <2>1, SomeoneComes DEF Locking
      <2>3. \A u \in Thread \ {t} : at[u] \notin Locking BY <1>1, OnlyInside DEF Locking
      <2>. QED BY <1>1, <1>2, <2>1, <2>2, <2>3, Zenon DEF WakeInv, Locking
<1>3. ASSUME NEW u \in waiting, Block(t, {u}) PROVE WakeInv'
      BY <1>1, <1>3, {u} \subseteq waiting, {u} # {}, WakeBlock
<1>4. CASE word \notin {Free, Passing} /\ Block(t, {}) BY <1>1, <1>4, WakeBlock
<1>. QED BY <1>2, <1>3, <1>4, Zenon DEF sync_mutex_lock_queue

LEMMA WakePreempt ==
    ASSUME TypeOK, WakeInv, NEW t \in Thread, Preempt(t) \/ sync_mutex_lock_retry(t)
    PROVE  WakeInv'
<1>1. at[t] \in Locking /\ waiting' = waiting BY Zenon DEF Preempt, sync_mutex_lock_retry, Locking, mvars
<1>2. \A u \in Thread \ {t} : at'[u] = at[u] /\ at[u] \notin Locking
      BY <1>1, OnlyInside, Zenon DEF Preempt, sync_mutex_lock_retry, TypeOK
<1>3. at'[t] \in Locking \cup {"call", "spec"} BY DEF Preempt, sync_mutex_lock_retry, TypeOK, Locking
<1>4. WaitersRemembered' BY <1>3, SomeoneComes, Zenon
<1>5. CASE Preempt(t)
      <2>1. at'[t] \in {"call", "spec"} /\ word' = word BY <1>5, Zenon DEF Preempt, mvars, TypeOK
      <2>. QED BY <1>1, <1>2, <1>4, <2>1, Zenon DEF WakeInv, Locking
<1>6. CASE sync_mutex_lock_retry(t)
      <2>1. word' = atomic_set(word) /\ at'[t] = "locked" /\ ker' = ker BY <1>6 DEF sync_mutex_lock_retry, TypeOK
      <2>2. word.own \in Thread \cup {"FREE"} BY <1>1 DEF WakeInv
      <2>3. word'.w /\ word'.own = word.own BY <2>1, <2>2, NotSpecial, Zenon DEF atomic_set, Special, TypeOK
      <2>. QED BY <1>1, <1>2, <1>4, <2>1, <2>2, <2>3, NotSpecial, Zenon DEF WakeInv, Special
<1>. QED BY <1>5, <1>6

\* Calls that wake the first waiter, if there is one
LEMMA WakeFirstKeeps ==
    ASSUME TypeOK, WakeInv, ker = NONE, NEW t \in Thread, t \notin waiting, NEW W \in SUBSET waiting, NEW wd,
           WakeFirst(W, wd), word'.own \notin {"DEAD", "DESTROYED"} \/ (waiting = {} /\ word' = word),
           at'[t] \in {"user", "CONDVAR", "spec"},
           \A u \in Thread \ {t} : at'[u] = IF u \in W THEN "spec" ELSE at[u]
    PROVE  WakeInv'
<1>1. \A u \in Thread : at'[u] \notin Locking \cup {"dead", "unmap"} BY NobodyInside DEF Locking
<1>2. waiting' = waiting \ W BY Zenon DEF WakeFirst
<1>3. CASE waiting = {} BY <1>1, <1>2, <1>3, OutsideKeeps, Zenon DEF WaitersRemembered, WakeInv
<1>4. CASE waiting # {}
      <2>1. W # {} BY <1>4, Zenon DEF WakeFirst
      <2>2. PICK u \in W : u \in Thread \ {t} BY <2>1, Zenon DEF TypeOK
      <2>3. at'[u] = "spec" BY <2>2, Zenon
      <2>4. WaitersRemembered' BY <2>2, <2>3, SomeoneComes, Zenon
      <2>. QED BY <1>1, <1>4, <2>4, OutsideKeeps, Zenon
<1>. QED BY <1>3, <1>4, Zenon

LEMMA WakeKernelUnlock ==
    ASSUME TypeOK, word.own # "DESTROYED" => LockInv, WakeInv, NEW t \in Thread, sync_mutex_unlock(t)
    PROVE  WakeInv'
<1>1. PICK W \in SUBSET waiting :
          /\ WakeFirst(W, word)
          /\ at' = [u \in Thread |-> IF u = t THEN "user" ELSE IF u \in W THEN "spec" ELSE at[u]]
      BY Zenon DEF sync_mutex_unlock
<1>2. ker = NONE /\ at[t] = "call" BY Zenon DEF sync_mutex_unlock
<1>3. t \notin waiting BY <1>2, Zenon DEF WakeInv, LockInv, ThreadState, QueueState
<1>4. word'.own = word.own BY <1>1, WakeOwner, Zenon DEF TypeOK
<1>5. word.own = "DESTROYED" => waiting = {} /\ word' = word BY <1>1 DEF WakeInv, WakeFirst
<1>6. word'.own \notin {"DEAD", "DESTROYED"} \/ (waiting = {} /\ word' = word) BY <1>4, <1>5 DEF WakeInv
<1>. QED BY <1>1, <1>2, <1>3, <1>6, WakeFirstKeeps, Zenon

LEMMA WakeCondWait ==
    ASSUME TypeOK, LockInv, WakeInv, NEW t \in Thread, NEW timeout \in Timeouts, ker_sync_condvar_wait(t, timeout)
    PROVE  WakeInv'
<1> DEFINE wd == IF waiting = {} THEN Free ELSE Passing
<1>1. PICK W \in SUBSET waiting :
          /\ WakeFirst(W, wd)
          /\ at' = [u \in Thread |-> IF u = t THEN IF timeout = "IMMEDIATE" THEN "spec" ELSE "CONDVAR"
                                     ELSE IF u \in W THEN "spec" ELSE at[u]]
      BY Zenon DEF ker_sync_condvar_wait
<1>2. ker = NONE /\ at[t] = "user" BY DEF ker_sync_condvar_wait
<1>3. t \notin waiting BY <1>2, Zenon DEF LockInv, ThreadState, QueueState
<1>4. wd \in [own : Thread \cup Special, w : BOOLEAN] /\ wd.own = "FREE" BY DEF Free, Passing, Special
<1> HIDE DEF wd
<1>5. word'.own = "FREE" BY <1>1, <1>4, WakeOwner, Zenon
<1>. QED BY <1>1, <1>2, <1>3, <1>5, WakeFirstKeeps, Zenon

\* The other calls made with the kernel unlocked leave the owner word alone and take nobody
\* off its way.
LEMMA WakeOther ==
    ASSUME TypeOK, WakeInv, NEW t \in Thread, ker = NONE, word' = word, waiting' \subseteq waiting,
           \A u \in Thread : at'[u] = at[u] \/ at'[u] \in {"spec", "handler"}
                             \/ (at'[u] \in {"ret", "user"} /\ ~OnItsWay(u))
    PROVE  WakeInv'
<1>1. \A u \in Thread : at'[u] \notin Locking \cup {"dead", "unmap"} BY NobodyInside, Zenon DEF Locking
<1>2. \A u \in Thread : OnItsWay(u) => OnItsWay(u)' BY DEF OnItsWay
<1>3. WaitersRemembered' BY <1>2, Zenon DEF WakeInv, WaitersRemembered
<1>. QED BY <1>1, <1>3, OutsideKeeps, Zenon DEF WakeInv

LEMMA WakeReturn ==
    ASSUME TypeOK, WakeInv, NEW t \in Thread, library_return(t)
    PROVE  WakeInv'
<1>1. at[t] = "ret" /\ at'[t] = "user" /\ UNCHANGED <<word, waiting, ker>> BY Zenon DEF library_return, TypeOK
<1>2. \A u \in Thread \ {t} : at'[u] = at[u] /\ op'[u] = op[u] BY Zenon DEF library_return, TypeOK
<1>3. WaitersRemembered' BY <1>1, <1>2, Zenon DEF WakeInv, WaitersRemembered, OnItsWay
<1>4. Releasing => Releasing' BY <1>1, <1>2 DEF Releasing
<1>. QED BY <1>1, <1>2, <1>3, <1>4, Zenon DEF WakeInv, Locking

\* Every step keeps the invariant as long as no thread is killed.
LEMMA NextWakes ==
    ASSUME "kill" \notin Events, IInv, WakeInv, [Next]_vars
    PROVE  WakeInv'
<1>1. TypeOK /\ (word.own # "DESTROYED" => LockInv) BY Zenon DEF IInv
<1>2. CASE UNCHANGED vars BY <1>2 DEF vars, WakeInv, Releasing, WaitersRemembered, OnItsWay
<1>3. ASSUME NEW t \in Thread, NEW timeout \in Timeouts, pthread_mutex_lock(t, timeout) PROVE WakeInv'
      BY <1>1, <1>3, WakeLock
<1>4. ASSUME NEW t \in Thread, NEW timeout \in Timeouts, ker_sync_condvar_wait(t, timeout) PROVE WakeInv'
      <2>1. word.own # "DESTROYED" BY <1>4, NotSpecial, Zenon DEF ker_sync_condvar_wait, Special
      <2>. QED BY <1>1, <1>4, <2>1, WakeCondWait, Zenon
<1>5. ASSUME NEW t \in Thread,
             library_return(t) \/ pthread_mutex_unlock(t) \/ sync_mutex_lock_enter(t) \/ Preempt(t)
             \/ sync_mutex_lock_retry(t) \/ sync_mutex_unlock(t)
      PROVE  WakeInv'
      BY <1>1, <1>5, WakeReturn, WakeUnlock, WakeEnter, WakePreempt, WakeKernelUnlock
<1>6. ASSUME NEW t \in Thread, sync_mutex_lock_take(t) \/ sync_mutex_lock_queue(t) PROVE WakeInv'
      <2>1. word.own # "DESTROYED"
            BY <1>6, NotSpecial, Zenon DEF sync_mutex_lock_take, sync_mutex_lock_queue, WakeInv, Locking, Special
      <2>. QED BY <1>1, <1>6, <2>1, WakeTake, WakeQueue, Zenon
<1>7. ASSUME NEW t \in Thread, timer_fire(t) PROVE WakeInv'
      <2>1. at[t] \in {"MUTEX", "CONDVAR"} /\ at'[t] \in {"spec", "ret"} /\ ~OnItsWay(t)
            BY <1>1, <1>7, Zenon DEF timer_fire, TypeOK, OnItsWay
      <2>2. \A u \in Thread \ {t} : at'[u] = at[u] BY <1>1, <1>7, Zenon DEF timer_fire, TypeOK
      <2>3. ker = NONE /\ word' = word /\ waiting' \subseteq waiting BY <1>7, Zenon DEF timer_fire
      <2>. QED BY <1>1, <2>1, <2>2, <2>3, WakeOther, Zenon
<1>8. ASSUME NEW t \in Thread, signal_kill_thread(t) \/ ker_signal_return(t) \/ ker_sync_condvar_signal(t)
                               \/ ker_sync_ctl_setevent(t)
      PROVE  WakeInv'
      <2>1. ker = NONE /\ word' = word /\ waiting' \subseteq waiting
            BY <1>8, Zenon DEF signal_kill_thread, SignalThread, ker_signal_return, mvars, ker_sync_condvar_signal,
                        ker_sync_ctl_setevent
      <2>2. \A u \in Thread : at'[u] = at[u] \/ at'[u] \in {"spec", "handler"}
            BY <1>1, <1>8 DEF signal_kill_thread, SignalThread, ker_signal_return, ker_sync_condvar_signal,
                              ker_sync_ctl_setevent, tvars, TypeOK
      <2>. QED BY <1>1, <2>1, <2>2, WakeOther, Zenon
<1>9. ASSUME NEW t \in Thread, sync_destroy(t) PROVE WakeInv'
      <2>1. ker = NONE /\ waiting' = {} /\ word'.own = "DESTROYED" BY <1>9, Zenon DEF sync_destroy, Word
      <2>2. \A u \in Thread : at'[u] = at[u] \/ at'[u] = "ret" BY <1>1, <1>9, Zenon DEF sync_destroy, TypeOK
      <2>3. \A u \in Thread : at'[u] \notin Locking \cup {"dead", "unmap"} BY <2>1, <2>2, NobodyInside DEF Locking
      <2>4. WaitersRemembered' BY <2>1, Zenon DEF WaitersRemembered
      <2>. QED BY <2>1, <2>3, <2>4, OutsideKeeps, Zenon
<1>10. ASSUME NEW t \in Thread, thread_destroy(t) \/ synchash_rem(t) \/ synchash_rem_loop(t) \/ ker_sync_mutex_revive(t)
      PROVE  WakeInv'
      BY <1>10, Zenon DEF WakeInv, thread_destroy, synchash_rem, synchash_rem_loop, ker_sync_mutex_revive
<1>11. CASE Next BY <1>3, <1>4, <1>5, <1>6, <1>7, <1>8, <1>9, <1>10, <1>11 DEF Next
<1>. QED BY <1>2, <1>11

\* No wake-up is lost between the exchange of the owner word at user level and the list in the
\* kernel: as long as no thread is killed, threads that wait are remembered by the bit in the
\* owner word, or by a thread on its way to the list.
THEOREM WaitersAreRemembered ==
    ASSUME "kill" \notin Events
    PROVE  Spec => []WaitersRemembered
<1>1. Init => WakeInv
      <2>1. SUFFICES ASSUME Init PROVE WakeInv OBVIOUS
      <2>2. \A t \in Thread : at[t] = "user" BY <2>1, Zenon DEF Init
      <2>3. word.own \in {"FREE", "INITIALIZER"} /\ waiting = {} BY <2>1 DEF Init, Free, Word
      <2>. QED BY <2>2, <2>3 DEF WakeInv, Locking, WaitersRemembered
<1>2. IInv /\ WakeInv /\ [Next]_vars => WakeInv' BY NextWakes
<1>3. WakeInv => WaitersRemembered BY DEF WakeInv
<1>. QED BY <1>1, <1>2, <1>3, Invariance, PTL DEF Spec
=============================================================================
