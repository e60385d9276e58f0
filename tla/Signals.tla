------------------------------ MODULE Signals ------------------------------
(***************************************************************************)
(* Signals of one process with several threads: kernel/nano/nano_signal.c, *)
(* kernel/ker_signal.c and the parts of specialret that belong to them.    *)
(*                                                                         *)
(* A signal is its number; SIG_TO_PRI makes the lower number come first.   *)
(* pending[q][s] is the part of the list q (sig_pending of a thread, or of *)
(* the process: prp) for signal s, as the sequence of the counts of its    *)
(* entries (Pulse.tla has the list itself).  blocked is sig_blocked,       *)
(* active the flag QRV_FLG_THR_SIG_ACTIVE, suspended the flag              *)
(* QRV_FLG_THR_SIGSUSPEND and saved the mask in args.ss.  Every call locks *)
(* the kernel before it changes anything, so each is one step; a thread    *)
(* runs in user mode only after specialret has worked off its flags.       *)
(***************************************************************************)
EXTENDS Naturals, Sequences, FiniteSets, FiniteSetsExt

CONSTANTS
    Thread, prp,
    Sig,             \* the signals in use
    SIGTSTP, SIGCONT,
    DflIgnore,       \* SIGCHLD, SIGURG, ...: default action is to ignore
    Calls,           \* what the threads do, see Next
    Flags,           \* the sa_flags in use: "nodefer", "resethand"
    Masks,           \* the sa_mask in use
    Repeats,         \* whether a sender repeats code and value; if not, it does
                     \* not matter whether signals are queued
    Fails,           \* whether object_alloc can fail
    HANDLERS_PER_SIGTABLE,
    MaxPending,      \* bound on the pulses of one signal
    MaxNest          \* bound on the nesting of handlers

ASSUME SignalsAssumption ==
    /\ prp \notin Thread
    /\ Sig \subseteq Nat \ {0} /\ {SIGTSTP, SIGCONT} \subseteq Nat /\ SIGTSTP < SIGCONT
    /\ DflIgnore \subseteq Sig \ {SIGTSTP, SIGCONT}
    /\ Masks \subseteq SUBSET Sig /\ Flags \subseteq {"nodefer", "resethand"}
    /\ Repeats \subseteq BOOLEAN /\ Fails \subseteq BOOLEAN
    /\ HANDLERS_PER_SIGTABLE \in Nat \ {0}
    /\ MaxPending \in Nat /\ MaxNest \in Nat

VARIABLES
    pending, blocked, active, suspended, saved,
    state,       \* of a thread; "none" when it does not exist
    wait,        \* args.sw.sig_wait
    frames,      \* masks saved on the stacks of the handlers that run, last is innermost
    action,      \* handler, flags and mask of every signal
    queued,      \* prp->sig_queue
    table,       \* the signals whose SIGTABLE exists
    stopped,     \* QRV_FLG_PROC_STOPPED
    dead,        \* the process has been killed
    stale,       \* signal_block has followed a pointer to a freed entry
    report,      \* what the last SignalKill told its caller, see Report
    want         \* for each nesting, the masks that the code of the thread may find
                 \* itself under: the one it expects, or any one in the canstub

mem  == <<wait, frames, want>>
env  == <<action, queued, table>>
vars == <<pending, blocked, active, suspended, saved, state, mem, env, stopped, dead, stale, report>>

Lists == Thread \cup {prp}
States == {"none", "run", "blocked", "waitinfo", "suspend"}

TypeOK ==
    /\ \A q \in Lists, s \in Sig : \A i \in DOMAIN pending[q][s] :
          pending[q][s][i] \in 1 .. MaxPending
    /\ blocked \in [Thread -> SUBSET Sig] /\ saved \in [Thread -> SUBSET Sig]
    /\ active \in [Thread -> BOOLEAN] /\ suspended \in [Thread -> BOOLEAN]
    /\ state \in [Thread -> States] /\ wait \in [Thread -> SUBSET Sig]
    /\ \A t \in Thread : Len(frames[t]) <= MaxNest /\ Len(want[t]) = Len(frames[t]) + 1
    /\ action \in [Sig -> [handler : {"dfl", "ign", "fn"}, flags : SUBSET Flags, mask : Masks]]
    /\ queued \in SUBSET Sig /\ table \in SUBSET Sig
    /\ {stopped, dead, stale} \subseteq BOOLEAN /\ report \in {"true", "false"}

Nothing == [s \in Sig |-> <<>>]
DFL == [handler |-> "dfl", flags |-> {}, mask |-> {}]

Init ==
    \E t \in Thread :
        /\ state = [u \in Thread |-> IF u = t THEN "run" ELSE "none"]
        /\ pending = [q \in Lists |-> Nothing]
        /\ blocked = [u \in Thread |-> {}] /\ saved = blocked /\ wait = blocked
        /\ active = [u \in Thread |-> FALSE] /\ suspended = active
        /\ frames = [u \in Thread |-> <<>>] /\ want = [u \in Thread |-> <<{{}}>>]
        /\ action = [s \in Sig |-> DFL] /\ queued = {}
        /\ table = IF TRUE \in Fails THEN {} ELSE Sig
        /\ stopped = FALSE /\ dead = FALSE /\ stale = FALSE
        /\ report = "true"
-----------------------------------------------------------------------------
Live == {t \in Thread : state[t] # "none"}
Handler(s) == action[s].handler = "fn"
Ignored(s) == action[s].handler = "ign"
CanRun(t) == /\ state[t] = "run" /\ ~active[t] /\ ~suspended[t]
             /\ ~stopped /\ ~dead /\ ~stale

\* Signals of list q, in the lists p, that are not in mask m.
Open(p, q, m) == {s \in Sig \ m : p[q][s] # <<>>}
Lowest(S) == CHOOSE s \in S : \A r \in S : s <= r

\* How many pulses of signal s there are; no more than MaxPending are sent.
Outstanding(s) ==
    MapThenSumSet(LAMBDA q : MapThenSumSet(LAMBDA i : pending[q][s][i], DOMAIN pending[q][s]), Lists)

\* signal_remove of the signals S: they go from every list, and a thread that
\* is left without an open signal is no longer active.
signal_remove(p, S) == [q \in Lists |-> [s \in Sig |-> IF s \in S THEN <<>> ELSE p[q][s]]]
StillActive(p, S) ==
    IF S = {} THEN active ELSE [t \in Thread |-> active[t] /\ Open(p, t, blocked[t]) # {}]

\* pulse_add: an equal entry is overwritten or counted, or there is a new one.
pulse_add(es, s, same) ==
    IF same /\ es # <<>>
    THEN IF s \in queued THEN [es EXCEPT ![Len(es)] = @ + 1] ELSE es
    ELSE Append(es, 1)
NewEntry(es, same) == ~same \/ es = <<>>

pulse_remove(es) == IF es[1] = 1 THEN Tail(es) ELSE [es EXCEPT ![1] = @ - 1]

\* special_case_signalhandling: the lists, the stopped state and whether the
\* signal still has to be delivered
Removes_keep(s) ==                  \* mutant: SIGCONT leaves the stop signals pending
    IF s = SIGTSTP THEN {SIGCONT} ELSE {}
Removes(s) == CASE s = SIGTSTP -> {SIGCONT}
                [] s = SIGCONT -> {SIGTSTP}
                [] OTHER -> {}
Stops(s) == IF s = SIGTSTP /\ ~Handler(s) THEN TRUE
            ELSE IF s = SIGCONT THEN FALSE ELSE stopped
Done(s) == s \in DflIgnore \cup {SIGTSTP, SIGCONT} /\ ~Handler(s)

\* args is only read in the state, or under the flag, that belongs to it.
Forget == wait' = [u \in Thread |-> IF state'[u] = "waitinfo" THEN wait[u] ELSE {}]

\* force_ready for threads that have become active.
Awake(act) == [u \in Thread |-> IF act[u] /\ state[u] \in {"blocked", "waitinfo", "suspend"}
                                THEN "run" ELSE state[u]]
-----------------------------------------------------------------------------
\* The status a SignalKill returns is true when it says that the signal was
\* not queued, or when the signal was.
Report(status, lost) ==
    report' = IF status = "SIGSTAT_QUEUED" /\ lost THEN "false" ELSE "true"

\* signal_kill_thread.  A failing pulse_add still wakes the thread.
signal_kill_thread(t, s, same, fail) ==
    LET p    == signal_remove(pending, Removes(s) \cap Sig)
        es   == p[t][s]
        lost == fail /\ NewEntry(es, same)
        add  == IF lost THEN p ELSE [p EXCEPT ![t][s] = pulse_add(es, s, same)]
    IN  \/ /\ Ignored(s) /\ s # SIGCONT
           /\ Report("SIGSTAT_IGNORED", TRUE)
           /\ UNCHANGED <<pending, active, state, stopped>>
        \/ /\ ~(Ignored(s) /\ s # SIGCONT)
           /\ state[t] = "waitinfo" /\ s \in wait[t]
           /\ state' = [state EXCEPT ![t] = "run"]
           /\ Report("SIGSTAT_QUEUED", FALSE)
           /\ UNCHANGED <<pending, active, stopped>>
        \/ /\ ~(Ignored(s) /\ s # SIGCONT)
           /\ ~(state[t] = "waitinfo" /\ s \in wait[t])
           /\ stopped' = Stops(s)
           /\ IF Done(s)
              THEN /\ pending' = p /\ active' = StillActive(p, Removes(s))
                   /\ Report("SIGSTAT_QUEUED", FALSE)
                   /\ UNCHANGED state
              ELSE /\ Outstanding(s) < MaxPending
                   /\ pending' = add
                   /\ active' = [StillActive(p, Removes(s)) EXCEPT ![t] = @ \/ s \notin blocked[t]]
                   /\ state' = IF s \notin blocked[t] THEN Awake([u \in Thread |-> u = t])
                               ELSE state
                   /\ Report(IF lost THEN "SIGSTAT_NOTQUEUED" ELSE "SIGSTAT_QUEUED", lost)

\* signal_kill_process: to a thread that waits for the signal or does not
\* block it (sigtid_cache decides which), otherwise to the process.
Takers(s) == {t \in Live : (state[t] = "waitinfo" /\ s \in wait[t]) \/ s \notin blocked[t]}
signal_kill_process(s, same, fail) ==
    LET R    == IF s = SIGCONT THEN Removes(s) ELSE {}
        p    == signal_remove(pending, R \cap Sig)
        es   == p[prp][s]
        lost == fail /\ NewEntry(es, same)
    IN  \/ \E t \in Takers(s) : signal_kill_thread(t, s, same, fail)
        \/ /\ Takers(s) = {}
           /\ Ignored(s) /\ s # SIGCONT
           /\ Report("SIGSTAT_IGNORED", TRUE)
           /\ UNCHANGED <<pending, active, state, stopped>>
        \/ /\ Takers(s) = {} /\ ~(Ignored(s) /\ s # SIGCONT)
           /\ stopped' = IF s = SIGCONT THEN FALSE ELSE stopped
           /\ IF Ignored(s) \/ (s \in DflIgnore /\ ~Handler(s))
              THEN /\ pending' = p
                   /\ Report(IF Ignored(s) THEN "SIGSTAT_IGNORED" ELSE "SIGSTAT_QUEUED", FALSE)
              ELSE /\ Outstanding(s) < MaxPending
                   /\ pending' = IF lost THEN p
                                 ELSE [p EXCEPT ![prp][s] = pulse_add(es, s, same)]
                   /\ Report("SIGSTAT_QUEUED", lost)
           /\ active' = StillActive(p, R)
           /\ UNCHANGED state

\* SignalKill, timers and events: to the process or to one thread.
SignalKill(s) ==
    /\ ~dead /\ ~stale
    /\ \E same \in Repeats, fail \in Fails :
          \/ signal_kill_process(s, same, fail)
          \/ \E t \in Live : signal_kill_thread(t, s, same, fail)
    /\ Forget
    /\ UNCHANGED <<blocked, suspended, saved, frames, want, env, dead, stale>>
-----------------------------------------------------------------------------
\* signal_block: the new mask m of thread t, and everything that follows: the
\* signals of the process that move to the thread, those whose default is
\* carried out now, the active flags.  Moved leaves out what stays behind.
Moved_keep(m) == {}                 \* mutant: signals stay with the process
Moved(m) == Open(pending, prp, m)

SignalBlock(t, m) ==
    LET p1 == [pending EXCEPT
                 ![prp] = [s \in Sig |-> IF s \in Moved(m) THEN <<>> ELSE @[s]],
                 ![t]   = [s \in Sig |-> IF s \in Moved(m) THEN @[s] \o pending[prp][s] ELSE @[s]]]
        tstp == SIGTSTP \in Open(p1, t, m)
        p2 == IF tstp THEN signal_remove(p1, Removes(SIGTSTP)) ELSE p1
        p3 == [p2 EXCEPT ![t] = [s \in Sig |-> IF s \notin m /\ Done(s) THEN <<>> ELSE @[s]]]
    IN  [lists   |-> p3,
         active  |-> [u \in Thread |-> IF u = t THEN Open(p3, t, m) # {}
                                       ELSE StillActive(p3, IF tstp THEN Removes(SIGTSTP) ELSE {})[u]],
         stopped |-> stopped \/ (tstp /\ ~Handler(SIGTSTP)),
         stale   |-> /\ tstp /\ SIGCONT \in Sig
                     /\ Len(p1[t][SIGTSTP]) = 1 /\ p1[t][SIGCONT] # <<>>]

Apply(b) == /\ pending' = b.lists /\ active' = b.active
            /\ stopped' = b.stopped /\ stale' = b.stale

Procmask(u, m) == Apply(SignalBlock(u, m))

\* The bound on what a handler may unblock.
Nests(u, m) == Len(frames[u]) + Cardinality(Sig \ m) <= MaxNest

\* Thread t changes the mask of thread u.
SignalProcmask(t, u, m) ==
    /\ CanRun(t) /\ u \in Live /\ Nests(u, m)
    /\ blocked' = [blocked EXCEPT ![u] = m]
    /\ want' = [want EXCEPT ![u][Len(want[u])] = {m}]
    /\ Procmask(u, m)
    /\ state' = Awake([v \in Thread |-> v = u /\ active'[u]])
    /\ Forget
    /\ UNCHANGED <<suspended, saved, frames, env, dead, report>>

\* SignalReturn: the handler has ended, its saved mask comes back.
SignalReturn(t) ==
    LET n == Len(frames[t])
    IN  /\ CanRun(t) /\ n > 0
        /\ blocked' = [blocked EXCEPT ![t] = frames[t][n]]
        /\ Apply(SignalBlock(t, frames[t][n]))
        /\ frames' = [frames EXCEPT ![t] = SubSeq(@, 1, n - 1)]
        /\ want' = [want EXCEPT ![t] = SubSeq(@, 1, n)]
        /\ UNCHANGED <<suspended, saved, state, wait, env, dead, report>>

\* SignalSuspend: wait under another mask.  An immediate timeout puts the old
\* mask back.  A pending cancellation does not: the thread goes on in the
\* canstub of its process, whose cleanup handlers run under the new mask.
SignalSuspend(t, m) ==
    LET b == SignalBlock(t, m)
    IN  /\ CanRun(t) /\ Nests(t, m)
        /\ Apply(b)
        /\ \/ /\ suspended' = [suspended EXCEPT ![t] = TRUE]
              /\ saved' = [saved EXCEPT ![t] = blocked[t]]
              /\ blocked' = [blocked EXCEPT ![t] = m]
              /\ state' = [state EXCEPT ![t] = IF b.active[t] THEN "run" ELSE "suspend"]
              /\ UNCHANGED want
           \/ /\ "timeout" \in Calls /\ ~b.active[t]
              /\ UNCHANGED <<suspended, saved, blocked, state, want>>
           \/ /\ "cancel" \in Calls /\ ~b.active[t]
              /\ blocked' = [blocked EXCEPT ![t] = m]
              /\ want' = [want EXCEPT ![t][Len(want[t])] = SUBSET Sig]
              /\ UNCHANGED <<suspended, saved, state>>
        /\ UNCHANGED <<wait, frames, env, dead, report>>

\* SignalWaitinfo: the first matching signal of the thread, else of the
\* process, else wait.
SignalWaitinfo(t, w) ==
    LET q == IF Open(pending, t, Sig \ w) # {} THEN t ELSE prp
        S == Open(pending, q, Sig \ w)
    IN  /\ CanRun(t)
        /\ IF S # {}
           THEN /\ pending' = [pending EXCEPT ![q][Lowest(S)] = pulse_remove(@)]
                /\ UNCHANGED <<state, wait>>
           ELSE /\ state' = [state EXCEPT ![t] = "waitinfo"]
                /\ wait' = [wait EXCEPT ![t] = w]
                /\ UNCHANGED pending
        /\ UNCHANGED <<blocked, active, suspended, saved, frames, want, env, stopped, dead,
                       stale, report>>

\* SignalAction.  Ignoring a signal, or its default when that is to ignore it,
\* removes what is pending.
SignalAction(t, s, a, q) ==
    LET gone == a.handler = "ign" \/ (a.handler = "dfl" /\ s \in DflIgnore \cup {SIGCONT})
        p == IF gone THEN signal_remove(pending, {s}) ELSE pending
        Base(r) == (r - 1) \div HANDLERS_PER_SIGTABLE
    IN  /\ CanRun(t)
        /\ queued' = IF q THEN queued \cup {s} ELSE queued \ {s}
        /\ pending' = p
        /\ active' = StillActive(p, IF gone THEN {s} ELSE {})
        /\ \/ /\ action' = [action EXCEPT ![s] = a]
              /\ table' = IF a.handler = "fn" THEN table \cup {r \in Sig : Base(r) = Base(s)}
                          ELSE table
           \/ /\ TRUE \in Fails /\ a.handler = "fn" /\ s \notin table
              /\ action' = [action EXCEPT ![s] = DFL]       \* EAGAIN
              /\ UNCHANGED table
        /\ UNCHANGED <<blocked, suspended, saved, state, mem, stopped, dead, stale, report>>

\* signal_clear_thread: the debugger takes back one signal of the entry i.
signal_clear_thread(t, s, i) ==
    LET es == pending[t][s]
        p  == [pending EXCEPT ![t][s] =
                  IF es[i] = 1 THEN SubSeq(es, 1, i - 1) \o SubSeq(es, i + 1, Len(es)) ELSE [es EXCEPT ![i] = @ - 1]]
    IN  /\ t \in Live /\ ~dead /\ ~stale
        /\ pending' = p
        /\ active' = [active EXCEPT ![t] = @ /\ Open(p, t, blocked[t]) # {}]
        /\ UNCHANGED <<blocked, suspended, saved, state, mem, env, stopped, dead, stale, report>>
-----------------------------------------------------------------------------
\* signal_specret: start the handler of the first open signal, or die of it.
\* The flag stays for another entry of this signal or another open signal.
KeepsFlag_one(t, s) == FALSE        \* mutant: one signal at a time
KeepsFlag(t, s) == Len(pending[t][s]) > 1 \/ Open(pending, t, blocked[t]) # {s}

Frame_blocked(t) == blocked[t]      \* mutant: forgets that SignalSuspend changed it
Frame(t) == IF suspended[t] THEN saved[t] ELSE blocked[t]

StartHandler(t, s) ==
    LET a == action[s]
        m == blocked[t] \cup (IF a.flags = {} THEN {s} ELSE {}) \cup a.mask
    IN  /\ Handler(s) /\ (a.flags = {} \/ Len(frames[t]) < MaxNest)
        /\ frames' = [frames EXCEPT ![t] = Append(@, Frame(t))]
        /\ want' = [want EXCEPT ![t] = Append(@, {m})]
        /\ suspended' = [suspended EXCEPT ![t] = FALSE]
        /\ saved' = [saved EXCEPT ![t] = {}]
        /\ active' = [active EXCEPT ![t] = KeepsFlag(t, s)]
        /\ pending' = [pending EXCEPT ![t][s] = pulse_remove(@)]
        /\ blocked' = [blocked EXCEPT ![t] = m]
        /\ action' = IF "resethand" \in a.flags THEN [action EXCEPT ![s].handler = "dfl"]
                     ELSE action
        /\ queued' = IF "resethand" \in a.flags THEN queued \ {s} ELSE queued
        /\ UNCHANGED <<table, dead>>

signal_specret(t) ==
    LET S == Open(pending, t, blocked[t])
    IN  /\ state[t] = "run" /\ active[t] /\ ~stopped /\ ~dead /\ ~stale
        /\ \/ /\ S = {}
              /\ active' = [active EXCEPT ![t] = FALSE]
              /\ UNCHANGED <<pending, blocked, suspended, saved, frames, want, env, dead>>
           \/ S # {} /\ StartHandler(t, Lowest(S))
           \/ /\ S # {} /\ ~Handler(Lowest(S))
              /\ dead' = TRUE
              /\ UNCHANGED <<pending, blocked, suspended, saved, active, frames, want, env>>
        /\ UNCHANGED <<state, wait, stopped, stale, report>>

\* specialret: "sigsuspend is unblocked without a signal".
sigsuspend_specret(t) ==
    /\ state[t] = "run" /\ ~active[t] /\ suspended[t] /\ ~stopped /\ ~dead /\ ~stale
    /\ blocked' = [blocked EXCEPT ![t] = saved[t]]
    /\ suspended' = [suspended EXCEPT ![t] = FALSE]
    /\ saved' = [saved EXCEPT ![t] = {}]
    /\ UNCHANGED <<pending, active, state, mem, env, stopped, dead, stale, report>>
-----------------------------------------------------------------------------
\* The thread waits for something else, and wakes for another reason than a
\* signal; a timeout ends the waits for signals too.
Block(t) ==
    /\ CanRun(t)
    /\ state' = [state EXCEPT ![t] = "blocked"]
    /\ UNCHANGED <<pending, blocked, active, suspended, saved, mem, env, stopped, dead, stale,
                   report>>
Wake(t) ==
    /\ state[t] = "blocked" \/ ("timeout" \in Calls /\ state[t] \in {"waitinfo", "suspend"})
    /\ ~dead /\ ~stale
    /\ state' = [state EXCEPT ![t] = "run"]
    /\ Forget
    /\ UNCHANGED <<pending, blocked, active, suspended, saved, frames, want, env, stopped, dead,
                   stale, report>>

\* thread_create inherits the mask of the creator.
thread_create(t, u) ==
    /\ CanRun(t) /\ state[u] = "none"
    /\ state' = [state EXCEPT ![u] = "run"]
    /\ blocked' = [blocked EXCEPT ![u] = blocked[t]]
    /\ want' = [want EXCEPT ![u] = <<{blocked[t]}>>]
    /\ UNCHANGED <<pending, active, suspended, saved, wait, frames, env, stopped, dead, stale,
                   report>>

\* thread_destroy purges the signals of the thread; the last one those of the
\* process.
thread_destroy(t) ==
    /\ CanRun(t)
    /\ dead' = (Live = {t})
    /\ state' = [state EXCEPT ![t] = "none"]
    /\ pending' = [q \in Lists |-> IF q = t \/ Live = {t} THEN Nothing ELSE pending[q]]
    /\ blocked' = [blocked EXCEPT ![t] = Sig]
    /\ frames' = [frames EXCEPT ![t] = <<>>]
    /\ want' = [want EXCEPT ![t] = <<{Sig}>>]
    /\ saved' = [saved EXCEPT ![t] = {}] /\ wait' = [wait EXCEPT ![t] = {}]
    /\ UNCHANGED <<active, suspended, env, stopped, stale, report>>

SpecRet(t) == signal_specret(t) \/ sigsuspend_specret(t)

ThreadCall(t) ==
    \/ \E m \in SUBSET Sig :
          \/ \E u \in Thread : /\ "procmask" \in Calls /\ (u = t \/ "foreign" \in Calls)
                               /\ SignalProcmask(t, u, m)
          \/ "suspend" \in Calls /\ SignalSuspend(t, m)
          \/ "waitinfo" \in Calls /\ m # {} /\ SignalWaitinfo(t, m)
    \/ \E s \in Sig, f \in SUBSET Flags, m \in Masks, q \in Repeats :
          SignalAction(t, s, [handler |-> "fn", flags |-> f, mask |-> m], q)
    \/ \E s \in Sig, h \in {"dfl", "ign"} :
          "ignore" \in Calls /\ SignalAction(t, s, [DFL EXCEPT !.handler = h], FALSE)
    \/ SignalReturn(t)
    \/ "block" \in Calls /\ Block(t)
    \/ \E u \in Thread : "threads" \in Calls /\ thread_create(t, u)
    \/ "threads" \in Calls /\ thread_destroy(t)

Debugger == \E t \in Thread, s \in Sig : \E i \in DOMAIN pending[t][s] :
    "debug" \in Calls /\ signal_clear_thread(t, s, i)

Next ==
    \/ \E s \in Sig : SignalKill(s)
    \/ \E t \in Thread : SpecRet(t) \/ Wake(t) \/ ThreadCall(t)
    \/ Debugger

Spec == Init /\ [][Next]_vars
-----------------------------------------------------------------------------
\* An unblocked signal is never forgotten: a thread with a pending signal it
\* does not block has the active flag that makes specialret look for it, and
\* does not sleep ("The thread signal active flags must be re-evaluated based
\* upon the new blocked mask").
ActiveIfPending ==
    ~dead /\ ~stale =>
        \A t \in Live : Open(pending, t, blocked[t]) # {} => active[t] /\ state[t] = "run"

\* A signal stays with the process only while no thread could take it
\* (signal_ignore: "they are blocked by all threads"), and never while a
\* thread waits for it in SignalWaitinfo.
ProcessPendingBlocked ==
    ~dead /\ ~stale =>
        \A s \in Sig : pending[prp][s] # <<>> => Takers(s) = {}

\* Whenever a thread is back in user mode it has the mask its code expects: a
\* handler adds its mask, and after it, and after SignalSuspend, the old mask is
\* back, however calls, signals and handlers nest.  Only a thread that
\* SignalSuspend sends to the canstub because its cancellation is pending has
\* not: it keeps the mask of SignalSuspend until it sets another one.
MaskRestored == \A t \in Live : CanRun(t) => blocked[t] \in want[t][Len(want[t])]

\* A stopped process has no SIGCONT waiting in any list: the stop removed the
\* earlier ones ("Remove any pending SIGCONT") and a later one continues it.
StoppedWithoutCont ==
    stopped => \A q \in Lists : SIGCONT \in Sig => pending[q][SIGCONT] = <<>>

\* Sending SIGCONT leaves no process stopped and no stop signal in any list,
\* whether its threads block, handle or ignore it ("Ensure that SIGCONT always
\* continues the process", "Remove any pending stop signals").
NotStopped == ~stopped /\ \A q \in Lists : SIGTSTP \in Sig => pending[q][SIGTSTP] = <<>>
ContContinues == [][(SIGCONT \in Sig /\ SignalKill(SIGCONT)) => NotStopped']_vars

\* SignalKill tells its caller when the signal has not been queued ("this is a
\* user request for a signal and can handle an error return").
SuccessIsKept == report = "true"

\* The walk of signal_block over the pending signals goes on to an entry that
\* still exists ("there might be multiple signals pending, more than one of
\* which need special case handling").
NextIsAlive == ~stale

=============================================================================
