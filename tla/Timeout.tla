------------------------------ MODULE Timeout -------------------------------
(***************************************************************************)
(* Thread timeouts (TimerTimeout): how the kernel arms and stops the timer *)
(* of a thread as it blocks and is readied, how the clock interrupt, on a  *)
(* CPU of its own, turns a timer that fires into an event, and how the     *)
(* kernel delivers the events before it is left.  The blocking calls are   *)
(* MsgSend, MsgReceive, SyncMutexLock and nanosleep; the partners of       *)
(* MsgSend are clients and the thread of one server.                       *)
(*                                                                         *)
(* Time is left open: a timer that is armed may fire at any moment.  What  *)
(* happens in the kernel before a TICKER_WAIT is seen by nobody, so a call *)
(* that waits for the ticker is one action with the end of the ticker as   *)
(* its guard.                                                              *)
(***************************************************************************)
EXTENDS Naturals, Sequences

CONSTANTS
    Client,       \* threads that send
    Server,       \* the thread that receives
    NONE,         \* no thread
    Unblock,      \* the channel has _NTO_CHF_UNBLOCK
    Features      \* what may happen: a subset of AllFeatures

AllFeatures == {"signal", "mutex", "sleep", "delete", "any_flags", "answers"}
Thread      == Client \cup {Server}

ASSUME TimeoutAssumption ==
    /\ NONE \notin Thread /\ Server \notin Client
    /\ Unblock \in BOOLEAN
    /\ Features \subseteq AllFeatures

VARIABLES
    state,     \* thp->state
    flags,     \* timeout_flags: the states that were asked for
    imm,       \* _NTO_TIMEOUT_IMMEDIATE
    active,    \* _NTO_TIMEOUT_ACTIVE
    timer,     \* thp->timeout: none, idle, or armed (_NTO_TI_ACTIVE)
    time,      \* whose request set itime of the timer: the program's or its handler's
    handler,   \* the thread is in a signal handler
    saved,     \* what signal_specret saved
    unblock,   \* clients announced to the server: UNBLOCK_QUEUED
    pulses,    \* clients whose unblock pulse is queued on the channel
    taken,     \* clients that wait for the reply after a wait in the send queue
    ker,       \* the kernel is "free", or somebody is about to leave it ("exit")
    ticking,   \* the timer timer_expiry is firing, or NONE
    events     \* intrevent_pending; live: the thread has not been readied since

kvars == <<state, flags, imm, active, timer, unblock, pulses, taken, events>>
vars  == <<state, flags, imm, active, timer, time, handler, saved, unblock, pulses, taken, ker, ticking, events>>

Blocking == {"SEND", "REPLY", "RECEIVE", "MUTEX", "NANOSLEEP"}
States   == Blocking \cup {"RUNNING"}
Blocked(t) == state[t] \in Blocking
NoRequest  == [flags |-> {}, imm |-> FALSE, time |-> "main", mutex |-> "no"]

TypeOK ==
    /\ state \in [Thread -> States] /\ flags \in [Thread -> SUBSET Blocking]
    /\ imm \in [Thread -> BOOLEAN] /\ active \in [Thread -> BOOLEAN]
    /\ timer \in [Thread -> {"none", "idle", "armed"}]
    /\ time \in [Thread -> {"main", "handler"}]
    /\ handler \in [Thread -> BOOLEAN]
    /\ saved \in [Thread -> [flags : SUBSET Blocking, imm : BOOLEAN, time : {"main", "handler"}, mutex : {"no", "plain", "timed"}]]
    /\ unblock \subseteq Client /\ pulses \subseteq unblock /\ taken \subseteq Client
    /\ ker \in {"free", "exit"} /\ ticking \in Thread \cup {NONE}
    /\ events \in Seq([thread : Thread, live : BOOLEAN])

Init ==
    /\ state = [t \in Thread |-> "RUNNING"] /\ flags = [t \in Thread |-> {}]
    /\ imm = [t \in Thread |-> FALSE] /\ active = [t \in Thread |-> FALSE]
    /\ timer = [t \in Thread |-> "none"] /\ time = [t \in Thread |-> "main"]
    /\ handler = [t \in Thread |-> FALSE] /\ saved = [t \in Thread |-> NoRequest]
    /\ unblock = {} /\ pulses = {} /\ taken = {} /\ ker = "free" /\ ticking = NONE /\ events = <<>>

-----------------------------------------------------------------------------
(* The pieces of a kernel call *)

\* A thread in user mode makes a call: one CPU in the kernel at a time
Enter(t) == ker = "free" /\ state[t] = "RUNNING"

\* IMTO: the call does not block at all
IMTO(t, s) == s \in flags[t] /\ imm[t]

\* Mutant: it looks at the state before the new one is set.
timeout_start_old(t, s) == state[t] \in flags[t] /\ timer[t] # "none" /\ ~active[t]

\* Mutant: block_and_ready does not arm the timeout for the reply.
timeout_start_block(t, s) == s # "REPLY" /\ s \in flags[t] /\ timer[t] # "none" /\ ~active[t]

\* timeout_start starts the timer of a thread that blocks in s
timeout_start(t, s) == s \in flags[t] /\ timer[t] # "none" /\ ~active[t]

\* Mutant: the call goes on without waiting for timer_expiry.
TICKER_WAIT_none(T) == TRUE

\* timer_activate and timer_deactivate wait until timer_expiry is over.
TICKER_WAIT(T) == T # {} => ticking = NONE

\* Mutant: the timer runs on.
timeout_stop_late(t) == IF state[t] = "SEND" THEN timer[t] ELSE IF active[t] THEN "idle" ELSE timer[t]

\* timeout_stop takes an armed timer off the list
timeout_stop(t) == IF active[t] THEN "idle" ELSE timer[t]

\* A client that is answered is taken back from the queue of pulses.
remove_unblock(pu, R) == pu \ R

\* The threads B block, each in its state B[t], and the threads R are readied (R may have
\* a thread that runs already and leaves its call with an error).  block, unready and
\* block_and_ready start timeouts; ready and kererr stop them and clear the flags.  ev are
\* the queued events, ub and pu the announced clients and the queued pulses.
Dispatch(B, R, ev, ub, pu) ==
    LET S == {t \in DOMAIN B : timeout_start(t, B[t])}
    IN  /\ TICKER_WAIT(S \cup {t \in R : active[t]})
        /\ state' = [t \in Thread |-> IF t \in DOMAIN B THEN B[t] ELSE IF t \in R THEN "RUNNING" ELSE state[t]]
        /\ timer' = [t \in Thread |-> IF t \in S THEN "armed" ELSE IF t \in R THEN timeout_stop(t) ELSE timer[t]]
        /\ active' = [t \in Thread |-> t \notin R /\ (active[t] \/ t \in S)]
        /\ flags' = [t \in Thread |-> IF t \in R THEN {} ELSE flags[t]]
        /\ imm' = [t \in Thread |-> t \notin R /\ imm[t]]
        /\ events' = [i \in DOMAIN ev |-> [ev[i] EXCEPT !.live = @ /\ ev[i].thread \notin R]]
        /\ unblock' = ub \ R
        /\ pulses' = remove_unblock(pu, R)
        /\ taken' = taken \ R

\* A call that does no more than this
Block(t, s) == Dispatch([u \in {t} |-> s], {}, events, unblock, pulses)
Ready(R) == Dispatch(<<>>, R, events, unblock, pulses)

-----------------------------------------------------------------------------
(* The calls *)

\* TimerTimeout: new flags and a new time, in the timer the thread has or a new one; no flags
\* delete the timer.  It is immediate (i) if the time is past or, then with no new time, if
\* none is given.  It crashes if the timer is armed.
TimerTimeout(t, f, i) ==
    /\ Enter(t)
    /\ flags' = [flags EXCEPT ![t] = f]
    /\ imm' = [imm EXCEPT ![t] = i]
    /\ \/ time' = [time EXCEPT ![t] = IF handler[t] THEN "handler" ELSE "main"]
       \/ i /\ UNCHANGED time
    /\ IF f = {} THEN TICKER_WAIT({t}) /\ timer' = [timer EXCEPT ![t] = "none"]
                 ELSE timer' = [timer EXCEPT ![t] = IF @ = "none" THEN "idle" ELSE @]
    /\ ker' = "exit"
    /\ UNCHANGED <<state, active, handler, saved, unblock, pulses, taken, ticking, events>>

\* The states a program asks for: those of the C library, or any
Requests(t) ==
    UNION { IF t = Server THEN {{"RECEIVE"}} ELSE {{"SEND", "REPLY"}},
            IF t # Server /\ "any_flags" \in Features THEN {{"SEND"}, {"REPLY"}} ELSE {},
            IF t # Server /\ "mutex" \in Features THEN {{"MUTEX"}} ELSE {} }

ker_timer_timeout(t) ==
    \/ \E i \in BOOLEAN, f \in Requests(t) : TimerTimeout(t, f, i)
    \/ "delete" \in Features /\ timer[t] # "none" /\ TimerTimeout(t, {}, TRUE)

\* timer_alloc has no memory: EAGAIN, and kererr clears the flags.
timer_alloc_fails(t) ==
    /\ Enter(t) /\ timer[t] = "none"
    /\ Ready({t})
    /\ ker' = "exit"
    /\ UNCHANGED <<time, handler, saved, ticking>>

\* nanosleep: TimerTimeout for STATE_NANOSLEEP, which blocks in the same call
nanosleep(t) ==
    /\ "sleep" \in Features /\ Enter(t)
    /\ TICKER_WAIT({t})
    /\ flags' = [flags EXCEPT ![t] = {"NANOSLEEP"}]
    /\ \E i \in BOOLEAN : imm' = [imm EXCEPT ![t] = i]
    /\ time' = [time EXCEPT ![t] = IF handler[t] THEN "handler" ELSE "main"]
    /\ timer' = [timer EXCEPT ![t] = "armed"]
    /\ active' = [active EXCEPT ![t] = TRUE]
    /\ state' = [state EXCEPT ![t] = "NANOSLEEP"]
    /\ ker' = "exit"
    /\ UNCHANGED <<handler, saved, unblock, pulses, taken, ticking, events>>

\* MsgSend: to a server that waits, REPLY blocked at once; otherwise SEND blocked.  In the
\* first case the code then looks at the flags of the receiver, which has none any more.
MsgSend(c) ==
    /\ Enter(c) /\ c \in Client
    /\ LET s == IF state[Server] = "RECEIVE" THEN "REPLY" ELSE "SEND"
       IN  IF IMTO(c, s) THEN Ready({c})
           ELSE Dispatch([t \in {c} |-> s], {t \in {Server} : s = "REPLY"}, events, unblock, pulses)
    /\ ker' = "exit"
    /\ UNCHANGED <<time, handler, saved, ticking>>

\* MsgReceive of a queued sender, which becomes REPLY blocked where it stands; one that
\* would not wait is let go, and the call restarts.
MsgReceiveSender(c) ==
    /\ Enter(Server) /\ state[c] = "SEND"
    /\ IF IMTO(c, "REPLY") THEN Ready({c})
       ELSE /\ state' = [state EXCEPT ![c] = "REPLY"]
            /\ flags' = [flags EXCEPT ![Server] = {}]
            /\ imm' = [imm EXCEPT ![Server] = FALSE]
            /\ taken' = taken \cup {c}
            /\ UNCHANGED <<active, timer, unblock, pulses, events>>
    /\ ker' = "exit"
    /\ UNCHANGED <<time, handler, saved, ticking>>

\* MsgReceive of a queued pulse, or with nothing queued.  A server that "answers" does not
\* wait for more while it has received an unblock pulse it has not answered.
MsgReceive ==
    /\ Enter(Server)
    /\ \/ \E c \in pulses : Dispatch(<<>>, {Server}, events, unblock, pulses \ {c})
       \/ /\ pulses = {} /\ \A c \in Client : state[c] # "SEND"
          /\ "answers" \in Features => unblock = {}
          /\ IF IMTO(Server, "RECEIVE") THEN Ready({Server}) ELSE Block(Server, "RECEIVE")
    /\ ker' = "exit"
    /\ UNCHANGED <<time, handler, saved, ticking>>

MsgReply(c) ==
    /\ Enter(Server) /\ state[c] = "REPLY"
    /\ Ready({c})
    /\ ker' = "exit"
    /\ UNCHANGED <<time, handler, saved, ticking>>

\* SyncMutexLock of a mutex that somebody else owns, ...
SyncMutexLock(c) ==
    /\ "mutex" \in Features /\ Enter(c) /\ c \in Client
    /\ IF IMTO(c, "MUTEX") THEN Ready({c}) ELSE Block(c, "MUTEX")
    /\ ker' = "exit"
    /\ UNCHANGED <<time, handler, saved, ticking>>

\* ... and its release
sync_wakeup(c) ==
    /\ ker = "free" /\ state[c] = "MUTEX"
    /\ Ready({c})
    /\ ker' = "exit"
    /\ UNCHANGED <<time, handler, saved, ticking>>

-----------------------------------------------------------------------------
(* Forced wake-up and signals *)

Stays(t) == state[t] = "REPLY" /\ Unblock

\* force_ready: a REPLY blocked client of an UNBLOCK channel is announced to the server
\* once, and stays; a server that waits is readied by the pulse.
force_ready(t, ev) ==
    IF ~Blocked(t) THEN Dispatch(<<>>, {}, ev, unblock, pulses)
    ELSE IF ~Stays(t) THEN Dispatch(<<>>, {t}, ev, unblock, pulses)
    ELSE IF t \in unblock THEN Dispatch(<<>>, {}, ev, unblock, pulses)
    ELSE IF state[Server] = "RECEIVE" THEN Dispatch(<<>>, {Server}, ev, unblock \cup {t}, pulses)
    ELSE Dispatch(<<>>, {}, ev, unblock \cup {t}, pulses \cup {t})

\* signal_specret saves a request that was not used yet; of a mutex that was waited for,
\* it saves whether there was a timeout.
Saved(t) ==
    IF Blocked(t)
    THEN [NoRequest EXCEPT !.mutex = IF state[t] # "MUTEX" THEN "no" ELSE IF active[t] THEN "timed" ELSE "plain"]
    ELSE [flags |-> flags[t], imm |-> imm[t], time |-> time[t], mutex |-> "no"]

\* A signal with a handler: the thread is readied, and runs the handler with no timeout.  A
\* client that stays runs it later, as one that is interrupted when it is ready.
signal_kill_thread(t) ==
    /\ "signal" \in Features /\ ker = "free" /\ t \in Client /\ ~handler[t]
    /\ Blocked(t) \/ state[t] = "RUNNING"
    /\ IF Blocked(t) THEN force_ready(t, events) ELSE Ready({t})
    /\ IF Stays(t) THEN UNCHANGED <<saved, handler>>
       ELSE /\ saved' = [saved EXCEPT ![t] = Saved(t)]
            /\ handler' = [handler EXCEPT ![t] = TRUE]
    /\ ker' = "exit"
    /\ UNCHANGED <<time, ticking>>

\* SignalReturn of a handler that has used the requests it made.  A saved request comes back
\* if the thread still has a timer.  A mutex that was waited for is tried again by the
\* special return: the thread has it now, or waits again, with a timeout if it had one.
ker_signal_return(t) ==
    /\ Enter(t) /\ handler[t] /\ flags[t] = {}
    /\ handler' = [handler EXCEPT ![t] = FALSE]
    /\ saved' = [saved EXCEPT ![t] = NoRequest]
    /\ LET r    == saved[t]
           back == r.flags # {} /\ timer[t] # "none"
           arm  == r.mutex = "timed" /\ timer[t] # "none"
       IN  \/ /\ flags' = [flags EXCEPT ![t] = IF back THEN r.flags ELSE {}]
              /\ imm' = [imm EXCEPT ![t] = back /\ r.imm]
              /\ time' = [time EXCEPT ![t] = IF back THEN r.time ELSE @]
              /\ UNCHANGED <<state, active, timer>>
           \/ /\ r.mutex # "no"
              /\ TICKER_WAIT({u \in {t} : arm})
              /\ state' = [state EXCEPT ![t] = "MUTEX"]
              /\ flags' = [flags EXCEPT ![t] = IF r.mutex = "timed" THEN {"MUTEX"} ELSE {}]
              /\ active' = [active EXCEPT ![t] = arm]
              /\ timer' = [timer EXCEPT ![t] = IF arm THEN "armed" ELSE @]
              /\ UNCHANGED <<imm, time>>
    /\ ker' = "exit"
    /\ UNCHANGED <<unblock, pulses, taken, ticking, events>>

-----------------------------------------------------------------------------
(* The clock interrupt and the way out of the kernel *)

\* timer_fire has found the timer armed ...
timer_fire(t) ==
    /\ ticking = NONE /\ timer[t] = "armed"
    /\ ticking' = t
    /\ UNCHANGED <<kvars, time, handler, saved, ker>>

\* ... and queues its event; the timer has expired.
intrevent_add(t) ==
    /\ ticking = t
    /\ events' = Append(events, [thread |-> t, live |-> timer[t] = "armed"])
    /\ timer' = [timer EXCEPT ![t] = IF @ = "armed" THEN "idle" ELSE @]
    /\ ticking' = NONE
    /\ UNCHANGED <<state, flags, imm, active, time, handler, saved, unblock, pulses, taken, ker>>

\* The end of an interrupt handler, with events queued and nobody in the kernel
intr_exit ==
    /\ ker = "free" /\ events # <<>>
    /\ ker' = "exit"
    /\ UNCHANGED <<kvars, time, handler, saved, ticking>>

\* intrevent_drain: the first event, a SIGEV_UNBLOCK, is executed whatever the thread does.
intrevent_drain ==
    /\ ker = "exit" /\ events # <<>>
    /\ force_ready(Head(events).thread, Tail(events))
    /\ UNCHANGED <<time, handler, saved, ker, ticking>>

\* __ker_exit: the kernel is left when no event is queued.
ker_exit ==
    /\ ker = "exit" /\ events = <<>>
    /\ ker' = "free"
    /\ UNCHANGED <<kvars, time, handler, saved, ticking>>

-----------------------------------------------------------------------------
Next ==
    \/ \E t \in Thread :
          \/ ker_timer_timeout(t) \/ timer_alloc_fails(t) \/ nanosleep(t) \/ timer_fire(t) \/ intrevent_add(t)
    \/ \E c \in Client :
          \/ MsgSend(c) \/ MsgReceiveSender(c) \/ MsgReply(c) \/ SyncMutexLock(c) \/ sync_wakeup(c)
          \/ signal_kill_thread(c) \/ ker_signal_return(c)
    \/ MsgReceive \/ intr_exit \/ intrevent_drain \/ ker_exit

Spec == Init /\ [][Next]_vars

-----------------------------------------------------------------------------
(* Properties *)

\* No timeout hits a later call: an event whose thread has been readied since it was queued
\* finds it running when it is delivered, although sigevent_exe does not ask which call
\* the event was meant for.  It rests on timer_deactivate waiting for the ticker and on the
\* kernel not being left before the queue is empty.
NoStaleTimeout ==
    \A i \in DOMAIN events : ~events[i].live => ~Blocked(events[i].thread)

\* The crash in TimerTimeout, and those in timer_free, never happen: a thread that runs has
\* no armed timer, and one that is armed is the timer of a blocked thread with the flag.
NoArmedTimerWhenRunning ==
    \A t \in Thread : timer[t] = "armed" => Blocked(t) /\ active[t]

\* A thread that blocks in a state it asked a timeout for has the timer running, or its
\* event queued, or has been announced to the server.
Covered(t) == \/ timer[t] = "armed"
              \/ \E i \in DOMAIN events : events[i].thread = t
              \/ t \in unblock

\* block, unready and block_and_ready arm the timeout of the state that is entered, SEND,
\* RECEIVE, MUTEX, NANOSLEEP and the REPLY of a direct send, and the timeout of a wait in the
\* send queue runs on when the server takes the client.  Left out is a client that asked for
\* REPLY and not for SEND and is taken from the send queue: the code does not arm its timeout.
Asked(t) == Blocked(t) /\ state[t] \in flags[t] /\ (t \in taken => "SEND" \in flags[t])
BlockedIsCovered == \A t \in Thread : Asked(t) => Covered(t)

\* "arm the timeout for reply block": also for a client that waited in the send queue first
\* and did not ask for a timeout there.
ReplyIsCovered ==
    \A c \in Client : state[c] = "REPLY" /\ "REPLY" \in flags[c] => Covered(c)

\* A timer runs for the request of the program it interrupts: after a signal handler with
\* timeouts of its own, the time of the interrupted request is that of the timer again.
TimeSurvivesHandler ==
    \A t \in Thread : timer[t] = "armed" => time[t] = IF handler[t] THEN "handler" ELSE "main"

\* A request that a signal interrupted before its call is in effect again after the handler.
RequestSurvivesHandler ==
    [][\A t \in Thread : handler[t] /\ ~handler'[t] => saved[t].flags \subseteq flags'[t]]_vars
=============================================================================
