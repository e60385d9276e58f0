------------------------------- MODULE Timers -------------------------------
(***************************************************************************)
(* The interlock of the active timer lists (nano_timer.c): kernel calls    *)
(* arm, disarm and free timers while timer_expiry, in the clock interrupt  *)
(* of another CPU, walks the same lists, fires timers and rearms them.     *)
(* There is no lock.  The kernel raises timers_kerop, and the interrupt    *)
(* then leaves the links alone and puts what it fires on the pending list; *)
(* and the kernel waits for the end of timer_expiry (TICKER_WAIT).         *)
(*                                                                         *)
(* Times are left open: a timer is inserted anywhere in the list and is    *)
(* due or not whenever it is looked at.  Every queue has one slot, which   *)
(* is the sentinel of its ring.  Links are written in one step where only  *)
(* their forward half can be seen by the other side.                       *)
(***************************************************************************)
EXTENDS Naturals, FiniteSets

CONSTANTS
    Timer,      \* timer objects
    Queue,      \* timer_queue objects, each the sentinel of its list
    Queue0,     \* the one timer_init makes
    NIL,        \* a null pointer
    END,        \* PENDING_TIMER_END
    Full,       \* whether intrevent_add may find no INTREVENT that is free
    MaxKicks    \* bound: SIGEV_NONE events of timer_expiry that are counted

ASSUME TimersAssumption ==
    /\ Queue0 \in Queue /\ Timer \cap Queue = {}
    /\ NIL \notin Timer \cup Queue /\ END \notin Timer \cup Queue \cup {NIL}
    /\ Full \subseteq BOOLEAN /\ MaxKicks \in Nat \ {0}

VARIABLES
    next, prev,  \* link.next, link.prev of timers and slots
    queue,       \* tip->queue
    active,      \* timers with _NTO_TI_ACTIVE
    interval,    \* timers with interval_nsec # 0
    orphan,      \* timers with a null thread
    pending,     \* tip->pending
    head,        \* pending_head
    num,         \* num_active of the queues
    qnext,       \* queue_head (at NIL) and the next pointers of the queues
    mon,         \* mon_timers
    old,         \* queues with TQ_FLAG_OLD
    dead,        \* queue_dead
    live,        \* timers and queues that are allocated
    kerop,       \* timers_kerop
    ticking,     \* timers_ticking
    delayed,     \* timer_ops_delayed
    kicks,       \* SIGEV_NONE events on the event queue
    isr,         \* where timer_expiry is
    ker,         \* where the kernel call is
    armed,       \* what the last timer_activate asked for
    fired        \* how often the timer fired since, up to 2

links == <<next, prev, num>>
tvars == <<queue, active, interval, orphan, pending, head>>
qvars == <<qnext, mon, old, dead>>
flags == <<kerop, ticking, delayed, kicks>>
ghost == <<armed, fired>>
vars  == <<links, tvars, qvars, live, flags, isr, ker, ghost>>

Node == Timer \cup Queue

IsrPC == {"off", "queue", "dead", "look", "fire", "event", "again", "insert", "stop", "check"}
KerPC == {"idle", "deactivate", "deactivate_wait", "deactivate_mark", "mark_wait", "deactivate_check",
          "pending", "pending_take", "pending_start", "pending_wait", "pending_loop", "rearm_wait", "rearm", "rearmed",
          "pending_end", "restart", "restart_wait", "unlink", "unlinked", "deactivated", "activate", "activate_wait",
          "activate_in", "kerop_stop", "free_wait", "free", "period", "period_wait", "period_new"}

TypeOK ==
    /\ next \in [Node -> Node] /\ prev \in [Node -> Node] /\ num \in [Queue -> 0 .. Cardinality(Timer)]
    /\ queue \in [Timer -> Queue \cup {NIL}] /\ active \subseteq Timer /\ interval \subseteq Timer
    /\ orphan \subseteq Timer
    /\ pending \in [Timer -> Timer \cup {END, NIL}] /\ head \in Timer \cup {END}
    /\ qnext \in [Queue \cup {NIL} -> Queue \cup {NIL}] /\ mon \in Queue /\ old \subseteq Queue /\ dead \subseteq Queue
    /\ live \subseteq Node /\ kerop \in BOOLEAN /\ ticking \in BOOLEAN /\ delayed \in BOOLEAN
    /\ kicks \in 0 .. MaxKicks
    /\ isr \in [pc : IsrPC, owner : Queue \cup {NIL}, tip : Node, nxt : Node, prv : Node]
    /\ ker \in [pc : KerPC, op : {"none", "settime", "destroy", "drain", "period"}, tip : Timer \cup {NIL},
                list : Timer \cup {END}, cur : Timer \cup {NIL}, queue : Queue \cup {NIL}, ret : BOOLEAN]
    /\ armed \in [Timer -> {"no", "once", "many"}] /\ fired \in [Timer -> 0 .. 2]

IsrOff  == [pc |-> "off", owner |-> NIL, tip |-> Queue0, nxt |-> Queue0, prv |-> Queue0]
KerIdle == [pc |-> "idle", op |-> "none", tip |-> NIL, list |-> END, cur |-> NIL, queue |-> NIL, ret |-> FALSE]

\* timer_init
Init ==
    /\ next = [n \in Node |-> n] /\ prev = [n \in Node |-> n] /\ num = [q \in Queue |-> 0]
    /\ queue = [t \in Timer |-> NIL] /\ active = {} /\ interval = {} /\ orphan = {}
    /\ pending = [t \in Timer |-> NIL] /\ head = END
    /\ qnext = [q \in Queue \cup {NIL} |-> IF q = NIL THEN Queue0 ELSE NIL]
    /\ mon = Queue0 /\ old = {} /\ dead = {} /\ live = {Queue0}
    /\ kerop = FALSE /\ ticking = FALSE /\ delayed = FALSE /\ kicks = 0
    /\ isr = IsrOff /\ ker = KerIdle
    /\ armed = [t \in Timer |-> "no"] /\ fired = [t \in Timer |-> 0]

-----------------------------------------------------------------------------
(* The lists *)

RECURSIVE Walk(_, _, _)
Walk(nx, n, seen) == IF n \in seen THEN seen ELSE Walk(nx, nx[n], seen \cup {n})

\* The timers on the list of q
Ring(q) == Walk(next, next[q], {q}) \ {q}

\* t leaves the list it is on.
Unlink(t, q) ==
    /\ next' = [next EXCEPT ![prev[t]] = next[t]]
    /\ prev' = [prev EXCEPT ![next[t]] = prev[t]]
    /\ num' = [num EXCEPT ![q] = @ - 1]

\* t enters the list of q behind n, which its time decides.
InsertAfter(t, q, n) ==
    /\ next' = [next EXCEPT ![t] = next[n], ![n] = t]
    /\ prev' = [prev EXCEPT ![t] = n, ![next[n]] = t]
    /\ num' = [num EXCEPT ![q] = @ + 1]
    /\ queue' = [queue EXCEPT ![t] = q]

\* ADD_IN_NEW_QUEUE: a queue that replaces mon_timers is listed behind it.
AddQueue(new) ==
    /\ new \in Queue \ live
    /\ qnext' = [qnext EXCEPT ![new] = qnext[mon], ![mon] = new]
    /\ mon' = new
    /\ old' = old \cup {mon}
    /\ live' = live \cup {new}

\* timer_insert from the kernel, which may find the list too long and make a new queue;
\* the interrupt never does.
timer_insert(t) ==
    \/ /\ \E n \in Ring(mon) \cup {mon} : InsertAfter(t, mon, n)
       /\ UNCHANGED <<qnext, mon, old, live>>
    \/ /\ num[mon] > 0
       /\ \E new \in Queue : AddQueue(new) /\ InsertAfter(t, new, new)

-----------------------------------------------------------------------------
(* The kernel *)

At(pc) == ker.pc = pc
Goto(pc) == ker' = [ker EXCEPT !.pc = pc]

\* Mutant: one of the waits is left out.
TickerOff_rearm(pc) == pc = "rearm_wait" \/ ~ticking

\* TICKER_WAIT loops until timer_expiry is over.
TickerOff(pc) == ~ticking

Waits == [pc \in {"deactivate_wait", "mark_wait", "pending_wait", "rearm_wait", "restart_wait", "activate_wait",
                  "free_wait", "period_wait"} |->
          CASE pc = "deactivate_wait" -> "deactivate_mark" [] pc = "mark_wait" -> "deactivate_check"
            [] pc = "pending_wait" -> "pending_loop"       [] pc = "rearm_wait" -> "rearm"
            [] pc = "restart_wait" -> "unlink"             [] pc = "activate_wait" -> "activate_in"
            [] pc = "free_wait" -> "free"                  [] pc = "period_wait" -> "period_new"]

TICKER_WAIT ==
    /\ ker.pc \in DOMAIN Waits /\ TickerOff(ker.pc)
    /\ Goto(Waits[ker.pc])
    /\ UNCHANGED <<links, tvars, qvars, live, flags, isr, ghost>>

Starts == [pc \in {"deactivate", "pending_start", "restart", "activate", "period"} |->
           CASE pc = "deactivate" -> "deactivate_wait" [] pc = "pending_start" -> "pending_wait"
             [] pc = "restart" -> "restart_wait" [] pc = "activate" -> "activate_wait" [] pc = "period" -> "period_wait"]

\* KEROP_START, before its wait
KEROP_START ==
    /\ ker.pc \in DOMAIN Starts
    /\ kerop' = TRUE
    /\ Goto(Starts[ker.pc])
    /\ UNCHANGED <<links, tvars, qvars, live, ticking, delayed, kicks, isr, ghost>>

\* TimerSettime, TimerDestroy, ClockPeriod, and the delivery of a SIGEV_NONE event
Begin(op, t, pc) ==
    /\ At("idle")
    /\ ker' = [KerIdle EXCEPT !.op = op, !.tip = t, !.pc = pc]
    /\ UNCHANGED <<links, tvars, qvars, live, kerop, ticking, delayed, isr, ghost>>

ker_timer_create(t) ==
    /\ At("idle") /\ t \notin live
    /\ live' = live \cup {t}
    /\ armed' = [armed EXCEPT ![t] = "no"]
    /\ fired' = [fired EXCEPT ![t] = 0]
    /\ orphan' = orphan \ {t}
    /\ UNCHANGED <<links, queue, active, interval, pending, head, qvars, flags, isr, ker>>

\* thread_destroy of the last thread takes the thread from the alarm of the process, which
\* nobody asks for any more.
thread_destroy(t) ==
    /\ At("idle") /\ t \in live
    /\ orphan' = orphan \cup {t}
    /\ armed' = [armed EXCEPT ![t] = "no"]
    /\ fired' = [fired EXCEPT ![t] = 0]
    /\ UNCHANGED <<links, queue, active, interval, pending, head, qvars, live, flags, isr, ker>>

ker_timer_settime(t) == t \in live \ orphan /\ Begin("settime", t, "deactivate") /\ UNCHANGED kicks
ker_timer_destroy(t) == t \in live /\ Begin("destroy", t, "deactivate") /\ UNCHANGED kicks
ker_clock_period     == Begin("period", NIL, "period") /\ UNCHANGED kicks
intrevent_drain      == kicks > 0 /\ kicks' = kicks - 1 /\ Begin("drain", NIL, "pending")

\* timer_deactivate: no rearming any more, and the interrupt is told by queue = NULL.
deactivate_mark ==
    /\ At("deactivate_mark")
    /\ interval' = interval \ {ker.tip}
    /\ queue' = [queue EXCEPT ![ker.tip] = NIL]
    /\ ker' = [ker EXCEPT !.ret = ker.tip \in active, !.queue = queue[ker.tip],
                          !.pc = IF queue[ker.tip] = NIL THEN "unlink" ELSE "mark_wait"]
    /\ UNCHANGED <<links, active, orphan, pending, head, qvars, live, flags, isr, ghost>>

\* Mutant: it does not look at tip->pending.
deactivate_check_not ==
    /\ At("deactivate_check")
    /\ Goto("unlink")
    /\ UNCHANGED <<links, tvars, qvars, live, flags, isr, ghost>>

\* A timer that has fired is on the pending list, and taken off it by timer_pending.
deactivate_check ==
    /\ At("deactivate_check")
    /\ IF pending[ker.tip] = NIL THEN Goto("unlink")
       ELSE ker' = [ker EXCEPT !.pc = "pending", !.ret = FALSE]
    /\ UNCHANGED <<links, tvars, qvars, live, flags, isr, ghost>>

\* An active timer leaves its list, in two writes; KEROP_STOP.
unlink ==
    \/ /\ At("unlink") /\ ker.tip \in active
       /\ active' = active \ {ker.tip}
       /\ prev' = [prev EXCEPT ![next[ker.tip]] = prev[ker.tip]]
       /\ Goto("unlinked")
       /\ UNCHANGED <<next, num, kerop>>
       /\ UNCHANGED <<queue, interval, orphan, pending, head, qvars, live, ticking, delayed, kicks, isr, ghost>>
    \/ /\ At("unlinked")
       /\ next' = [next EXCEPT ![prev[ker.tip]] = next[ker.tip]]
       /\ num' = [num EXCEPT ![ker.queue] = @ - 1]
       /\ kerop' = FALSE
       /\ ker' = [ker EXCEPT !.pc = "deactivated", !.queue = NIL]
       /\ UNCHANGED <<prev, tvars, qvars, live, ticking, delayed, kicks, isr, ghost>>
    \/ /\ At("unlink") /\ ker.tip \notin active
       /\ kerop' = FALSE
       /\ ker' = [ker EXCEPT !.pc = "deactivated", !.queue = NIL]
       /\ UNCHANGED <<links, tvars, qvars, live, ticking, delayed, kicks, isr, ghost>>

\* The caller goes on: timer_free, or a new time, or none.
deactivated ==
    /\ At("deactivated")
    /\ armed' = [armed EXCEPT ![ker.tip] = "no"]
    /\ fired' = [fired EXCEPT ![ker.tip] = 0]
    /\ \/ ker.op = "destroy" /\ Goto("free_wait") /\ UNCHANGED interval
       \/ ker.op = "settime" /\ ker' = KerIdle /\ UNCHANGED interval
       \/ /\ ker.op = "settime" /\ Goto("activate")
          /\ interval' \in {interval, interval \cup {ker.tip}}
    /\ UNCHANGED <<links, queue, active, orphan, pending, head, qvars, live, flags, isr>>

timer_free ==
    /\ At("free")
    /\ live' = live \ {ker.tip}
    /\ ker' = KerIdle
    /\ UNCHANGED <<links, tvars, qvars, flags, isr, ghost>>

\* timer_activate: the timer is inserted; one whose time is past fires here.
timer_activate ==
    /\ At("activate_in")
    /\ active' = active \cup {ker.tip}
    /\ armed' = [armed EXCEPT ![ker.tip] = IF ker.tip \in interval THEN "many" ELSE "once"]
    /\ \/ timer_insert(ker.tip) /\ Goto("kerop_stop") /\ UNCHANGED fired
       \/ /\ \E full \in Full : fired' = [fired EXCEPT ![ker.tip] = IF full THEN 0 ELSE 1]
          /\ ker' = [ker EXCEPT !.pc = "rearm_wait", !.cur = ker.tip]
          /\ UNCHANGED <<links, queue, qnext, mon, old, live>>
    /\ UNCHANGED <<interval, orphan, pending, head, dead, flags, isr>>

kerop_stop ==
    /\ At("kerop_stop")
    /\ kerop' = FALSE
    /\ ker' = KerIdle
    /\ UNCHANGED <<links, tvars, qvars, live, ticking, delayed, kicks, isr, ghost>>

\* timer_period: a queue that is in use is replaced by one with other slots.
timer_period ==
    /\ At("period_new")
    /\ \/ num[mon] = 0 /\ UNCHANGED <<qnext, mon, old, live>>
       \/ num[mon] > 0 /\ \E new \in Queue : AddQueue(new)
       \/ num[mon] > 0 /\ UNCHANGED <<qnext, mon, old, live>>
    /\ Goto("kerop_stop")
    /\ UNCHANGED <<links, tvars, dead, flags, isr, ghost>>

-----------------------------------------------------------------------------
(* timer_pending *)

\* Mutant: the flag is not cleared.
pending_list_keep ==
    \/ /\ At("pending")
       /\ Goto("pending_take")
       /\ UNCHANGED <<links, tvars, qvars, live, flags, isr, ghost>>
    \/ /\ At("pending_take")
       /\ head' = END
       /\ ker' = [ker EXCEPT !.list = head, !.pc = "pending_start"]
       /\ UNCHANGED <<links, queue, active, interval, orphan, pending, qvars, live, flags, isr, ghost>>

\* The flag is cleared, then the list is taken.
pending_list ==
    \/ /\ At("pending")
       /\ delayed' = FALSE
       /\ Goto("pending_take")
       /\ UNCHANGED <<links, tvars, qvars, live, kerop, ticking, kicks, isr, ghost>>
    \/ /\ At("pending_take")
       /\ head' = END
       /\ ker' = [ker EXCEPT !.list = head, !.pc = "pending_start"]
       /\ UNCHANGED <<links, queue, active, interval, orphan, pending, qvars, live, flags, isr, ghost>>

\* The first timer of the list leaves its queue and is rearmed, unless it is the one that
\* timer_deactivate is about.
pending_loop ==
    /\ At("pending_loop") /\ ker.list # END
    /\ LET t == ker.list
       IN  IF t = ker.tip
           THEN /\ pending' = [pending EXCEPT ![t] = NIL]
                /\ ker' = [ker EXCEPT !.list = pending[t]]
                /\ UNCHANGED links
           ELSE /\ Unlink(t, queue[t])
                /\ ker' = [ker EXCEPT !.list = pending[t], !.cur = t, !.pc = "rearm_wait"]
                /\ UNCHANGED pending
    /\ UNCHANGED <<queue, active, interval, orphan, head, qvars, live, flags, isr, ghost>>

\* timer_rearm in the kernel, behind its wait
rearm_clear ==
    /\ At("rearm")
    /\ pending' = [pending EXCEPT ![ker.cur] = NIL]
    /\ Goto("rearmed")
    /\ UNCHANGED <<links, queue, active, interval, orphan, head, qvars, live, flags, isr, ghost>>

timer_rearm ==
    /\ At("rearmed")
    /\ IF ker.cur \in interval
       THEN timer_insert(ker.cur) /\ UNCHANGED active
       ELSE /\ active' = active \ {ker.cur}
            /\ queue' = [queue EXCEPT ![ker.cur] = NIL]
            /\ UNCHANGED <<links, qnext, mon, old, live>>
    /\ ker' = [ker EXCEPT !.cur = NIL, !.pc = IF ker.cur = ker.tip THEN "kerop_stop" ELSE "pending_loop"]
    /\ UNCHANGED <<interval, orphan, pending, head, dead, flags, isr, ghost>>

\* Mutant: timer_deactivate goes on without a KEROP_START of its own.
PendingReturn_nested == IF ker.op = "drain" THEN "idle" ELSE "unlink"

PendingReturn == IF ker.op = "drain" THEN "idle" ELSE "restart"

\* Queues that are not needed any more are freed; KEROP_STOP.
pending_end ==
    /\ At("pending_loop") /\ ker.list = END
    /\ dead' = {}
    /\ live' = live \ dead
    /\ old' = old \ dead
    /\ kerop' = FALSE
    /\ ker' = IF ker.op = "drain" THEN KerIdle ELSE [ker EXCEPT !.pc = PendingReturn]
    /\ UNCHANGED <<links, tvars, qnext, mon, ticking, delayed, kicks, isr, ghost>>

-----------------------------------------------------------------------------
(* The clock interrupt *)

IsrAt(pc) == isr.pc = pc
IsrGoto(pc) == isr' = [isr EXCEPT !.pc = pc]
IsrNext(pc, owner, tip) == isr' = [IsrOff EXCEPT !.pc = pc, !.owner = owner, !.tip = tip]

\* TICKER_START
timer_expiry ==
    /\ IsrAt("off")
    /\ ticking' = TRUE
    /\ IsrNext("queue", NIL, Queue0)
    /\ UNCHANGED <<links, tvars, qvars, live, kerop, delayed, kicks, ker, ghost>>

\* Mutant: an old queue is taken off the list whatever the kernel is doing.
DeadNow_always(q) == q \in old

\* Whether the interrupt may take an old queue off the list
DeadNow(q) == q \in old /\ ~kerop

expiry_queue ==
    /\ IsrAt("queue")
    /\ LET q == qnext[isr.owner]
       IN  IF q = NIL THEN IsrNext("stop", NIL, Queue0) /\ UNCHANGED <<qnext, dead>>
           ELSE IF num[q] # 0
                THEN /\ IsrNext("look", q, next[q])
                     /\ UNCHANGED <<qnext, dead>>
           ELSE IF DeadNow(q)
                THEN /\ qnext' = [qnext EXCEPT ![isr.owner] = qnext[q]]
                     /\ dead' = dead \cup {q}
                     /\ IsrNext("dead", isr.owner, q)
           ELSE isr' = [isr EXCEPT !.owner = q] /\ UNCHANGED <<qnext, dead>>
    /\ UNCHANGED <<links, tvars, mon, old, live, flags, ker, ghost>>

\* last_tick_idx is set in the queue that was taken off, too.
expiry_dead ==
    /\ IsrAt("dead")
    /\ IsrNext("queue", isr.owner, Queue0)
    /\ UNCHANGED <<links, tvars, qvars, live, flags, ker, ghost>>

\* The end of the list, a timer that is not due, or enough timers fired
expiry_break ==
    /\ IsrAt("look")
    /\ \/ IsrNext("queue", isr.owner, Queue0)
       \/ isr.tip \in Timer /\ IsrNext("stop", NIL, Queue0)
    /\ UNCHANGED <<links, tvars, qvars, live, flags, ker, ghost>>

\* timer_fire: what has been fired already or is being deactivated is passed over.
timer_fire ==
    /\ IsrAt("look") /\ isr.tip \in Timer
    /\ IF pending[isr.tip] # NIL \/ queue[isr.tip] = NIL
       THEN IsrNext("look", isr.owner, next[isr.tip])
       ELSE isr' = [isr EXCEPT !.pc = "fire", !.nxt = next[isr.tip]]
    /\ UNCHANGED <<links, tvars, qvars, live, flags, ker, ghost>>

fire_pending ==
    /\ IsrAt("fire")
    /\ IF kerop THEN pending' = [pending EXCEPT ![isr.tip] = head] /\ head' = isr.tip
                ELSE UNCHANGED <<pending, head>>
    /\ IsrGoto("event")
    /\ UNCHANGED <<links, queue, active, interval, orphan, qvars, live, flags, ker, ghost>>

\* intrevent_add of the event of the timer, whose result is not looked at; "thread has gone
\* away, deactivate the timer"
fire_event ==
    /\ IsrAt("event")
    /\ \/ /\ isr.tip \notin orphan
          /\ \E full \in Full : fired' = [fired EXCEPT ![isr.tip] = IF full \/ @ = 2 THEN @ ELSE @ + 1]
          /\ UNCHANGED interval
       \/ /\ isr.tip \in orphan
          /\ interval' = interval \ {isr.tip}
          /\ UNCHANGED fired
    /\ IsrGoto("again")
    /\ UNCHANGED <<links, queue, active, orphan, pending, head, qvars, live, flags, ker, armed>>

\* timer_rearm in the interrupt: off the list, ...
fire_unlink ==
    /\ IsrAt("again")
    /\ IF pending[isr.tip] = NIL /\ queue[isr.tip] # NIL
       THEN /\ Unlink(isr.tip, queue[isr.tip])
            /\ isr' = [isr EXCEPT !.pc = "insert", !.prv = prev[isr.tip]]
       ELSE /\ IsrNext("look", isr.owner, isr.nxt)
            /\ UNCHANGED links
    /\ UNCHANGED <<tvars, qvars, live, flags, ker, ghost>>

\* ... and on it again, if it has an interval; it is looked at again if it is in front of
\* the next one.
fire_insert ==
    /\ IsrAt("insert")
    /\ IF isr.tip \in interval
       THEN /\ \E n \in Ring(mon) \cup {mon} : InsertAfter(isr.tip, mon, n)
            /\ UNCHANGED active
       ELSE /\ active' = active \ {isr.tip}
            /\ queue' = [queue EXCEPT ![isr.tip] = NIL]
            /\ UNCHANGED links
    /\ IsrNext("look", isr.owner, IF next'[isr.prv] = isr.tip THEN isr.tip ELSE isr.nxt)
    /\ UNCHANGED <<interval, orphan, pending, head, qvars, live, flags, ker, ghost>>

\* TICKER_STOP
expiry_stop ==
    /\ IsrAt("stop")
    /\ ticking' = FALSE
    /\ IsrGoto("check")
    /\ UNCHANGED <<links, tvars, qvars, live, kerop, delayed, kicks, ker, ghost>>

\* An event asks for timer_pending, unless one does already; here too the result of
\* intrevent_add is not looked at.
expiry_check ==
    /\ IsrAt("check")
    /\ IF ~delayed /\ (head # END \/ dead # {})
       THEN /\ delayed' = TRUE
            /\ \E full \in Full : kicks' = IF full \/ kicks = MaxKicks THEN kicks ELSE kicks + 1
       ELSE UNCHANGED <<delayed, kicks>>
    /\ isr' = IsrOff
    /\ UNCHANGED <<links, tvars, qvars, live, kerop, ticking, ker, ghost>>

-----------------------------------------------------------------------------
Calls ==
    \/ \E t \in Timer : ker_timer_create(t) \/ ker_timer_settime(t) \/ ker_timer_destroy(t)
                         \/ thread_destroy(t)
    \/ ker_clock_period

Kernel ==
    \/ TICKER_WAIT \/ KEROP_START \/ deactivate_mark \/ deactivate_check \/ unlink \/ deactivated
    \/ timer_free \/ timer_activate \/ kerop_stop \/ timer_period
    \/ pending_list \/ pending_loop \/ rearm_clear \/ timer_rearm \/ pending_end

Interrupt ==
    \/ timer_expiry \/ expiry_queue \/ expiry_dead \/ expiry_break \/ timer_fire \/ fire_pending \/ fire_event
    \/ fire_unlink \/ fire_insert \/ expiry_stop \/ expiry_check

Next == Calls \/ intrevent_drain \/ Kernel \/ Interrupt

Spec == Init /\ [][Next]_vars

-----------------------------------------------------------------------------
(* Properties *)

IsrHolds == CASE isr.pc \in {"fire", "event", "again", "insert"} -> {isr.tip, isr.nxt}
              [] isr.pc \in {"look", "dead"} -> {isr.tip}
              [] OTHER -> {}

\* timer_expiry never looks at a timer or a queue that has been freed: what timer_free and
\* timer_pending wait for.
NoUseAfterFree ==
    /\ IsrHolds \subseteq live
    /\ isr.pc \in {"queue", "dead", "look", "fire", "event", "again", "insert"} /\ isr.owner # NIL => isr.owner \in live

\* The check in timer_expiry: a timer met on the list of a queue belongs to this queue, or
\* is being deactivated.
MetOnItsQueue ==
    IsrAt("look") /\ isr.tip \in Timer => queue[isr.tip] \in {isr.owner, NIL}

\* CHECK_LINKAGES: the lists are rings, and hold the active timers but the one that is just
\* being rearmed; num_active counts them.
RearmedNow == {t \in Timer : (ker.pc \in {"rearm_wait", "rearm", "rearmed"} /\ ker.cur = t) \/ (IsrAt("insert") /\ isr.tip = t)}

LinksSane ==
    ~At("unlinked") =>
    /\ \A q \in Queue \cap live :
          /\ \A n \in Ring(q) \cup {q} : prev[next[n]] = n /\ next[prev[n]] = n
          /\ num[q] = Cardinality(Ring(q))
          /\ Ring(q) \subseteq Timer
    /\ UNION {Ring(q) : q \in Queue \cap live} = active \ RearmedNow

\* A timer without an interval fires once for every time it is armed, although it stays on
\* the list while it is pending.
FiresOnce == \A t \in Timer : armed[t] = "once" => fired[t] <= 1

\* "If nsec is zero, we guarantee the event was queued": timer_deactivate returns that the
\* timer was active if and only if it has not fired, for a timer without interval; one that
\* was armed and is reported inactive has fired.
DeactivateTold ==
    At("deactivated") =>
        LET t == ker.tip
        IN  /\ ker.ret /\ armed[t] = "once" => fired[t] = 0
            /\ ~ker.ret /\ armed[t] # "no" => fired[t] > 0

\* What is put on the pending list is not forgotten: timer_pending is asked for, is about to
\* take the list, or the interrupt is still to ask.
PendingNotForgotten ==
    head # END \/ dead # {} =>
        \/ delayed /\ kicks > 0
        \/ ker.pc \in {"pending", "pending_take"} \/ (head = END /\ ker.pc \in {"pending_start", "pending_wait", "pending_loop", "rearm_wait", "rearm", "rearmed"})
        \/ isr.pc # "off"
=============================================================================
