------------------------------ MODULE IntrEvent ------------------------------
(***************************************************************************)
(* The queue of events from interrupt handlers (nano_event.c) on a machine *)
(* with several CPUs: handlers add events with intrevent_add while the     *)
(* kernel, on another CPU, takes them off in intrevent_drain, and detaches *)
(* handlers and destroys threads, for which intrevent_flush waits.         *)
(*                                                                         *)
(* What is done under intrevent_lock is one step.  A thread stands for     *)
(* its process, but where a thread ends another one can be of the same     *)
(* process.  A level has one INTERRUPT at most.  Its handler may add       *)
(* several events, as the clock's does; one of InterruptAttachEvent has no *)
(* handler, and masks its level with its one event.                        *)
(***************************************************************************)
EXTENDS Integers, Sequences, FiniteSets

CONSTANTS
    Thread,         \* threads, the targets of events
    Killable,       \* those of processes with a pid from 2 on
    Levels,         \* number of interrupt levels
    EventOnly,      \* those whose INTERRUPT has no handler
    clock,          \* the level of the clock
    priority,       \* priority of every thread
    NUM_PRI,        \* one above the highest priority
    num_init,       \* entries that intrevent_init makes
    MaxAlloc,       \* bound: memory for this many entries
    MaxAdds,        \* bound: events of one interrupt
    MIN_INTRS_BAD,  \* how many events of a process justify to kill it
    NIL

Level == 0 .. Levels - 1

ASSUME IntrEventAssumption ==
    /\ Levels \in Nat \ {0} /\ NUM_PRI \in Nat \ {0} /\ priority \in [Thread -> 1 .. NUM_PRI - 1]
    /\ num_init \in Nat \ {0} /\ MaxAlloc \in Nat /\ MaxAlloc >= num_init
    /\ MaxAdds \in Nat \ {0} /\ MIN_INTRS_BAD \in Nat \ {0} /\ Killable \subseteq Thread
    /\ EventOnly \subseteq Level
    /\ NIL \notin Thread /\ Thread \cap Level = {}

VARIABLES
    pending,        \* intrevent_pending
    tail,           \* intrevent_tail: the entry whose next it is, 0 for the head of the list
    free,           \* num_pev_free, the length of intrevent_free
    alloc,          \* num_pev_alloc
    qprio,          \* queued_event_priority
    active,         \* drain_active
    last_mask,      \* drain_last_mask
    masks,          \* mask_count of the levels
    flagged,        \* levels with INTERNAL_CONFIG_FLAG_MASKED
    att,            \* thread of the handler that is attached to a level, or NIL
    loc,            \* the handlers that are running
    marks,          \* pending_interrupts of the processes
    taken,          \* the events that intrevent_drain has taken
    ker,            \* the kernel: where it is
    dead,           \* threads that have been destroyed
    crashed         \* "no", "crash" by crash(), or "null" by a null pointer

list  == <<pending, tail, free, alloc, qprio>>
drain == <<active, last_mask>>
intr  == <<masks, flagged, att>>
vars  == <<list, drain, intr, loc, marks, taken, ker, dead, crashed>>

Event   == {"event", "kill"} \X Thread
PREEMPT == <<"preempt", NIL>>
Entry   == Event \cup {PREEMPT}

Idle  == [pc |-> "idle", thp |-> NIL, adds |-> 0, bad |-> NIL]
KerOut == [pc |-> "out", more |-> FALSE, level |-> 0, back |-> "out", what |-> NIL]

TypeOK ==
    /\ pending \in Seq(Entry) /\ tail \in 0 .. Len(pending)
    /\ free \in Nat /\ alloc \in num_init .. MaxAlloc /\ qprio \in 0 .. NUM_PRI
    /\ active \in BOOLEAN /\ last_mask \in -1 .. Levels - 1
    /\ masks \in [Level -> Nat] /\ flagged \subseteq Level /\ att \in [Level -> Thread \cup {NIL}]
    /\ loc \in [Level -> [pc : {"idle", "add", "mask", "masked", "error", "walk", "cancel"}, thp : Thread \cup {NIL},
                          adds : 0 .. MaxAdds, bad : Thread \cup {NIL}]]
    /\ marks \in [Thread -> Nat] /\ taken \in Seq(Event)
    /\ ker \in [pc : {"out", "take", "exec", "more", "unmask", "flush", "flushed"}, more : BOOLEAN, level : Int,
                back : {"out", "flush", "flushed"}, what : Thread \cup Level \cup {NIL}]
    /\ dead \subseteq Thread /\ crashed \in {"no", "crash", "null"}

Init ==
    /\ pending = <<>> /\ tail = 0 /\ free = num_init /\ alloc = num_init /\ qprio = 0
    /\ active = FALSE /\ last_mask = -1
    /\ masks = [l \in Level |-> 1] /\ flagged = {} /\ att = [l \in Level |-> NIL]
    /\ loc = [l \in Level |-> Idle] /\ marks = [t \in Thread |-> 0]
    /\ taken = <<>> /\ ker = KerOut /\ dead = {} /\ crashed = "no"

num_pev_trigger == alloc \div 4

\* Mutant: in front of the list
Enqueue_front(e) ==
    /\ pending' = <<e>> \o pending
    /\ tail' = tail + 1

\* *intrevent_tail = irp
Enqueue(e) ==
    /\ pending' = Append(SubSeq(pending, 1, tail), e)
    /\ tail' = tail + 1

Raise(prio) == qprio' = IF qprio < prio THEN prio ELSE qprio

-----------------------------------------------------------------------------
(* Interrupt handlers *)

At(l, pc) == crashed = "no" /\ loc[l].pc = pc
Goto(l, pc) == loc' = [loc EXCEPT ![l].pc = pc]

\* An interrupt on a level that is not masked starts its handler. Without a handler the
\* level is masked before the event is added.
interrupt(l) ==
    /\ At(l, "idle") /\ att[l] # NIL /\ masks[l] = 0
    /\ loc' = [loc EXCEPT ![l] = [Idle EXCEPT !.pc = "add", !.thp = att[l], !.adds = 1]]
    /\ masks' = IF l \in EventOnly THEN [masks EXCEPT ![l] = 1] ELSE masks
    /\ UNCHANGED <<list, drain, flagged, att, marks, taken, ker, dead, crashed>>

\* intrevent_add has returned: the handler ends, or it adds another event.
Return(l) ==
    \/ loc' = [loc EXCEPT ![l] = Idle]
    \/ /\ l \notin EventOnly /\ loc[l].adds < MaxAdds
       /\ loc' = [loc EXCEPT ![l] = [Idle EXCEPT !.pc = "add", !.thp = loc[l].thp, !.adds = loc[l].adds + 1]]

\* intrevent_add: a free entry is taken and queued. With few entries left while the queue is
\* being drained, the lock is given up to mask the level first.
intrevent_add(l) ==
    LET thp == loc[l].thp
    IN  /\ At(l, "add")
        /\ \/ /\ free = 0
              /\ Goto(l, "error")
              /\ UNCHANGED list
           \/ /\ free > 0 /\ free - 1 <= num_pev_trigger /\ active
              /\ free' = free - 1
              /\ Goto(l, "mask")
              /\ UNCHANGED <<pending, tail, alloc, qprio>>
           \/ /\ free > 0 /\ ~(free - 1 <= num_pev_trigger /\ active)
              /\ free' = free - 1
              /\ Raise(IF free - 1 <= num_pev_trigger THEN NUM_PRI ELSE priority[thp])
              /\ Enqueue(<<"event", thp>>)
              /\ Return(l)
              /\ UNCHANGED alloc
        /\ UNCHANGED <<drain, intr, marks, taken, ker, dead, crashed>>

interrupt_mask(l) ==
    /\ At(l, "mask")
    /\ masks' = [masks EXCEPT ![l] = @ + 1]
    /\ Goto(l, "masked")
    /\ UNCHANGED <<list, drain, flagged, att, marks, taken, ker, dead, crashed>>

\* The lock is taken again.
add_masked(l) ==
    /\ At(l, "masked")
    /\ flagged' = flagged \cup {l}
    /\ last_mask' = IF last_mask < l THEN l ELSE last_mask
    /\ Raise(NUM_PRI)
    /\ Enqueue(<<"event", loc[l].thp>>)
    /\ Return(l)
    /\ UNCHANGED <<free, alloc, active, masks, att, marks, taken, ker, dead, crashed>>

\* The loops of intrevent_error read the process of every entry.
NoThread == \E i \in DOMAIN pending : pending[i] = PREEMPT

\* intrevent_error: the pending events of every process are counted, ...
error_mark(l) ==
    /\ At(l, "error")
    /\ IF NoThread
       THEN crashed' = "null" /\ UNCHANGED <<marks, loc>>
       ELSE /\ marks' = [t \in Thread |-> IF t \in Killable
                                          THEN marks[t] + Cardinality({i \in DOMAIN pending : pending[i][2] = t}) ELSE 0]
            /\ Goto(l, "walk")
            /\ UNCHANGED crashed
    /\ UNCHANGED <<list, drain, intr, taken, ker, dead>>

\* ... the process with the most is found, without the lock; the event is lost if it has not
\* many, ...
error_walk(l) ==
    /\ At(l, "walk")
    /\ marks' = [t \in Thread |-> 0]
    /\ \/ /\ \A t \in Killable : marks[t] < MIN_INTRS_BAD
          /\ Return(l)
       \/ \E t \in Killable :
             /\ marks[t] >= MIN_INTRS_BAD /\ \A u \in Killable : marks[u] <= marks[t]
             /\ loc' = [loc EXCEPT ![l].pc = "cancel", ![l].bad = t]
    /\ UNCHANGED <<list, drain, intr, taken, ker, dead, crashed>>

Kept(t) == {i \in DOMAIN pending : pending[i][2] # t}

\* How many entries are freed: all that are cancelled but the one for the signal
Cancelled(t) == Len(pending) - Cardinality(Kept(t)) - 1

\* ... and its events are replaced by a SIGKILL in front of the others. A handler of this
\* process has its level masked, unless it is the clock; intrevent_add tries again.
error_cancel(l) ==
    LET t == loc[l].bad
    IN  /\ At(l, "cancel")
        /\ IF NoThread \/ Kept(t) = DOMAIN pending
           THEN /\ crashed' = IF NoThread THEN "null" ELSE "crash"
                /\ UNCHANGED <<pending, tail, free, masks, loc>>
           ELSE /\ pending' = <<<<"kill", t>>>> \o SelectSeq(pending, LAMBDA e : e[2] # t)
                /\ LET n == Cardinality(Kept(t) \cap 1 .. tail) IN tail' = IF n = 0 THEN 0 ELSE n + 1
                /\ free' = free + Cancelled(t)
                /\ masks' = IF loc[l].thp = t /\ l # clock THEN [masks EXCEPT ![l] = @ + 1] ELSE masks
                /\ loc' = [loc EXCEPT ![l].pc = "add", ![l].bad = NIL]
                /\ UNCHANGED crashed
        /\ UNCHANGED <<alloc, qprio, drain, flagged, att, marks, taken, ker, dead>>

\* The clock handler on another CPU wants a thread in the kernel to be preempted.
intrevent_preemption(prio) ==
    /\ crashed = "no" /\ qprio < prio
    /\ qprio' = prio
    /\ IF pending = <<>> THEN Enqueue(PREEMPT) ELSE UNCHANGED <<pending, tail>>
    /\ UNCHANGED <<free, alloc, drain, intr, loc, marks, taken, ker, dead, crashed>>

-----------------------------------------------------------------------------
(* The kernel *)

KerAt(pc) == crashed = "no" /\ ker.pc = pc
KerGoto(pc) == ker' = [ker EXCEPT !.pc = pc]

Drain(back) ==
    /\ active' = TRUE /\ last_mask' = -1
    /\ ker' = [ker EXCEPT !.pc = "take", !.more = FALSE, !.level = 0, !.back = back]

\* Mutant: only events that preempt are delivered.
ker_exit_preempt ==
    /\ KerAt("out") /\ pending # <<>> /\ qprio = NUM_PRI
    /\ Drain("out")
    /\ UNCHANGED <<list, intr, loc, marks, taken, dead, crashed>>

\* On the way out of the kernel
ker_exit ==
    /\ KerAt("out") /\ pending # <<>>
    /\ Drain("out")
    /\ UNCHANGED <<list, intr, loc, marks, taken, dead, crashed>>

\* Mutant: the entry is not counted as taken.
event_add_keep(t) ==
    /\ KerAt("out") /\ t \notin dead
    /\ free > num_pev_trigger + 1
    /\ Raise(priority[t])
    /\ Enqueue(<<"event", t>>)
    /\ UNCHANGED <<free, alloc, drain, intr, loc, marks, taken, ker, dead, crashed>>

\* An event without delay, if there is room: the memory partition manager's
event_add(t) ==
    /\ KerAt("out") /\ t \notin dead
    /\ free > num_pev_trigger + 1
    /\ free' = free - 1
    /\ Raise(priority[t])
    /\ Enqueue(<<"event", t>>)
    /\ UNCHANGED <<alloc, drain, intr, loc, marks, taken, ker, dead, crashed>>

interrupt_attach(l, t) ==
    /\ KerAt("out") /\ att[l] = NIL /\ t \notin dead
    /\ att' = [att EXCEPT ![l] = t]
    /\ masks' = [masks EXCEPT ![l] = 0]
    /\ UNCHANGED <<list, drain, flagged, loc, marks, taken, ker, dead, crashed>>

\* interrupt_detach_entry, up to its intrevent_flush
interrupt_detach_entry(l) ==
    /\ KerAt("out") /\ att[l] # NIL
    /\ att' = [att EXCEPT ![l] = NIL]
    /\ masks' = [masks EXCEPT ![l] = 1]
    /\ ker' = [ker EXCEPT !.pc = "flush", !.what = l]
    /\ UNCHANGED <<list, drain, flagged, loc, marks, taken, dead, crashed>>

\* The kernel call of a process that has dealt with the event of an INTERRUPT without handler
interrupt_unmask(l) ==
    /\ crashed = "no" /\ l \in EventOnly /\ att[l] # NIL /\ masks[l] > 0
    /\ masks' = [masks EXCEPT ![l] = @ - 1]
    /\ UNCHANGED <<list, drain, flagged, att, loc, marks, taken, ker, dead, crashed>>

\* thread_destroy up to its intrevent_flush: its interrupts are detached, or passed to another
\* thread of the process where they have _NTO_INTR_FLAGS_PROCESS.
thread_destroy(t) ==
    /\ KerAt("out") /\ t \notin dead
    /\ \/ (\A l \in Level : att[l] # t) /\ UNCHANGED att
       \/ \E u \in Thread \ (dead \cup {t}) :
             att' = [l \in Level |-> IF att[l] = t THEN u ELSE att[l]]
    /\ ker' = [ker EXCEPT !.pc = "flush", !.what = t]
    /\ UNCHANGED <<list, drain, masks, flagged, loc, marks, taken, dead, crashed>>

\* Mutant: intrevent_flush does not wait.
Quiet_any == TRUE

\* No CPU is in a handler.
Quiet == \A l \in Level : loc[l].pc = "idle"

\* intrevent_flush waits until no CPU is in a handler and then empties the queue; while it
\* waits it empties the queue if entries get few.
intrevent_flush ==
    /\ KerAt("flush")
    /\ \/ ~Quiet /\ free <= num_pev_trigger /\ Drain("flush")
       \/ Quiet /\ pending # <<>> /\ Drain("flushed")
       \/ Quiet /\ pending = <<>> /\ KerGoto("flushed") /\ UNCHANGED drain
    /\ UNCHANGED <<list, intr, loc, marks, taken, dead, crashed>>

\* What intrevent_flush was called for is freed.
flushed ==
    /\ KerAt("flushed")
    /\ dead' = IF ker.what \in Thread THEN dead \cup {ker.what} ELSE dead
    /\ ker' = KerOut
    /\ UNCHANGED <<list, drain, intr, loc, marks, taken, crashed>>

\* The list without preempt_ev, which can only be at its start
Listed == IF pending # <<>> /\ Head(pending) = PREEMPT THEN Tail(pending) ELSE pending

\* Mutant: the priority is not reset with the list.
drain_take_late ==
    LET m == ker.more \/ free <= num_pev_trigger
    IN  /\ KerAt("take")
        /\ pending' = <<>> /\ tail' = 0 /\ qprio' = qprio
        /\ taken' = Listed
        /\ ker' = [ker EXCEPT !.more = m, !.pc = IF Listed # <<>> THEN "exec" ELSE "more"]
        /\ UNCHANGED <<free, alloc, drain, intr, loc, marks, dead, crashed>>

\* intrevent_drain takes the list; the loop ends when there is none.
drain_take ==
    LET m == ker.more \/ free <= num_pev_trigger
    IN  /\ KerAt("take")
        /\ pending' = <<>> /\ tail' = 0 /\ qprio' = 0
        /\ taken' = Listed
        /\ ker' = [ker EXCEPT !.more = m, !.pc = IF Listed # <<>> THEN "exec" ELSE "more"]
        /\ UNCHANGED <<free, alloc, drain, intr, loc, marks, dead, crashed>>

\* sigevent_exe of the first event; its entry is freed at once.
drain_exec ==
    /\ KerAt("exec")
    /\ taken' = Tail(taken)
    /\ free' = free + 1
    /\ KerGoto(IF Tail(taken) = <<>> THEN "take" ELSE "exec")
    /\ UNCHANGED <<pending, tail, alloc, qprio, drain, intr, loc, marks, dead, crashed>>

\* Nothing is left; intrevent_alloc of a quarter more entries, as far as there is memory
drain_more ==
    /\ KerAt("more")
    /\ active' = FALSE
    /\ \E n \in (IF ker.more THEN 0 .. (alloc \div 4) ELSE {0}) :
          /\ alloc + n <= MaxAlloc
          /\ free' = free + n /\ alloc' = alloc + n
    /\ ker' = [ker EXCEPT !.more = FALSE, !.pc = "unmask", !.level = last_mask]
    /\ UNCHANGED <<pending, tail, qprio, last_mask, intr, loc, marks, taken, dead, crashed>>

\* The levels that intrevent_add masked are unmasked, one by one.
drain_unmask ==
    /\ KerAt("unmask")
    /\ IF ker.level < 0 THEN ker' = [ker EXCEPT !.level = 0, !.pc = ker.back, !.back = "out"] /\ UNCHANGED <<masks, flagged>>
       ELSE /\ ker' = [ker EXCEPT !.level = @ - 1]
            /\ flagged' = flagged \ {ker.level}
            /\ masks' = IF ker.level \in flagged /\ masks[ker.level] > 0
                        THEN [masks EXCEPT ![ker.level] = @ - 1] ELSE masks
    /\ UNCHANGED <<list, drain, att, loc, marks, taken, dead, crashed>>

-----------------------------------------------------------------------------
Handler(l) ==
    \/ intrevent_add(l) \/ interrupt_mask(l) \/ add_masked(l)
    \/ error_mark(l) \/ error_walk(l) \/ error_cancel(l)

Kernel == drain_take \/ drain_exec \/ drain_more \/ drain_unmask \/ flushed

Calls ==
    \/ \E l \in Level :
          interrupt_unmask(l) \/ interrupt_detach_entry(l) \/ \E t \in Thread : interrupt_attach(l, t)
    \/ \E t \in Thread : event_add(t) \/ thread_destroy(t)

Next ==
    \/ \E l \in Level : interrupt(l) \/ Handler(l)
    \/ \E prio \in {priority[t] + 1 : t \in Thread} : intrevent_preemption(prio)
    \/ ker_exit \/ intrevent_flush \/ Kernel \/ Calls

Spec == Init /\ [][Next]_vars

-----------------------------------------------------------------------------
(* Properties *)

\* The NOTE at the top of nano_event.c: with queued_event_priority > 0 there is something in
\* the queue, or the kernel would never get out of __ker_exit; and the priority is not below
\* that of an event in the queue, which would be drained too late.
PriorityIsQueued ==
    /\ qprio > 0 => pending # <<>>
    /\ \A i \in DOMAIN pending : pending[i] # PREEMPT => qprio >= priority[pending[i][2]]

\* Every entry is free, pending, taken or in the hands of a handler that masks its level.
EntriesConserved ==
    free + Len(Listed) + Len(taken)
         + Cardinality({l \in Level : loc[l].pc \in {"mask", "masked"}}) = alloc

\* intrevent_flush, called before a thread or an INTERRUPT is freed, "to make sure there's
\* nothing pending that's still pointing at" it: no event is delivered to a thread that is
\* gone, and no handler runs for it.
NothingForTheDead ==
    /\ \A i \in DOMAIN pending : pending[i][2] \notin dead
    /\ \A i \in DOMAIN taken : taken[i][2] \notin dead
    /\ \A l \in Level : loc[l].thp \notin dead

\* The events that are to be delivered, those that the drain has taken first
Events == taken \o Listed

\* "intrevent_add() [might have] turned off some interrupts while we were draining the queue.
\* Look through the list and unmask them now that we're done."
UnmaskedWhenDone ==
    ker.pc = "out" /\ Quiet => \A l \in Level \ EventOnly : att[l] # NIL => masks[l] = 0

\* The same for a handler that adds several events: what the loop unmasks is not masked any
\* more.
UnmaskedByLoop ==
    [][KerAt("unmask") /\ ker.level \in (flagged \ flagged') \ EventOnly /\ att[ker.level] # NIL /\ loc[ker.level].pc = "idle"
         => masks'[ker.level] = 0]_vars

\* "We'll find the errant process and kill it without mercy."
KillIsDelivered ==
    [][\A t \in Thread : (\E i \in DOMAIN pending : pending[i] = <<"kill", t>>)
          => \E i \in DOMAIN (taken' \o pending') : (taken' \o pending')[i] = <<"kill", t>>]_vars

\* "It's always going to be at the start of the pending list if it's present at all", and
\* once: what the drain relies on, which would otherwise put preempt_ev on the free list
PreemptIsFirst == \A i \in DOMAIN pending : pending[i] = PREEMPT => i = 1

\* intrevent_error: "'mark' each process with the number of pending events"
AllMarked == crashed # "null"
=============================================================================
