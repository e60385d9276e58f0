------------------------------- MODULE Pulse -------------------------------
(***************************************************************************)
(* Pulses and queued signals (kernel/nano/nano_pulse.c) and the pool their *)
(* entries come from (kernel/nano/nano_object.c): one process with a       *)
(* channel, whose send_queue holds pulses and send-blocked threads, and a  *)
(* sig_pending list.  Both are PRILs: descending PRIL_PRIORITY, first come *)
(* first served within one (Pril.tla shows that the pointers do that).     *)
(*                                                                         *)
(* An entry is a record; its `code' is the pair <<code, id>>, `crit' says  *)
(* whether its memory is from the critical heap.  The pool is that of      *)
(* pulse_souls, and cur, max are the LIMITS_PULSE of the process.  The     *)
(* kernel runs these operations with the kernel locked, so each is one     *)
(* step.  Left out: the priorities that a delivery gives to the threads of *)
(* the server, and the virtual pulses (_PULSE_PRIO_VTID) of network        *)
(* threads.                                                                *)
(***************************************************************************)
EXTENDS Integers, Sequences, FiniteSets, SequencesExt

CONSTANTS
    Prio, Code, Val,      \* priorities (or signals), pairs of code and id, values
    NUM_PRI,
    _PULSE_COUNT_MAX,
    min,                  \* pulse_souls.min
    HIGHWATER_CALLS,      \* 100 in object_alloc
    max,                  \* lip->max[LIMITS_PULSE]
    Heap,                 \* blocks the kernel heap can give to pulses
    CRIT_SIZE,            \* blocks of the critical heap
    MaxSend, MaxSig       \* bounds on the items of a queue; MaxSig also on cur - max

ASSUME PulseAssumption ==
    /\ Prio \subseteq 1 .. NUM_PRI - 1
    /\ {_PULSE_COUNT_MAX, min, HIGHWATER_CALLS} \subseteq Nat \ {0}
    /\ {NUM_PRI, max, Heap, CRIT_SIZE, MaxSend, MaxSig} \subseteq Nat
    /\ min <= Heap

VARIABLES
    send_queue, sig_pending,
    soul,        \* pulse_souls: the list of free blocks and the counters
    heap, crit,  \* free blocks of ker_free_list and ker_crit_list
    others,      \* blocks of the kernel heap that others hold
    cur,         \* lip->cur[LIMITS_PULSE]
    receiver,    \* the server thread: "busy", or in receive_queue for "any" or "pulse"
    terming,     \* QRV_FLG_PROC_TERMING
    refused,     \* the last object_alloc: "limit" or "memory" when it failed, else "no"
    accepted     \* what the last step put in a list, or None

lists == <<send_queue, sig_pending>>
pool  == <<soul, heap, crit, cur, refused>>
vars  == <<lists, pool, others, receiver, terming, accepted>>
server == <<others, receiver, terming>>

Thread == "thread"
NoCode == <<Thread, Thread>>    \* in place of the code of a TYPE_THREAD entry
Entries == [type : {"pulse", "signal", Thread}, first : BOOLEAN, priority : Prio,
            code : Code \cup {NoCode}, val : Val \cup {Thread},
            count : 1 .. _PULSE_COUNT_MAX, crit : BOOLEAN, user : BOOLEAN]

None == [type |-> Thread, rank |-> 0, code |-> NoCode, val |-> Thread, replace |-> FALSE]

PRIL_PRIORITY(e) == e.priority + (IF e.first THEN NUM_PRI ELSE 0)

TypeOK ==
    /\ send_queue \in Seq(Entries) /\ sig_pending \in Seq(Entries)
    /\ soul.next \in Seq(BOOLEAN)
    /\ {soul.total, soul.used, soul.newmin, soul.highwater} \subseteq Nat
    /\ soul.counter \in 0 .. HIGHWATER_CALLS - 1
    /\ heap \in 0 .. Heap /\ others \in 0 .. Heap
    /\ crit \in 0 .. CRIT_SIZE /\ cur \in Nat
    /\ receiver \in {"busy", "any", "pulse"} /\ terming \in BOOLEAN
    /\ refused \in {"no", "limit", "memory"}

\* After init_soul: the first object_grow has taken min blocks.
Init ==
    /\ send_queue = <<>> /\ sig_pending = <<>>
    /\ soul = [next |-> [i \in 1 .. min |-> FALSE], total |-> min, used |-> 0,
               newmin |-> min, highwater |-> min, counter |-> 0]
    /\ heap = Heap - min /\ crit = CRIT_SIZE /\ others = 0
    /\ cur = 0
    /\ receiver = "busy" /\ terming = FALSE
    /\ refused = "no" /\ accepted = None
-----------------------------------------------------------------------------
\* The pool.  p is a record of soul, heap, crit and cur, so that the entries of
\* a list can be freed one after the other in one step.
Pool == [soul |-> soul, heap |-> heap, crit |-> crit, cur |-> cur]
SetPool(p) == /\ soul' = p.soul /\ heap' = p.heap /\ crit' = p.crit
              /\ cur' = p.cur

\* _scalloc under alloc_critical: the critical heap is the last resort.
CanGrow(p, critical) == p.heap > 0 \/ (critical /\ p.crit > 0)
object_grow(p) ==
    LET c == p.heap = 0
    IN  [p EXCEPT !.heap = IF c THEN @ ELSE @ - 1,
                  !.crit = IF c THEN @ - 1 ELSE @,
                  !.soul.total = @ + 1,
                  !.soul.next = <<c>> \o @]

\* The counters that follow how many objects are in use at a time.
Highwater(s) ==
    LET used == s.used + 1
        high == IF s.highwater <= used THEN used ELSE s.highwater
    IN  IF s.counter + 1 >= HIGHWATER_CALLS
        THEN [s EXCEPT !.used = used, !.newmin = high, !.highwater = min, !.counter = 0]
        ELSE [s EXCEPT !.used = used, !.highwater = high, !.counter = @ + 1]

AtLimit(no_limits) == cur >= max /\ ~no_limits

Counted(no_limits) == [Pool EXCEPT !.cur = @ + 1]

\* object_alloc.  `object' is <<c>>, c saying whether it is of critical memory,
\* or <<>> when there is none.  The process is charged before the pool is known
\* to have an object.
object_alloc(critical, no_limits, object) ==
    LET p == Counted(no_limits)
        q == IF p.soul.next = <<>> THEN object_grow(p) ELSE p
    IN  \/ /\ AtLimit(no_limits)
           /\ refused' = "limit"
           /\ object = <<>>
           /\ UNCHANGED <<soul, heap, crit, cur>>
        \/ /\ ~AtLimit(no_limits)
           /\ p.soul.next = <<>> /\ ~CanGrow(p, critical)
           /\ object = <<>>
           /\ SetPool(p)
           /\ refused' = "memory"
        \/ /\ ~AtLimit(no_limits)
           /\ p.soul.next # <<>> \/ CanGrow(p, critical)
           /\ SetPool([q EXCEPT !.soul = Highwater([@ EXCEPT !.next = Tail(@)])])
           /\ object = <<Head(q.soul.next)>>
           /\ refused' = "no"

_sfree(p, c) == [p EXCEPT !.crit = IF c THEN @ + 1 ELSE @,
                          !.heap = IF c THEN @ ELSE @ + 1]

object_free_keep(p, c) ==           \* mutant: critical memory is kept in the free list
    LET q == [p EXCEPT !.cur = @ - 1, !.soul.used = @ - 1]
    IN  IF q.soul.total > q.soul.newmin
        THEN [_sfree(q, c) EXCEPT !.soul.total = @ - 1]
        ELSE [q EXCEPT !.soul.next = <<c>> \o @]
object_free(p, c) ==
    LET q == [p EXCEPT !.cur = @ - 1, !.soul.used = @ - 1]
    IN  IF q.soul.total > q.soul.newmin \/ c
        THEN [_sfree(q, c) EXCEPT !.soul.total = @ - 1]
        ELSE [q EXCEPT !.soul.next = <<c>> \o @]

RECURSIVE FreeAll(_, _)
FreeAll(p, s) == IF s = <<>> THEN p
                 ELSE FreeAll(IF Head(s).type = Thread THEN p
                              ELSE object_free(p, Head(s).crit), Tail(s))
Freed(s) == /\ SetPool(FreeAll(Pool, s))
            /\ refused' = "no"
-----------------------------------------------------------------------------
\* The list.
pril_add(q, e) ==
    SelectSeq(q, LAMBDA x : PRIL_PRIORITY(x) >= PRIL_PRIORITY(e)) \o <<e>>
        \o SelectSeq(q, LAMBDA x : PRIL_PRIORITY(x) < PRIL_PRIORITY(e))

Level(q, n) == {i \in DOMAIN q : PRIL_PRIORITY(q[i]) = n}
FirstOf(S) == CHOOSE i \in S : \A j \in S : i <= j
LastOf(S) == CHOOSE i \in S : \A j \in S : j <= i

\* A send-blocked thread never matches: the code does not test the type, but
\* the id of a pulse is never a CPU number, which a thread has in its place.
Same(e, code) == e.type # Thread /\ e.code = code

\* The entry a REPLACE overwrites: from the head of the level on, as long as
\* the priorities are equal; none when there is no such entry.
Replaced_fault(q, n, prio, code) ==     \* mutant: from the first of the priority, boosted or not
    {i \in DOMAIN q : q[i].priority = prio /\ Same(q[i], code)}
Replaced(q, n, prio, code) ==
    {i \in DOMAIN q :
        /\ Level(q, n) # {} /\ i >= FirstOf(Level(q, n))
        /\ \A j \in FirstOf(Level(q, n)) .. i : q[j].priority = prio
        /\ Same(q[i], code)}

\* The entry a pulse is compressed into: only the last of its level.
Compress_first(q, n, code, v) ==    \* mutant: any equal entry of the level
    {i \in Level(q, n) : Same(q[i], code) /\ q[i].val = v /\ q[i].count < _PULSE_COUNT_MAX}
Compress(q, n, code, v) ==
    {i \in Level(q, n) : /\ i = LastOf(Level(q, n))
                         /\ Same(q[i], code) /\ q[i].val = v
                         /\ q[i].count < _PULSE_COUNT_MAX}

\* pulse_add on the list q, which becomes qnext.  `how' has the flags: replace,
\* boost, critical (pulse_souls.flags at the time) and no_limits.
pulse_add(q, qnext, type, prio, code, v, how) ==
    LET n == prio + (IF how.boost THEN NUM_PRI ELSE 0)
        it == [type |-> type, rank |-> n, code |-> code, val |-> v, replace |-> how.replace]
        R == IF how.replace THEN Replaced(q, n, prio, code) ELSE {}
        C == IF how.replace THEN {} ELSE Compress(q, n, code, v)
        New(c) == [type |-> type, first |-> how.boost, priority |-> prio, code |-> code,
                   val |-> v, count |-> 1, crit |-> c, user |-> ~how.critical]
    IN  \/ /\ R # {}
           /\ qnext = [q EXCEPT ![FirstOf(R)].val = v] /\ accepted' = it
           /\ UNCHANGED pool
        \/ /\ C # {}
           /\ qnext = [q EXCEPT ![FirstOf(C)].count = @ + 1] /\ accepted' = it
           /\ UNCHANGED pool
        \/ /\ R = {} /\ C = {}
           /\ \/ /\ object_alloc(how.critical, how.no_limits, <<>>)
                 /\ qnext = q /\ accepted' = None
              \/ \E c \in BOOLEAN :
                 /\ object_alloc(how.critical, how.no_limits, <<c>>)
                 /\ qnext = pril_add(q, New(c)) /\ accepted' = it

\* Number of pulses, signals and threads in a list: a compressed entry counts
\* for each of its pulses.
RECURSIVE Size(_)
Size(q) == IF q = <<>> THEN 0 ELSE Head(q).count + Size(Tail(q))

\* pulse_deliver, for a user (MsgSendPulse) without and for the kernel with
\* access to the critical heap.
pulse_deliver(prio, code, v, critical, boost) ==
    /\ Size(send_queue) < MaxSend
    /\ \/ /\ receiver # "busy"
          /\ receiver' = "busy" /\ accepted' = None
          /\ UNCHANGED <<lists, pool, others, terming>>
       \/ /\ receiver = "busy" /\ terming
          /\ accepted' = None
          /\ UNCHANGED <<lists, pool, server>>
       \/ /\ receiver = "busy" /\ ~terming
          /\ pulse_add(send_queue, send_queue', "pulse", prio, code, v,
                       [replace |-> FALSE, boost |-> boost, critical |-> critical,
                        no_limits |-> FALSE])
          /\ UNCHANGED <<sig_pending, server>>

\* pulse_remove of the entry at i.
Less(q, i) == IF q[i].count = 1 THEN RemoveAt(q, i) ELSE [q EXCEPT ![i].count = @ - 1]
pulse_remove(q, qnext, i) ==
    /\ qnext = Less(q, i) /\ accepted' = None
    /\ IF q[i].count = 1 THEN Freed(<<q[i]>>) ELSE UNCHANGED pool
-----------------------------------------------------------------------------
MsgSendPulse(prio, code, v) == pulse_deliver(prio, code, v, FALSE, FALSE)

\* An event or a notification of the kernel; a disconnect pulse is boosted.
sigevent_pulse(prio, code, v, boost) == pulse_deliver(prio, code, v, TRUE, boost)

\* A client that sends while nobody waits for its message; not to a process
\* that is dying.
MsgSend(prio) ==
    /\ Size(send_queue) < MaxSend /\ ~terming
    /\ IF receiver = "any"
       THEN receiver' = "busy" /\ accepted' = None /\ UNCHANGED lists
       ELSE /\ send_queue' = pril_add(send_queue,
                 [type |-> Thread, first |-> FALSE, priority |-> prio, code |-> NoCode,
                  val |-> Thread, count |-> 1, crit |-> FALSE, user |-> TRUE])
            /\ accepted' = [None EXCEPT !.rank = prio]
            /\ UNCHANGED <<sig_pending, receiver>>
    /\ UNCHANGED <<pool, others, terming>>

\* MsgReceive takes the first entry, MsgReceivePulse the first pulse.
MsgReceive(what) ==
    LET I == {i \in DOMAIN send_queue : what = "any" \/ send_queue[i].type # Thread}
    IN  /\ receiver = "busy"
        /\ \/ /\ I = {}
              /\ receiver' = what /\ accepted' = None
              /\ UNCHANGED <<lists, pool, others, terming>>
           \/ /\ I # {}
              /\ IF send_queue[FirstOf(I)].type = Thread
                 THEN send_queue' = RemoveAt(send_queue, FirstOf(I)) /\ accepted' = None /\ UNCHANGED pool
                 ELSE pulse_remove(send_queue, send_queue', FirstOf(I))
              /\ UNCHANGED <<sig_pending, server>>

\* remove_unblock: the server replied, the unblock pulses for it go.  They are
\* known by their code and by their value, the rcvid; the id is not compared.
remove_unblock(code, v) ==
    LET Gone(e) == e.type = "pulse" /\ e.code[1] = code /\ e.val = v
    IN  /\ \E i \in DOMAIN send_queue : Gone(send_queue[i])
        /\ send_queue' = SelectSeq(send_queue, LAMBDA e : ~Gone(e))
        /\ Freed(SelectSeq(send_queue, Gone)) /\ accepted' = None
        /\ UNCHANGED <<sig_pending, server>>

\* One turn of the loop of ChannelDestroy over the send queue.
ChannelDestroy ==
    /\ terming /\ send_queue # <<>>
    /\ send_queue' = Tail(send_queue)
    /\ Freed(<<Head(send_queue)>>) /\ accepted' = None
    /\ UNCHANGED <<sig_pending, server>>
-----------------------------------------------------------------------------
\* A signal that cannot be handled at once.  `queued' is the bit of sig_queue
\* that SignalAction sets; a signal without it, and SI_TIMER, replaces.
signal_kill(signo, code, v, critical, queued) ==
    /\ Size(sig_pending) < MaxSig
    /\ pulse_add(sig_pending, sig_pending', "signal", signo, code, v,
                 [replace |-> ~queued, boost |-> FALSE, critical |-> critical,
                  no_limits |-> FALSE])
    /\ UNCHANGED <<send_queue, server>>

\* A fault of the thread.  It is handled before the thread runs on, so a
\* second one cannot find it pending (deliver_fault crashes if it does).
deliver_fault(signo, code, v) ==
    /\ \A i \in DOMAIN sig_pending : ~sig_pending[i].first
    /\ Size(sig_pending) < MaxSig /\ cur < max + MaxSig
    /\ pulse_add(sig_pending, sig_pending', "signal", signo, code, v,
                 [replace |-> FALSE, boost |-> TRUE, critical |-> TRUE, no_limits |-> TRUE])
    /\ UNCHANGED <<send_queue, server>>

\* The handler is started, or SignalWaitinfo returns: for the first signal
\* that is not blocked, which may be any one in the list.
signal_take(i) ==
    /\ i \in DOMAIN sig_pending
    /\ \A j \in 1 .. i - 1 : sig_pending[j].priority # sig_pending[i].priority
    /\ pulse_remove(sig_pending, sig_pending', i)
    /\ UNCHANGED <<send_queue, server>>

\* The signal becomes ignored: the entries of its level go.
signal_discard(signo) ==
    LET Gone(e) == ~e.first /\ e.priority = signo
    IN  /\ \E i \in DOMAIN sig_pending : Gone(sig_pending[i])
        /\ sig_pending' = SelectSeq(sig_pending, LAMBDA e : ~Gone(e))
        /\ Freed(SelectSeq(sig_pending, Gone)) /\ accepted' = None
        /\ UNCHANGED <<send_queue, server>>

\* The last thread ends: its signals are purged and the process is TERMING.
thread_destroyed ==
    /\ ~terming
    /\ terming' = TRUE
    /\ receiver' = "busy"
    /\ sig_pending' = <<>>
    /\ Freed(sig_pending) /\ accepted' = None
    /\ UNCHANGED <<send_queue, others>>

\* Other users of the kernel heap take and give back blocks.
HeapUse ==
    /\ \/ heap > 0 /\ heap' = heap - 1 /\ others' = others + 1
       \/ others > 0 /\ heap' = heap + 1 /\ others' = others - 1
    /\ accepted' = None
    /\ UNCHANGED <<lists, soul, crit, cur, refused, receiver, terming>>

Next ==
    \/ \E prio \in Prio : MsgSend(prio)
    \/ \E prio \in Prio, code \in Code, v \in Val :
          \/ MsgSendPulse(prio, code, v)
          \/ \E boost \in BOOLEAN : sigevent_pulse(prio, code, v, boost)
          \/ \E critical, queued \in BOOLEAN : signal_kill(prio, code, v, critical, queued)
          \/ deliver_fault(prio, code, v)
    \/ \E what \in {"any", "pulse"} : MsgReceive(what)
    \/ \E code \in Code, v \in Val : remove_unblock(code[1], v)
    \/ \E i \in DOMAIN sig_pending : signal_take(i)
    \/ \E signo \in Prio : signal_discard(signo)
    \/ thread_destroyed \/ ChannelDestroy \/ HeapUse

Spec == Init /\ [][Next]_vars
-----------------------------------------------------------------------------
Held == SelectSeq(send_queue \o sig_pending, LAMBDA e : e.type # Thread)
CritIn(s) == Len(SelectSeq(s, LAMBDA c : c))

\* What intrevent_add reads as `pulse_souls.total - pulse_souls.used', the
\* number of pulses it can have without allocating memory, is the length of
\* the free list; and no block of either heap is lost or in two places, in
\* whatever order queues are received, discarded, purged and destroyed.
PoolExact ==
    LET heldcrit == Len(SelectSeq(Held, LAMBDA e : e.crit))
    IN  /\ soul.used = Len(Held)
        /\ soul.total - soul.used = Len(soul.next)
        /\ crit + heldcrit + CritIn(soul.next) = CRIT_SIZE
        /\ heap + others + (Len(Held) - heldcrit)
             + (Len(soul.next) - CritIn(soul.next)) = Heap

\* The critical heap is there for the kernel's own pulses: none of its blocks
\* idles in the free list, where the next MsgSendPulse would get it, and none
\* is held by an entry that a user request made.
CritReserved ==
    /\ CritIn(soul.next) = 0
    /\ \A i \in DOMAIN Held : Held[i].crit => ~Held[i].user

\* The count of the limits never falls below the objects that are charged to
\* it, so that object_free does not count below zero (it would crash).
NeverShort == cur >= Len(Held)

\* "Check to make sure prp has not exceeded its limits": a request is refused
\* for the limit only when the process holds that many pulses.
RefusedAtLimit == refused = "limit" => Len(Held) >= max

\* The lists with every compressed entry written out.
Expand(q) == FlattenSeq([i \in DOMAIN q |->
    [k \in 1 .. q[i].count |-> [type |-> q[i].type, rank |-> PRIL_PRIORITY(q[i]),
                                code |-> q[i].code, val |-> q[i].val]]])
AcceptedIf(T) == IF accepted.type \in T THEN accepted ELSE None

\* Only MsgReceivePulse passes over anything, and only over messages.
PassesMessage(x, y) == x.type = Thread /\ y.type # Thread

\* Compression is invisible: a channel's pulses and messages are received as
\* if each stood in the queue by itself, the first of the highest rank first,
\* none lost, none changed and none twice, also when a counter is at
\* _PULSE_COUNT_MAX.
Channel == INSTANCE PulseQueue WITH queue <- Expand(send_queue), closed <- terming,
                                 accepted <- AcceptedIf({"pulse", Thread}),
                                 Passes <- PassesMessage
ChannelInOrder == Channel!Spec

\* A signal is passed over when its number is blocked.
PassesNumber(x, y) == x.rank % NUM_PRI # y.rank % NUM_PRI

\* The same for signals, where a signal that does not queue takes the place of
\* the earlier one of the same number, code and sender, and of no other: not
\* of another number's, and not of a fault of its own number, which stands
\* before it.
Signals == INSTANCE PulseQueue WITH queue <- Expand(sig_pending), closed <- terming,
                                 accepted <- AcceptedIf({"signal"}),
                                 Passes <- PassesNumber
SignalsInOrder == Signals!Spec
=============================================================================
