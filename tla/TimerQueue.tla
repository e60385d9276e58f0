----------------------------- MODULE TimerQueue -----------------------------
(***************************************************************************)
(* One timer queue (nano_timer.c): timers are kept in slots by the low     *)
(* bits of their time, and every tick of the clock examines the slots from *)
(* fire_idx to that of the present time.  The time may be set forward      *)
(* between two ticks, as the time of day may, and a queue starts with its  *)
(* indices at 0 whatever the time is.                                      *)
(*                                                                         *)
(* Only the low bits of the time and differences of times matter, so the   *)
(* time is kept modulo a whole rotation of the slots and the time of a     *)
(* timer is what is left of it; the model has no end of time.              *)
(***************************************************************************)
EXTENDS Integers, Sequences, FiniteSets, SequencesExt

CONSTANTS
    Timer,       \* timers
    mask,        \* number of slots - 1
    width,       \* 2^downshift: the time a slot stands for
    nsec_inc,    \* what a tick adds to the time
    MaxFires,    \* how many timers are fired before a tick gives up (50)
    Soft,        \* timers of CLOCK_SOFTTIME
    MaxLate,     \* bound: nothing that delays a timer more happens while one is later than this
    Aheads,      \* how far in the future a timer is set, or in the past for an absolute one
    Intervals,   \* intervals of timers, 0 for none
    Jumps        \* by how much the time may be set forward

ASSUME TimerQueueAssumption ==
    /\ mask \in Nat /\ width \in Nat \ {0} /\ nsec_inc \in 1 .. width
    /\ MaxFires \in Nat \ {0} /\ MaxLate \in Nat
    /\ Aheads \subseteq Int /\ Soft \subseteq Timer /\ Intervals \subseteq Nat /\ Jumps \subseteq Nat

VARIABLES
    phase,        \* the time, modulo a rotation
    slot,         \* the slots, each a list sorted by time
    left,         \* itime.nsec of the timers, minus the time
    every,        \* itime.interval_nsec of the timers, or 0
    fire_idx, last_tick_idx,
    nfires,       \* how many timers the last tick fired
    since,        \* by how much the time was set forward since the last tick, or -1
    idle,         \* of the slots: ticks that have left a timer due and fired none, since the
                  \* time was set
    punctual      \* timers that were to come at the last tick, or were set to come since it,
                  \* with no jump of the time since

vars == <<phase, slot, left, every, fire_idx, last_tick_idx, nfires, since, idle, punctual>>

Rotation == (mask + 1) * width

\* GET_QUEUE_IDX
Idx(t) == (t \div width) % (mask + 1)

In(sl) == UNION {ToSet(sl[i]) : i \in 0 .. mask}
Armed == In(slot)

TypeOK ==
    /\ phase \in 0 .. Rotation - 1 /\ slot \in [0 .. mask -> Seq(Timer)] /\ left \in [Timer -> Int] /\ every \in [Timer -> Nat]
    /\ fire_idx \in 0 .. mask /\ last_tick_idx \in 0 .. mask /\ nfires \in Nat /\ since \in Nat \cup {-1}
    /\ idle \in [0 .. mask -> Nat] /\ punctual \subseteq Timer

\* A queue that new_queue has just made, at any time
Init ==
    /\ phase \in 0 .. Rotation - 1 /\ slot = [i \in 0 .. mask |-> <<>>]
    /\ left = [t \in Timer |-> 0] /\ every = [t \in Timer |-> 0]
    /\ fire_idx = 0 /\ last_tick_idx = 0
    /\ nfires = 0 /\ since = -1 /\ idle = [i \in 0 .. mask |-> 0] /\ punctual = {}

-----------------------------------------------------------------------------

\* timer_insert: behind the timers of its slot that are not later; the time is p
Insert(sl, lf, t, p) ==
    LET i == Idx(p + lf[t])
        n == Cardinality({k \in DOMAIN sl[i] : lf[sl[i][k]] <= lf[t]})
    IN  [sl EXCEPT ![i] = InsertAt(@, n + 1, t)]

\* timer_rearm: an interval is not shorter than a tick.
Period(iv) == IF iv < nsec_inc THEN nsec_inc ELSE iv

\* timer_rearm: what is left of the next period, also when that is over; a soft timer
\* starts again from the present time then.
Rearmed(t, lf, iv) ==
    IF t \in Soft /\ lf + Period(iv) < 0 THEN Period(iv) ELSE lf + Period(iv)

\* timer_activate: an absolute timer whose time is past is fired at once and, if it has an
\* interval, rearmed.
timer_activate(t, ahead, iv) ==
    /\ t \notin Armed
    /\ IF ahead <= 0 /\ iv = 0
       THEN UNCHANGED <<left, every, slot, punctual>>
       ELSE /\ left' = [left EXCEPT ![t] = IF ahead > 0 THEN ahead ELSE Rearmed(t, ahead, iv)]
            /\ every' = [every EXCEPT ![t] = iv]
            /\ slot' = Insert(slot, left', t, phase)
            /\ punctual' = IF fire_idx = Idx(phase) /\ left'[t] > 0 THEN punctual \cup {t} ELSE punctual
    /\ UNCHANGED <<phase, fire_idx, last_tick_idx, nfires, since, idle>>

timer_deactivate(t) ==
    /\ t \in Armed
    /\ slot' = [i \in 0 .. mask |-> SelectSeq(slot[i], LAMBDA u : u # t)]
    /\ left' = [left EXCEPT ![t] = 0]
    /\ every' = [every EXCEPT ![t] = 0]
    /\ punctual' = punctual \ {t}
    /\ idle' = [i \in 0 .. mask |-> IF slot'[i] = <<>> THEN 0 ELSE idle[i]]
    /\ UNCHANGED <<phase, fire_idx, last_tick_idx, nfires, since>>

\* ClockTime, for the queue of absolute times
ker_clock_time(d) ==
    /\ \A t \in Armed : d - left[t] <= MaxLate
    /\ since <= MaxLate
    /\ phase' = (phase + d) % Rotation
    /\ left' = [t \in Timer |-> IF t \in Armed THEN left[t] - d ELSE 0]
    /\ since' = IF since = -1 THEN -1 ELSE since + d
    /\ punctual' = {}
    /\ idle' = [i \in 0 .. mask |-> 0]
    /\ UNCHANGED <<slot, every, fire_idx, last_tick_idx, nfires>>

\* timer_fire of the first timer of slot i
timer_fire(s, i, p) ==
    LET t    == Head(s.slot[i])
        rest == [s.slot EXCEPT ![i] = Tail(@)]
        lf   == [s.left EXCEPT ![t] = Rearmed(t, @, every[t])]
        f    == [s EXCEPT !.n = @ + 1, !.fired = @ \cup {i}]
    IN  IF every[t] = 0 THEN [f EXCEPT !.slot = rest]
        ELSE [f EXCEPT !.slot = Insert(rest, lf, t, p), !.left = lf]

\* The timers of slot i that are due are fired.  After more than `most' in this tick, in
\* whichever slots, each slot is left after its first one.
RECURSIVE Slot(_, _, _, _)
Slot(s, i, p, most) ==
    IF s.slot[i] = <<>> \/ s.left[Head(s.slot[i])] > 0 THEN s
    ELSE LET f == timer_fire(s, i, p)
         IN  IF f.n > most THEN f ELSE Slot(f, i, p, most)

\* Mutant: the walk over the slots is cut off too.
RECURSIVE Slots_cut(_, _, _, _)
Slots_cut(s, i, p, most) ==
    LET f == Slot(s, i, p, most)
    IN  IF i = Idx(p) \/ f.n > most THEN f ELSE Slots_cut(f, (i + 1) % (mask + 1), p, most)

\* The slots from i to the one of the present time
RECURSIVE Slots(_, _, _, _)
Slots(s, i, p, most) ==
    LET f == Slot(s, i, p, most)
    IN  IF i = Idx(p) THEN f ELSE Slots(f, (i + 1) % (mask + 1), p, most)

\* Mutant: only the present slot is examined.
First_curr(curr) == curr

\* Where the walk starts: with all slots to examine, behind the present one
First(curr) ==
    LET count == ((last_tick_idx - fire_idx) % (mask + 1)) + ((curr - last_tick_idx) % (mask + 1))
    IN  IF count > mask THEN (curr + 1) % (mask + 1) ELSE fire_idx

FireIdx(curr) == curr

\* The clock interrupt: a tick is added to the time, then timer_expiry, which gives up after
\* more than MaxFires timers or, earlier, when the queue of interrupt events is near its end.
timer_expiry(most) ==
    LET p    == (phase + nsec_inc) % Rotation
        lf   == [t \in Timer |-> IF t \in Armed THEN left[t] - nsec_inc ELSE 0]
        s0   == [slot |-> slot, left |-> lf, n |-> 0, fired |-> {}]
        s    == IF Armed = {} THEN s0 ELSE Slots(s0, First(Idx(p)), p, most)
        up   == In(s.slot)
    IN  /\ most < MaxFires => \A t \in Armed : -left[t] <= MaxLate
        /\ phase' = p /\ slot' = s.slot /\ nfires' = s.n
        /\ left' = [t \in Timer |-> IF t \in up THEN s.left[t] ELSE 0]
        /\ every' = [t \in Timer |-> IF t \in up THEN every[t] ELSE 0]
        /\ idle' = [i \in 0 .. mask |->
                       IF i \notin s.fired /\ s.slot[i] # <<>> /\ s.left[Head(s.slot[i])] <= 0
                       THEN idle[i] + 1 ELSE 0]
        /\ punctual' = {t \in up : s.left[t] > 0 \/ (t \in punctual /\ s.n <= most)}
        /\ fire_idx' = FireIdx(Idx(p))
        /\ last_tick_idx' = Idx(p)
        /\ since' = 0

Next ==
    \/ \E t \in Timer : \/ \E a \in Aheads, iv \in Intervals : timer_activate(t, a, iv)
                        \/ timer_deactivate(t)
    \/ \E d \in Jumps : ker_clock_time(d)
    \/ \E most \in 0 .. MaxFires : timer_expiry(most)

Spec == Init /\ [][Next]_vars

-----------------------------------------------------------------------------
(* Properties *)

\* A tick that is not cut off fires every timer that became due since the last one, unless the
\* time was set forward in between or the queue is new: the slots from fire_idx on are all that
\* can hold one.  (A timer rearmed to a time that is past may be in any slot.)
OnTime == \A t \in punctual : left[t] > 0

\* In any case a slot that holds a timer that is due comes by within a rotation of ticks, at a
\* time that is not set, and then fires its first one, also in a tick that is cut off: a timer
\* waits for the earlier ones of its slot, one for each rotation, and no longer.
SlotServed == \A i \in 0 .. mask : idle[i] * nsec_inc < Rotation + nsec_inc

\* Every timer is in the slot that its time selects, and a slot is sorted: what the break at
\* the first timer that is not due relies on.
SlotsSorted ==
    \A i \in 0 .. mask : \A k \in DOMAIN slot[i] :
        /\ Idx(phase + left[slot[i][k]]) = i
        /\ k > 1 => left[slot[i][k - 1]] <= left[slot[i][k]]

\* "Only fire up to 50 timers in one interrupt to minimize the latency"
AtMostMaxFires == nfires <= MaxFires

\* "We've wrapped around, have to examine all the slots": a tick that finds the time more than
\* a whole rotation further on than the last one fires every timer that is due.
WrapExaminesAll ==
    [][since >= Rotation /\ since' = 0 /\ nfires' <= MaxFires
         => \A t \in Armed : left[t] <= 0 => t \notin Armed' \/ left'[t] > left[t] - nsec_inc]_vars
=============================================================================
