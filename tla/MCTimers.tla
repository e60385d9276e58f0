------------------------------ MODULE MCTimers ------------------------------
(***************************************************************************)
(* An instance of Timers for TLC, in scenarios that are chosen once:       *)
(*   lists   two timers on the queue the kernel starts with, scheduled     *)
(*           fairly;                                                       *)
(*   queues  one timer, while ClockPeriod replaces the queue by another    *)
(*           and the thread of the timer may end;                          *)
(*   full    one timer on one queue, when intrevent_add may find no        *)
(*           INTREVENT that is free.                                       *)
(***************************************************************************)
EXTENDS Timers

CONSTANTS t1, t2, q1, q2

VARIABLE scenario

MCTimers == {t1, t2}
MCQueues == {q1, q2}

OneQueue == live' \cap Queue = {Queue0}
OneTimer == t2 \notin live'
NoOrphan == orphan' = {}

NoRoom == INSTANCE Timers WITH Full <- BOOLEAN

MCvars == <<vars, scenario>>
MCInit == Init /\ scenario \in {"lists", "queues", "full"}
MCNext ==
    /\ \/ scenario = "lists" /\ Next /\ OneQueue /\ NoOrphan
       \/ scenario = "queues" /\ Next /\ OneTimer
       \/ scenario = "full" /\ NoRoom!Next /\ OneQueue /\ OneTimer
    /\ UNCHANGED scenario

\* In "lists" a kernel call that does not wait goes on, and so does the interrupt; a tick ends,
\* since the list has an end and timers are rearmed for later; one that ended finds the kernel
\* in its wait, for ticks are rare; and queued events are delivered.
Fair(A) == scenario = "lists" /\ A /\ OneQueue /\ NoOrphan
MCSpec ==
    /\ MCInit /\ [][MCNext]_MCvars
    /\ SF_vars(Fair(Kernel)) /\ SF_vars(Fair(intrevent_drain))
    /\ WF_vars(Fair(Interrupt)) /\ SF_vars(Fair(expiry_break))

\* TimerSettime tells its caller by nsec = 0 that the event of the timer was queued, and only
\* then, as long as intrevent_add finds an INTREVENT that is free.
SettimeTold == scenario # "full" => DeactivateTold

\* A timer that fired while the kernel was using the lists, and was put on the pending list
\* by timer_fire, is taken off it by timer_pending in the end.
TimerIsServed == (scenario = "lists" /\ pending[t1] # NIL) ~> pending[t1] = NIL
=============================================================================
