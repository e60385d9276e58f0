-------------------------- MODULE IntrEventProofs --------------------------
(***************************************************************************)
(* Proofs about the queue of interrupt events, for behaviours in which     *)
(* intrevent_error kills no process: what it does to the list, leaving out *)
(* the entries of one process, is defined by recursion over the list.      *)
(***************************************************************************)
EXTENDS IntrEvent, SequenceTheorems, FiniteSetTheorems, TLAPS

CalmNext == Next /\ \A l \in Level : ~error_cancel(l)
CalmSpec == Init /\ [][CalmNext]_vars

-----------------------------------------------------------------------------
(* The inductive invariant *)

\* The list: the tail is its last entry, preempt_ev is its first entry if it is on it, and
\* the priority is that of its events or above.
ListInv == tail = Len(pending) /\ PriorityIsQueued /\ PreemptIsFirst

\* A handler that runs has the thread it is attached for.
HandlerInv ==
    \A l \in Level : IF loc[l].pc = "idle" THEN loc[l].thp = NIL ELSE loc[l].thp \in Thread

\* The drain executes events while it has some.
DrainInv == taken # <<>> <=> ker.pc = "exec"

IInv == TypeOK /\ ListInv /\ HandlerInv /\ DrainInv

\* Where the kernel is when it is in the drain
Draining == ker.pc \in {"take", "exec", "more", "unmask"}

\* intrevent_flush for a thread goes on: it is alive and no interrupt is attached for it.
\* Once no handler ran, none runs for it; once the queue was emptied after that, it has no
\* event for the thread.
FlushInv ==
    ker.what \in Thread =>
        /\ ker.what \notin dead /\ \A l \in Level : att[l] # ker.what
        /\ ker.pc \in {"flush", "flushed"} \/ (Draining /\ ker.back \in {"flush", "flushed"})
        /\ (ker.pc = "flushed" \/ (Draining /\ ker.back = "flushed"))
              => \A l \in Level : loc[l].thp # ker.what
        /\ (ker.pc = "flushed" \/ (ker.pc \in {"more", "unmask"} /\ ker.back = "flushed"))
              => \A i \in DOMAIN pending : pending[i][2] # ker.what

DeadInv == NothingForTheDead /\ FlushInv /\ \A l \in Level : att[l] \notin dead

-----------------------------------------------------------------------------
(* The list *)

\* A sequence is one of events if all of its elements are.
LEMMA SeqOfEvents ==
    ASSUME NEW s \in Seq(Entry), \A i \in DOMAIN s : s[i] # PREEMPT
    PROVE  s \in Seq(Event)
  <1>1. /\ s \in [1 .. Len(s) -> Entry] /\ Len(s) \in Nat /\ DOMAIN s = 1 .. Len(s)
    BY LenProperties
  <1>2. \A i \in 1 .. Len(s) : s[i] \in Event
    BY <1>1 DEF Entry
  <1>3. s = [i \in 1 .. Len(s) |-> s[i]]
    BY <1>1
  <1> QED BY <1>1, <1>2, <1>3, IsASeq

\* What *intrevent_tail = irp does when the tail is the end of the list, as it always is
LEMMA EnqueueAppends ==
    ASSUME TypeOK, tail = Len(pending), NEW e \in Entry, Enqueue(e)
    PROVE  /\ pending' = Append(pending, e) /\ pending' \in Seq(Entry) /\ pending' # <<>>
           /\ Len(pending') = Len(pending) + 1 /\ tail' = Len(pending')
           /\ DOMAIN pending = 1 .. Len(pending) /\ DOMAIN pending' = 1 .. (Len(pending) + 1)
           /\ \A i \in DOMAIN pending : pending'[i] = pending[i]
           /\ pending'[Len(pending) + 1] = e
  <1>1. pending \in Seq(Entry) /\ Len(pending) \in Nat /\ DOMAIN pending = 1 .. Len(pending)
    BY LenProperties DEF TypeOK
  <1>2. pending' = Append(pending, e)
    BY <1>1, SubSeqFull DEF Enqueue
  <1>3. /\ pending' \in Seq(Entry) /\ pending' # <<>> /\ Len(pending') = Len(pending) + 1
        /\ \A i \in 1 .. Len(pending) : pending'[i] = pending[i]
        /\ pending'[Len(pending) + 1] = e
    BY <1>1, <1>2, AppendProperties
  <1>4. DOMAIN pending' = 1 .. (Len(pending) + 1)
    BY <1>3, LenProperties
  <1> QED BY <1>1, <1>2, <1>3, <1>4 DEF Enqueue

\* The list without preempt_ev is one of events, and they are on the list.
LEMMA ListedEvents ==
    ASSUME TypeOK, PreemptIsFirst
    PROVE  /\ Listed \in Seq(Event)
           /\ DOMAIN Listed = 1 .. Len(Listed) /\ Len(Listed) \in Nat
           /\ \A i \in DOMAIN Listed : \E j \in DOMAIN pending : Listed[i] = pending[j]
  <1>1. pending \in Seq(Entry) /\ Len(pending) \in Nat /\ DOMAIN pending = 1 .. Len(pending)
    BY LenProperties DEF TypeOK
  <1>2. CASE pending # <<>> /\ Head(pending) = PREEMPT
    <2>1. Listed = Tail(pending)
      BY <1>2 DEF Listed
    <2>2. /\ Tail(pending) \in Seq(Entry) /\ Len(Tail(pending)) = Len(pending) - 1
          /\ \A i \in 1 .. Len(Tail(pending)) : Tail(pending)[i] = pending[i + 1]
      BY <1>1, <1>2, HeadTailProperties
    <2>3. DOMAIN Tail(pending) = 1 .. Len(Tail(pending)) /\ Len(Tail(pending)) \in Nat
      BY <2>2, LenProperties
    <2>4. \A i \in DOMAIN Tail(pending) : i + 1 \in DOMAIN pending /\ i + 1 # 1 /\ Tail(pending)[i] = pending[i + 1]
      BY <1>1, <2>2, <2>3
    <2>5. \A i \in DOMAIN Tail(pending) : Tail(pending)[i] # PREEMPT
      BY <2>4 DEF PreemptIsFirst
    <2>6. Tail(pending) \in Seq(Event)
      BY <2>2, <2>5, SeqOfEvents, Zenon
    <2> QED BY <2>1, <2>3, <2>4, <2>6, Zenon
  <1>3. CASE ~(pending # <<>> /\ Head(pending) = PREEMPT)
    <2>1. Listed = pending
      BY <1>3 DEF Listed
    <2>2. ASSUME NEW i \in DOMAIN pending, pending[i] = PREEMPT PROVE FALSE
      <3>1. i = 1
        BY <2>2 DEF PreemptIsFirst
      <3>2. pending # <<>> /\ Head(pending) = pending[1]
        BY <1>1, <2>2
      <3> QED BY <1>3, <2>2, <3>1, <3>2
    <2>3. pending \in Seq(Event)
      BY <1>1, <2>2, SeqOfEvents
    <2> QED BY <1>1, <2>1, <2>3
  <1> QED BY <1>2, <1>3

\* An event that is queued is the last of the events on the list.
LEMMA ListedAppends ==
    ASSUME TypeOK, tail = Len(pending), NEW e \in Event, Enqueue(e)
    PROVE  Listed' = Append(Listed, e)
  <1>0. e \in Entry /\ e # PREEMPT
    BY IntrEventAssumption DEF Entry, Event, PREEMPT
  <1>1. pending \in Seq(Entry) /\ pending' = Append(pending, e) /\ pending' # <<>>
    BY <1>0, EnqueueAppends DEF TypeOK
  <1>2. /\ Head(pending') = IF pending = <<>> THEN e ELSE Head(pending)
        /\ Tail(pending') = IF pending = <<>> THEN <<>> ELSE Append(Tail(pending), e)
    BY <1>1, HeadTailAppend
  <1> QED BY <1>0, <1>1, <1>2 DEF Listed

\* preempt_ev is queued as the only entry and adds no event.
LEMMA ListedPreempt ==
    ASSUME TypeOK, tail = Len(pending), pending = <<>>, Enqueue(PREEMPT)
    PROVE  Listed' = <<>> /\ Listed = <<>>
  <1>0. PREEMPT \in Entry
    BY DEF Entry
  <1>1. pending \in Seq(Entry) /\ pending' = Append(pending, PREEMPT) /\ pending' # <<>>
    BY <1>0, EnqueueAppends, Zenon DEF TypeOK
  <1>2. Head(pending') = PREEMPT /\ Tail(pending') = <<>>
    BY <1>1, HeadTailAppend
  <1> QED BY <1>1, <1>2 DEF Listed

-----------------------------------------------------------------------------
(* What the parts of actions do *)

Loc == [pc : {"idle", "add", "mask", "masked", "error", "walk", "cancel"}, thp : Thread \cup {NIL},
        adds : 0 .. MaxAdds, bad : Thread \cup {NIL}]

\* The types of the list and its invariant
ListOK == pending \in Seq(Entry) /\ tail \in 0 .. Len(pending) /\ qprio \in 0 .. NUM_PRI /\ ListInv

LEMMA ListIsOK == ASSUME IInv PROVE ListOK
  BY DEF IInv, ListOK, TypeOK

\* The priority of a thread is one that events can have.
LEMMA PriorityType ==
    ASSUME NEW t \in Thread PROVE priority[t] \in 1 .. NUM_PRI /\ priority[t] \in Nat
  BY IntrEventAssumption

\* Raise makes queued_event_priority at least prio.
LEMMA RaiseRaises ==
    ASSUME TypeOK, NEW prio \in 1 .. NUM_PRI, Raise(prio)
    PROVE  qprio' \in 1 .. NUM_PRI /\ qprio' >= prio /\ qprio' >= qprio
  BY IntrEventAssumption DEF TypeOK, Raise

\* An event with its priority can be queued.
LEMMA AddKeeps ==
    ASSUME IInv, NEW t \in Thread, NEW prio \in 1 .. NUM_PRI, prio >= priority[t],
           Raise(prio), Enqueue(<<"event", t>>)
    PROVE  ListOK'
  <1> DEFINE e == <<"event", t>>
  <1>1. e \in Entry /\ e[2] = t /\ e # PREEMPT
    BY IntrEventAssumption DEF Entry, Event, PREEMPT
  <1>2. /\ pending' \in Seq(Entry) /\ pending' # <<>> /\ Len(pending') = Len(pending) + 1 /\ tail' = Len(pending')
        /\ DOMAIN pending = 1 .. Len(pending) /\ DOMAIN pending' = 1 .. (Len(pending) + 1)
        /\ \A i \in DOMAIN pending : pending'[i] = pending[i]
        /\ pending'[Len(pending) + 1] = e
    BY <1>1, EnqueueAppends DEF IInv, ListInv
  <1>3. qprio' \in 1 .. NUM_PRI /\ qprio' >= prio /\ qprio' >= qprio
    BY RaiseRaises DEF IInv
  <1>4. Len(pending) \in Nat /\ qprio \in Nat /\ \A i \in DOMAIN pending : pending[i] \in Entry
    BY LenProperties, ElementOfSeq DEF IInv, TypeOK
  <1>5. ASSUME NEW i \in DOMAIN pending', pending'[i] # PREEMPT PROVE qprio' >= priority[pending'[i][2]]
    <2>1. CASE i \in DOMAIN pending
      <3>1. pending[i] \in Event /\ pending[i][2] \in Thread
        BY <1>2, <1>4, <1>5, <2>1, Zenon DEF Entry, Event
      <3>2. qprio >= priority[pending[i][2]]
        BY <1>2, <1>5, <2>1 DEF IInv, ListInv, PriorityIsQueued
      <3> QED BY <1>2, <1>3, <1>4, <2>1, <3>1, <3>2, PriorityType
    <2>2. CASE i = Len(pending) + 1
      BY <1>1, <1>2, <1>3, <2>2, PriorityType
    <2> QED BY <1>2, <1>4, <2>1, <2>2
  <1>6. PreemptIsFirst'
    <2>1. ASSUME NEW i \in DOMAIN pending', pending'[i] = PREEMPT PROVE i = 1
      <3>1. i \in DOMAIN pending
        BY <1>1, <1>2, <1>4, <2>1
      <3> QED BY <1>2, <2>1, <3>1 DEF IInv, ListInv, PreemptIsFirst
    <2> QED BY <2>1 DEF PreemptIsFirst
  <1>7. tail' \in 0 .. Len(pending') /\ qprio' \in 0 .. NUM_PRI
    BY <1>2, <1>3, <1>4
  <1> QED BY <1>2, <1>5, <1>6, <1>7 DEF ListOK, ListInv, PriorityIsQueued

\* The handler ends or goes on for the same thread.
LEMMA ReturnKeeps ==
    ASSUME IInv, NEW l \in Level, loc[l].pc # "idle", Return(l)
    PROVE  /\ loc' \in [Level -> Loc] /\ HandlerInv'
           /\ \A m \in Level : m # l => loc'[m] = loc[m]
           /\ loc'[l].thp = NIL \/ loc'[l].thp = loc[l].thp
           /\ loc'[l].pc \in {"idle", "add"}
  <1>1. loc \in [Level -> Loc] /\ loc[l].thp \in Thread /\ MaxAdds \in Nat \ {0}
    BY IntrEventAssumption DEF IInv, TypeOK, Loc, HandlerInv
  <1>2. CASE loc' = [loc EXCEPT ![l] = Idle]
    BY <1>1, <1>2 DEF Idle, Loc, HandlerInv, IInv
  <1>3. CASE /\ loc[l].adds < MaxAdds
             /\ loc' = [loc EXCEPT ![l] = [Idle EXCEPT !.pc = "add", !.thp = loc[l].thp, !.adds = loc[l].adds + 1]]
    <2>1. loc[l].adds \in 0 .. MaxAdds
      BY <1>1 DEF Loc
    <2>2. loc[l].adds + 1 \in 0 .. MaxAdds
      BY <1>1, <1>3, <2>1
    <2>3. loc'[l] = [pc |-> "add", thp |-> loc[l].thp, adds |-> loc[l].adds + 1, bad |-> NIL]
      BY <1>1, <1>3, Zenon DEF Idle
    <2>4. loc'[l] \in Loc
      BY <1>1, <2>2, <2>3 DEF Loc
    <2> QED BY <1>1, <1>3, <2>3, <2>4, Zenon DEF HandlerInv, IInv
  <1> QED BY <1>2, <1>3 DEF Return

\* A handler goes on in another place, for the same thread.
LEMMA GotoKeeps ==
    ASSUME IInv, NEW l \in Level, loc[l].pc # "idle",
           NEW pc \in {"add", "mask", "masked", "error", "walk", "cancel"}, Goto(l, pc)
    PROVE  /\ loc' \in [Level -> Loc] /\ HandlerInv'
           /\ \A m \in Level : loc'[m].thp = loc[m].thp /\ (m # l => loc'[m] = loc[m])
           /\ loc'[l].pc = pc
  <1>1. loc \in [Level -> Loc] /\ loc[l].thp \in Thread
    BY DEF IInv, TypeOK, Loc, HandlerInv
  <1>2. loc' = [loc EXCEPT ![l] = [@ EXCEPT !.pc = pc]]
    BY DEF Goto
  <1>3. [loc[l] EXCEPT !.pc = pc] \in Loc
    BY <1>1, Zenon DEF Loc
  <1> QED BY <1>1, <1>2, <1>3 DEF Loc, HandlerInv, IInv

-----------------------------------------------------------------------------
(* Every action keeps the invariant. *)

\* A step that leaves the list and the drain alone
LEMMA IdleKeeps ==
    ASSUME IInv, UNCHANGED <<list, taken, ker>>
    PROVE  ListInv' /\ DrainInv'
  BY DEF IInv, ListInv, PriorityIsQueued, PreemptIsFirst, DrainInv, list

LEMMA InterruptKeeps == ASSUME IInv, NEW l \in Level, interrupt(l) PROVE IInv'
  <1>1. loc \in [Level -> Loc] /\ att[l] \in Thread /\ 1 \in 0 .. MaxAdds
    <2>1. loc \in [Level -> Loc] /\ att \in [Level -> Thread \cup {NIL}] /\ att[l] # NIL
      BY Zenon DEF IInv, TypeOK, Loc, interrupt
    <2>2. MaxAdds \in Nat \ {0}
      BY IntrEventAssumption
    <2> QED BY <2>1, <2>2
  <1>2. loc' = [loc EXCEPT ![l] = [Idle EXCEPT !.pc = "add", !.thp = att[l], !.adds = 1]]
    BY DEF interrupt
  <1>3. /\ loc'[l] = [pc |-> "add", thp |-> att[l], adds |-> 1, bad |-> NIL]
        /\ \A m \in Level : m # l => loc'[m] = loc[m]
    BY <1>1, <1>2, Zenon DEF Idle
  <1>4. loc' \in [Level -> Loc] /\ HandlerInv'
    <2>1. loc'[l] \in Loc
      BY <1>1, <1>3 DEF Loc
    <2> QED BY <1>1, <1>2, <1>3, <2>1 DEF HandlerInv, IInv
  <1>5. ListInv' /\ DrainInv'
    BY IdleKeeps, Zenon DEF interrupt
  <1>6. masks' \in [Level -> Nat]
    BY DEF IInv, TypeOK, interrupt
  <1>7. TypeOK'
    BY <1>4, <1>6, Zenon DEF IInv, TypeOK, Loc, interrupt, list, drain
  <1> QED BY <1>4, <1>5, <1>7 DEF IInv

LEMMA AddActionKeeps == ASSUME IInv, NEW l \in Level, intrevent_add(l) PROVE IInv'
  <1>1. loc[l].pc = "add" /\ loc[l].thp \in Thread /\ free \in Nat
    BY DEF IInv, TypeOK, HandlerInv, intrevent_add, At
  <1>2. CASE free = 0 /\ Goto(l, "error") /\ UNCHANGED list
    <2>1. loc' \in [Level -> Loc] /\ HandlerInv'
      BY <1>1, <1>2, GotoKeeps
    <2>2. ListInv' /\ DrainInv'
      BY <1>2, IdleKeeps DEF intrevent_add
    <2>3. TypeOK'
      BY <1>2, <2>1 DEF IInv, TypeOK, Loc, intrevent_add, list, drain, intr
    <2> QED BY <2>1, <2>2, <2>3 DEF IInv
  <1>3. CASE free > 0 /\ free' = free - 1 /\ Goto(l, "mask") /\ UNCHANGED <<pending, tail, alloc, qprio>>
    <2>1. loc' \in [Level -> Loc] /\ HandlerInv'
      BY <1>1, <1>3, GotoKeeps
    <2>2. ListInv' /\ DrainInv'
      BY <1>3 DEF intrevent_add, IInv, ListInv, PriorityIsQueued, PreemptIsFirst, DrainInv
    <2>3. free' \in Nat
      BY <1>1, <1>3
    <2>4. TypeOK'
      BY <1>3, <2>1, <2>3 DEF IInv, TypeOK, Loc, intrevent_add, drain, intr
    <2> QED BY <2>1, <2>2, <2>4 DEF IInv
  <1>4. CASE /\ free > 0 /\ free' = free - 1
             /\ Raise(IF free - 1 <= num_pev_trigger THEN NUM_PRI ELSE priority[loc[l].thp])
             /\ Enqueue(<<"event", loc[l].thp>>) /\ Return(l) /\ UNCHANGED alloc
    <2>1. loc' \in [Level -> Loc] /\ HandlerInv'
      BY <1>1, <1>4, ReturnKeeps
    <2>2. PICK prio \in 1 .. NUM_PRI : prio >= priority[loc[l].thp] /\ Raise(prio)
      <3>1. CASE free - 1 <= num_pev_trigger
        BY <1>1, <1>4, <3>1, PriorityType, IntrEventAssumption
      <3>2. CASE ~(free - 1 <= num_pev_trigger)
        BY <1>1, <1>4, <3>2, PriorityType, IntrEventAssumption
      <3> QED BY <3>1, <3>2
    <2>3. ListOK'
      BY <1>1, <1>4, <2>2, AddKeeps, Zenon
    <2>4. DrainInv' /\ free' \in Nat
      BY <1>1, <1>4 DEF intrevent_add, IInv, DrainInv
    <2>5. TypeOK'
      BY <1>4, <2>1, <2>3, <2>4 DEF ListOK, IInv, TypeOK, Loc, intrevent_add, drain, intr
    <2> QED BY <2>1, <2>3, <2>4, <2>5 DEF IInv, ListOK
  <1> QED BY <1>2, <1>3, <1>4 DEF intrevent_add

LEMMA MaskKeeps == ASSUME IInv, NEW l \in Level, interrupt_mask(l) PROVE IInv'
  <1>1. loc' \in [Level -> Loc] /\ HandlerInv'
    BY GotoKeeps DEF interrupt_mask, At
  <1>2. ListInv' /\ DrainInv'
    BY IdleKeeps DEF interrupt_mask
  <1>3. masks' \in [Level -> Nat]
    BY DEF IInv, TypeOK, interrupt_mask
  <1>4. TypeOK'
    BY <1>1, <1>3 DEF IInv, TypeOK, Loc, interrupt_mask, list, drain
  <1> QED BY <1>1, <1>2, <1>4 DEF IInv

LEMMA MaskedKeeps == ASSUME IInv, NEW l \in Level, add_masked(l) PROVE IInv'
  <1>1. loc[l].pc = "masked" /\ loc[l].thp \in Thread
    BY Zenon DEF IInv, TypeOK, HandlerInv, add_masked, At
  <1>2. loc' \in [Level -> Loc] /\ HandlerInv'
    BY <1>1, ReturnKeeps DEF add_masked
  <1>3. NUM_PRI \in 1 .. NUM_PRI /\ NUM_PRI >= priority[loc[l].thp]
    BY <1>1, PriorityType, IntrEventAssumption
  <1>4. ListOK'
    BY <1>1, <1>3, AddKeeps, Zenon DEF add_masked
  <1>5. last_mask' \in -1 .. Levels - 1 /\ flagged' \subseteq Level
    <2>1. last_mask \in -1 .. Levels - 1 /\ flagged \subseteq Level /\ Levels \in Nat
      BY IntrEventAssumption, Zenon DEF IInv, TypeOK
    <2>2. last_mask' = (IF last_mask < l THEN l ELSE last_mask) /\ flagged' = flagged \cup {l}
      BY Zenon DEF add_masked
    <2> QED BY <2>1, <2>2 DEF Level
  <1>6. DrainInv'
    BY Zenon DEF IInv, DrainInv, add_masked
  <1>7. TypeOK'
    BY <1>2, <1>4, <1>5 DEF ListOK, IInv, TypeOK, Loc, add_masked
  <1> QED BY <1>2, <1>4, <1>6, <1>7 DEF IInv, ListOK

LEMMA MarkKeeps == ASSUME IInv, NEW l \in Level, error_mark(l) PROVE IInv'
  <1>1. ListInv' /\ DrainInv'
    BY IdleKeeps DEF error_mark
  <1>2. CASE NoThread
    <2>1. UNCHANGED <<marks, loc>> /\ crashed' = "null"
      BY <1>2, Zenon DEF error_mark
    <2> QED BY <1>1, <2>1 DEF IInv, TypeOK, HandlerInv, error_mark, list, drain, intr
  <1>3. CASE ~NoThread
    <2>1. loc' \in [Level -> Loc] /\ HandlerInv'
      BY <1>3, GotoKeeps, Zenon DEF error_mark, At
    <2>2. ASSUME NEW t \in Thread PROVE Cardinality({i \in DOMAIN pending : pending[i][2] = t}) \in Nat
      <3>1. DOMAIN pending = 1 .. Len(pending) /\ Len(pending) \in Nat
        BY LenProperties, Zenon DEF IInv, TypeOK
      <3>2. IsFiniteSet(DOMAIN pending)
        BY <3>1, FS_Interval
      <3>3. IsFiniteSet({i \in DOMAIN pending : pending[i][2] = t})
        BY <3>2, FS_Subset, Zenon
      <3> QED BY <3>3, FS_CardinalityType, Zenon
    <2>3. marks' \in [Thread -> Nat]
      <3>1. marks' = [t \in Thread |-> IF t \in Killable
                                       THEN marks[t] + Cardinality({i \in DOMAIN pending : pending[i][2] = t}) ELSE 0]
        BY <1>3, Zenon DEF error_mark
      <3>2. \A t \in Thread : marks[t] \in Nat
        BY Zenon DEF IInv, TypeOK
      <3>3. ASSUME NEW t \in Thread
            PROVE  (IF t \in Killable THEN marks[t] + Cardinality({i \in DOMAIN pending : pending[i][2] = t}) ELSE 0) \in Nat
        BY <2>2, <3>2
      <3> QED BY <3>1, <3>3, Zenon
    <2>4. TypeOK'
      BY <1>3, <2>1, <2>3 DEF IInv, TypeOK, Loc, error_mark, list, drain, intr
    <2> QED BY <1>1, <2>1, <2>4, Zenon DEF IInv
  <1> QED BY <1>2, <1>3

LEMMA WalkKeeps == ASSUME IInv, NEW l \in Level, error_walk(l) PROVE IInv'
  <1>1. ListInv' /\ DrainInv'
    BY IdleKeeps DEF error_walk
  <1>2. loc[l].pc = "walk" /\ loc[l].thp \in Thread /\ loc \in [Level -> Loc]
    BY Zenon DEF IInv, TypeOK, Loc, HandlerInv, error_walk, At
  <1>3. loc' \in [Level -> Loc] /\ HandlerInv'
    <2>1. CASE Return(l)
      BY <1>2, <2>1, ReturnKeeps, Zenon
    <2>2. CASE \E t \in Killable : loc' = [loc EXCEPT ![l].pc = "cancel", ![l].bad = t]
      <3>1. PICK t \in Killable : loc' = [loc EXCEPT ![l].pc = "cancel", ![l].bad = t]
        BY <2>2, Zenon
      <3>2. t \in Thread
        BY IntrEventAssumption
      <3>3. loc' = [loc EXCEPT ![l] = [loc[l] EXCEPT !.pc = "cancel", !.bad = t]]
        BY <1>2, <3>1, Zenon
      <3>4. [loc[l] EXCEPT !.pc = "cancel", !.bad = t] \in Loc
        BY <1>2, <3>2, Zenon DEF Loc
      <3> QED BY <1>2, <3>3, <3>4, Zenon DEF Loc, HandlerInv, IInv
    <2> QED BY <2>1, <2>2 DEF error_walk
  <1>4. marks' \in [Thread -> Nat]
    BY DEF error_walk
  <1>5. TypeOK'
    BY <1>3, <1>4 DEF IInv, TypeOK, Loc, error_walk, list, drain, intr
  <1> QED BY <1>1, <1>3, <1>5 DEF IInv

LEMMA PreemptionKeeps ==
    ASSUME IInv, NEW t \in Thread, intrevent_preemption(priority[t] + 1) PROVE IInv'
  <1>1. priority[t] + 1 \in 1 .. NUM_PRI /\ qprio \in 0 .. NUM_PRI /\ qprio < priority[t] + 1 /\ qprio' = priority[t] + 1
    BY IntrEventAssumption DEF IInv, TypeOK, intrevent_preemption
  <1>2. HandlerInv' /\ DrainInv'
    BY Zenon DEF IInv, HandlerInv, DrainInv, intrevent_preemption
  <1>3. pending \in Seq(Entry) /\ Len(pending) \in Nat /\ DOMAIN pending = 1 .. Len(pending)
    BY LenProperties, Zenon DEF IInv, TypeOK
  <1>4. ListOK'
    <2>1. CASE pending = <<>>
      <3>1. Enqueue(PREEMPT) /\ PREEMPT \in Entry
        BY <2>1, Zenon DEF intrevent_preemption, Entry
      <3>2. /\ pending' \in Seq(Entry) /\ pending' # <<>> /\ Len(pending') = Len(pending) + 1 /\ tail' = Len(pending')
            /\ DOMAIN pending' = 1 .. (Len(pending) + 1) /\ pending'[Len(pending) + 1] = PREEMPT
        BY <3>1, EnqueueAppends, Zenon DEF IInv, ListInv
      <3>3. Len(pending) = 0
        BY <2>1, Zenon
      <3>4. \A i \in DOMAIN pending' : i = 1 /\ pending'[i] = PREEMPT
        BY <3>2, <3>3
      <3> QED BY <1>1, <3>2, <3>3, <3>4 DEF ListOK, ListInv, PriorityIsQueued, PreemptIsFirst
    <2>2. CASE pending # <<>>
      <3>1. UNCHANGED <<pending, tail>>
        BY <2>2, Zenon DEF intrevent_preemption
      <3>2. ASSUME NEW i \in DOMAIN pending, pending[i] # PREEMPT PROVE qprio' >= priority[pending[i][2]]
        <4>1. pending[i] \in Event
          BY <1>3, <3>2, ElementOfSeq DEF Entry
        <4>2. pending[i][2] \in Thread
          BY <4>1, Zenon DEF Event
        <4>3. qprio >= priority[pending[i][2]]
          BY <3>2, Zenon DEF IInv, ListInv, PriorityIsQueued
        <4> QED BY <1>1, <4>2, <4>3, PriorityType
      <3>3. PriorityIsQueued'
        BY <2>2, <3>1, <3>2, Zenon DEF PriorityIsQueued
      <3> QED BY <1>1, <3>1, <3>3 DEF IInv, TypeOK, ListOK, ListInv, PreemptIsFirst
    <2> QED BY <2>1, <2>2, Zenon
  <1>5. TypeOK'
    BY <1>4, Zenon DEF ListOK, IInv, TypeOK, intrevent_preemption, drain, intr
  <1> QED BY <1>2, <1>4, <1>5 DEF IInv, ListOK

Ker == [pc : {"out", "take", "exec", "more", "unmask", "flush", "flushed"}, more : BOOLEAN, level : Int,
        back : {"out", "flush", "flushed"}, what : Thread \cup Level \cup {NIL}]

\* The kernel begins to drain the queue.
LEMMA DrainKeeps ==
    ASSUME IInv, NEW back \in {"out", "flush", "flushed"}, ker.pc # "exec", Drain(back), UNCHANGED taken
    PROVE  /\ ker' \in Ker /\ active' \in BOOLEAN /\ last_mask' \in -1 .. Levels - 1 /\ DrainInv'
           /\ ker'.pc = "take" /\ ker'.back = back /\ ker'.what = ker.what
  <1>1. ker \in Ker /\ taken = <<>>
    BY DEF IInv, TypeOK, Ker, DrainInv
  <1>2. ker' = [ker EXCEPT !.pc = "take", !.more = FALSE, !.level = 0, !.back = back]
    BY DEF Drain
  <1>3. ker' \in Ker /\ ker'.pc = "take" /\ ker'.back = back /\ ker'.what = ker.what
    <2>1. ker' = [pc |-> "take", more |-> FALSE, level |-> 0, back |-> back, what |-> ker.what]
      BY <1>1, <1>2, Zenon DEF Ker
    <2>2. ker.what \in Thread \cup Level \cup {NIL} /\ 0 \in Int /\ FALSE \in BOOLEAN
      BY <1>1 DEF Ker
    <2> QED BY <2>1, <2>2 DEF Ker
  <1>4. active' \in BOOLEAN /\ last_mask' \in -1 .. Levels - 1
    BY IntrEventAssumption DEF Drain
  <1> QED BY <1>1, <1>3, <1>4 DEF DrainInv

LEMMA ExitKeeps == ASSUME IInv, ker_exit PROVE IInv'
  <1>1. ker' \in Ker /\ active' \in BOOLEAN /\ last_mask' \in -1 .. Levels - 1 /\ DrainInv'
    BY DrainKeeps, Zenon DEF ker_exit, KerAt
  <1>2. ListInv' /\ HandlerInv'
    BY Zenon DEF IInv, ListInv, PriorityIsQueued, PreemptIsFirst, HandlerInv, ker_exit, list
  <1>3. TypeOK'
    BY <1>1, Zenon DEF IInv, TypeOK, Ker, ker_exit, list, intr
  <1> QED BY <1>1, <1>2, <1>3, Zenon DEF IInv

LEMMA EventAddKeeps == ASSUME IInv, NEW t \in Thread, event_add(t) PROVE IInv'
  <1>1. priority[t] \in 1 .. NUM_PRI /\ priority[t] >= priority[t]
    BY PriorityType
  <1>2. ListOK'
    BY <1>1, AddKeeps, Zenon DEF event_add
  <1>3. HandlerInv' /\ DrainInv'
    BY Zenon DEF IInv, HandlerInv, DrainInv, event_add
  <1>4. free' \in Nat
    <2>1. free \in Nat /\ alloc \in Nat /\ free > (alloc \div 4) + 1 /\ free' = free - 1
      BY IntrEventAssumption DEF IInv, TypeOK, event_add, num_pev_trigger
    <2>2. alloc \div 4 \in Nat
      BY <2>1
    <2> QED BY <2>1, <2>2
  <1>5. TypeOK'
    BY <1>2, <1>4 DEF ListOK, IInv, TypeOK, event_add, drain, intr
  <1> QED BY <1>2, <1>3, <1>5 DEF IInv, ListOK

LEMMA AttachKeeps == ASSUME IInv, NEW l \in Level, NEW t \in Thread, interrupt_attach(l, t) PROVE IInv'
  <1>1. ListInv' /\ DrainInv' /\ HandlerInv'
    BY IdleKeeps, Zenon DEF interrupt_attach, IInv, HandlerInv
  <1>2. att' \in [Level -> Thread \cup {NIL}] /\ masks' \in [Level -> Nat]
    BY Zenon DEF IInv, TypeOK, interrupt_attach
  <1>3. TypeOK'
    BY <1>2, Zenon DEF IInv, TypeOK, interrupt_attach, list, drain
  <1> QED BY <1>1, <1>3 DEF IInv

\* The kernel goes on in another place outside the drain's loop.
LEMMA KerKeeps ==
    ASSUME IInv, ker.pc # "exec", ker' \in Ker, ker'.pc # "exec", UNCHANGED <<list, taken, loc>>
    PROVE  ListInv' /\ DrainInv' /\ HandlerInv'
  BY Zenon DEF IInv, ListInv, PriorityIsQueued, PreemptIsFirst, DrainInv, HandlerInv, list

LEMMA DetachKeeps == ASSUME IInv, NEW l \in Level, interrupt_detach_entry(l) PROVE IInv'
  <1>1. ker' \in Ker /\ ker'.pc = "flush" /\ ker.pc = "out"
    BY Zenon DEF IInv, TypeOK, Ker, interrupt_detach_entry, KerAt
  <1>2. ListInv' /\ DrainInv' /\ HandlerInv'
    BY <1>1, KerKeeps DEF interrupt_detach_entry
  <1>3. att' \in [Level -> Thread \cup {NIL}] /\ masks' \in [Level -> Nat]
    BY Zenon DEF IInv, TypeOK, interrupt_detach_entry
  <1>4. TypeOK'
    BY <1>1, <1>3, Zenon DEF IInv, TypeOK, Ker, interrupt_detach_entry, list, drain
  <1> QED BY <1>2, <1>4 DEF IInv

LEMMA UnmaskCallKeeps == ASSUME IInv, NEW l \in Level, interrupt_unmask(l) PROVE IInv'
  <1>1. ListInv' /\ DrainInv' /\ HandlerInv'
    BY IdleKeeps, Zenon DEF interrupt_unmask, IInv, HandlerInv
  <1>2. masks' \in [Level -> Nat]
    BY DEF IInv, TypeOK, interrupt_unmask
  <1>3. TypeOK'
    BY <1>2, Zenon DEF IInv, TypeOK, interrupt_unmask, list, drain
  <1> QED BY <1>1, <1>3 DEF IInv

\* What thread_destroy does to the interrupts
LEMMA DestroyPasses ==
    ASSUME IInv, NEW t \in Thread, thread_destroy(t)
    PROVE  /\ att' \in [Level -> Thread \cup {NIL}]
           /\ \A l \in Level : att'[l] # t /\ (att'[l] = att[l] \/ att'[l] \notin dead)
  <1>0. att \in [Level -> Thread \cup {NIL}]
    BY Zenon DEF IInv, TypeOK
  <1>1. CASE (\A l \in Level : att[l] # t) /\ UNCHANGED att
    BY <1>0, <1>1, Zenon
  <1>2. CASE \E u \in Thread \ (dead \cup {t}) : att' = [l \in Level |-> IF att[l] = t THEN u ELSE att[l]]
    <2>1. PICK u \in Thread \ (dead \cup {t}) : att' = [l \in Level |-> IF att[l] = t THEN u ELSE att[l]]
      BY <1>2
    <2> QED BY <1>0, <2>1
  <1> QED BY <1>1, <1>2, Zenon DEF thread_destroy

LEMMA DestroyKeeps == ASSUME IInv, NEW t \in Thread, thread_destroy(t) PROVE IInv'
  <1>1. ker' \in Ker /\ ker'.pc = "flush" /\ ker.pc = "out"
    BY Zenon DEF IInv, TypeOK, Ker, thread_destroy, KerAt
  <1>2. ListInv' /\ DrainInv' /\ HandlerInv'
    BY <1>1, KerKeeps DEF thread_destroy
  <1>3. TypeOK'
    BY <1>1, DestroyPasses, Zenon DEF IInv, TypeOK, Ker, thread_destroy, list, drain
  <1> QED BY <1>2, <1>3 DEF IInv

LEMMA FlushKeeps == ASSUME IInv, intrevent_flush PROVE IInv'
  <1>1. ker.pc = "flush" /\ ker \in Ker
    BY DEF IInv, TypeOK, Ker, intrevent_flush, KerAt
  <1>2. ker' \in Ker /\ active' \in BOOLEAN /\ last_mask' \in -1 .. Levels - 1 /\ ker'.pc # "exec"
    <2>1. CASE Drain("flush")
      BY <1>1, <2>1, DrainKeeps, Zenon DEF intrevent_flush
    <2>2. CASE Drain("flushed")
      BY <1>1, <2>2, DrainKeeps, Zenon DEF intrevent_flush
    <2>3. CASE KerGoto("flushed") /\ UNCHANGED drain
      <3>1. ker' \in Ker /\ ker'.pc = "flushed"
        BY <1>1, <2>3, Zenon DEF Ker, KerGoto
      <3> QED BY <2>3, <3>1, Zenon DEF IInv, TypeOK, drain
    <2> QED BY <2>1, <2>2, <2>3, Zenon DEF intrevent_flush
  <1>3. ListInv' /\ DrainInv' /\ HandlerInv'
    BY <1>1, <1>2, KerKeeps, Zenon DEF intrevent_flush
  <1>4. TypeOK'
    BY <1>2, Zenon DEF IInv, TypeOK, Ker, intrevent_flush, list, intr
  <1> QED BY <1>3, <1>4 DEF IInv

LEMMA FlushedKeeps == ASSUME IInv, flushed PROVE IInv'
  <1>1. ker' \in Ker /\ ker'.pc = "out" /\ ker.pc = "flushed"
    BY DEF Ker, KerOut, flushed, KerAt
  <1>2. ListInv' /\ DrainInv' /\ HandlerInv'
    BY <1>1, KerKeeps, Zenon DEF flushed
  <1>3. dead' \subseteq Thread
    BY Zenon DEF IInv, TypeOK, flushed
  <1>4. TypeOK'
    BY <1>1, <1>3, Zenon DEF IInv, TypeOK, Ker, flushed, list, drain, intr
  <1> QED BY <1>2, <1>4 DEF IInv

LEMMA TakeKeeps == ASSUME IInv, drain_take PROVE IInv'
  <1>1. /\ Listed \in Seq(Event) /\ taken' = Listed /\ ker \in Ker
        /\ pending' = <<>> /\ tail' = 0 /\ qprio' = 0
    BY ListedEvents, Zenon DEF IInv, TypeOK, Ker, ListInv, drain_take
  <1>2. PICK m \in BOOLEAN : ker' = [ker EXCEPT !.more = m, !.pc = IF Listed # <<>> THEN "exec" ELSE "more"]
    BY <1>1, Zenon DEF Ker, drain_take
  <1>3. ker' \in Ker /\ ker'.pc = (IF Listed # <<>> THEN "exec" ELSE "more")
    BY <1>1, <1>2, Zenon DEF Ker
  <1>4. DrainInv'
    BY <1>1, <1>3 DEF DrainInv
  <1>5. ListOK'
    <2>1. pending' \in Seq(Entry) /\ Len(pending') = 0 /\ DOMAIN pending' = {}
      BY <1>1, EmptySeq
    <2> QED BY <1>1, <2>1, IntrEventAssumption DEF ListOK, ListInv, PriorityIsQueued, PreemptIsFirst
  <1>6. HandlerInv'
    BY Zenon DEF IInv, HandlerInv, drain_take
  <1>7. TypeOK'
    BY <1>1, <1>3, <1>5, Zenon DEF ListOK, IInv, TypeOK, Ker, drain_take, drain, intr
  <1> QED BY <1>4, <1>5, <1>6, <1>7, Zenon DEF IInv, ListOK

LEMMA ExecKeeps == ASSUME IInv, drain_exec PROVE IInv'
  <1>1. taken \in Seq(Event) /\ taken # <<>> /\ ker \in Ker /\ free \in Nat
    BY DEF IInv, TypeOK, Ker, DrainInv, drain_exec, KerAt
  <1>2. taken' = Tail(taken) /\ taken' \in Seq(Event) /\ free' \in Nat
    BY <1>1, HeadTailProperties DEF drain_exec
  <1>3. ker' \in Ker /\ ker'.pc = (IF taken' = <<>> THEN "take" ELSE "exec")
    BY <1>1, <1>2, Zenon DEF Ker, drain_exec, KerGoto
  <1>4. DrainInv'
    BY <1>3 DEF DrainInv
  <1>5. ListInv' /\ HandlerInv'
    BY Zenon DEF IInv, ListInv, PriorityIsQueued, PreemptIsFirst, HandlerInv, drain_exec
  <1>6. TypeOK'
    BY <1>2, <1>3, Zenon DEF IInv, TypeOK, Ker, drain_exec, drain, intr
  <1> QED BY <1>4, <1>5, <1>6 DEF IInv

LEMMA MoreKeeps == ASSUME IInv, drain_more PROVE IInv'
  <1>1. ker \in Ker /\ ker.pc = "more" /\ taken = <<>> /\ last_mask \in Int /\ free \in Nat /\ alloc \in Nat
    BY IntrEventAssumption DEF IInv, TypeOK, Ker, DrainInv, drain_more, KerAt
  <1>2. ker' \in Ker /\ ker'.pc = "unmask"
    <2>1. ker' = [ker EXCEPT !.more = FALSE, !.pc = "unmask", !.level = last_mask]
      BY DEF drain_more
    <2> QED BY <1>1, <2>1, Zenon DEF Ker
  <1>3. PICK n \in Nat : alloc + n <= MaxAlloc /\ free' = free + n /\ alloc' = alloc + n
    <2>1. PICK n \in (IF ker.more THEN 0 .. (alloc \div 4) ELSE {0}) :
                alloc + n <= MaxAlloc /\ free' = free + n /\ alloc' = alloc + n
      BY Zenon DEF drain_more
    <2>2. n \in Nat
      BY <1>1, <2>1
    <2> QED BY <2>1, <2>2
  <1>4. free' \in Nat /\ alloc' \in num_init .. MaxAlloc
    BY <1>1, <1>3, IntrEventAssumption DEF IInv, TypeOK
  <1>5. ListInv' /\ HandlerInv' /\ DrainInv'
    BY <1>1, <1>2 DEF IInv, ListInv, PriorityIsQueued, PreemptIsFirst, HandlerInv, DrainInv, drain_more
  <1>6. TypeOK'
    BY <1>2, <1>4, Zenon DEF IInv, TypeOK, Ker, drain_more, intr
  <1> QED BY <1>5, <1>6 DEF IInv

LEMMA UnmaskKeeps == ASSUME IInv, drain_unmask PROVE IInv'
  <1>1. ker \in Ker /\ ker.pc = "unmask"
    BY Zenon DEF IInv, TypeOK, Ker, drain_unmask, KerAt
  <1>2. /\ ker' \in Ker /\ ker'.pc # "exec"
        /\ masks' \in [Level -> Nat] /\ flagged' \subseteq Level
    <2>1. CASE ker.level < 0
      <3>1. ker' = [ker EXCEPT !.level = 0, !.pc = ker.back, !.back = "out"] /\ UNCHANGED <<masks, flagged>>
        BY <2>1 DEF drain_unmask
      <3>2. ker' = [pc |-> ker.back, more |-> ker.more, level |-> 0, back |-> "out", what |-> ker.what]
        BY <1>1, <3>1, Zenon DEF Ker
      <3>3. ker.back \in {"out", "flush", "flushed"} /\ ker.more \in BOOLEAN /\ ker.what \in Thread \cup Level \cup {NIL}
        BY <1>1 DEF Ker
      <3>4. ker' \in Ker /\ ker'.pc # "exec"
        BY <3>2, <3>3 DEF Ker
      <3> QED BY <3>1, <3>4, Zenon DEF IInv, TypeOK
    <2>2. CASE ~(ker.level < 0)
      <3>1. ker' = [ker EXCEPT !.level = @ - 1] /\ flagged' = flagged \ {ker.level}
        BY <2>2, Zenon DEF drain_unmask
      <3>2. ker' \in Ker /\ ker'.pc # "exec"
        BY <1>1, <3>1 DEF Ker
      <3>3. masks \in [Level -> Nat] /\ flagged \subseteq Level
        BY Zenon DEF IInv, TypeOK
      <3>4. masks' = IF ker.level \in flagged /\ masks[ker.level] > 0
                     THEN [masks EXCEPT ![ker.level] = masks[ker.level] - 1] ELSE masks
        BY <2>2, Zenon DEF drain_unmask
      <3>5. masks' \in [Level -> Nat]
        BY <3>3, <3>4
      <3> QED BY <3>1, <3>2, <3>3, <3>5
    <2> QED BY <2>1, <2>2, Zenon
  <1>3. ListInv' /\ DrainInv' /\ HandlerInv'
    BY <1>1, <1>2, KerKeeps, Zenon DEF drain_unmask
  <1>4. TypeOK'
    BY <1>2, Zenon DEF IInv, TypeOK, Ker, drain_unmask, list, drain
  <1> QED BY <1>3, <1>4 DEF IInv

-----------------------------------------------------------------------------
(* Nothing is left for a thread that was destroyed. *)

\* New entries of the list are for threads that handlers run for, and new handlers run for
\* threads that an interrupt is attached for.
PendingFrom ==
    \A i \in DOMAIN pending' :
        \/ \E j \in DOMAIN pending : pending'[i] = pending[j]
        \/ pending'[i][2] = NIL \/ \E m \in Level : pending'[i][2] = loc[m].thp
LocFrom == \A m \in Level : loc'[m].thp \in {loc[m].thp, NIL, att[m]}

\* A step that does no more than that keeps the threads that are gone free of events.
LEMMA HandlerStep ==
    ASSUME IInv, DeadInv, PendingFrom, LocFrom, UNCHANGED <<att, taken, ker, dead>>
    PROVE  DeadInv'
  <1>0. NIL \notin Thread /\ dead \subseteq Thread
    BY IntrEventAssumption, Zenon DEF IInv, TypeOK
  <1>1. NothingForTheDead'
    <2>1. \A i \in DOMAIN pending' : pending'[i][2] \notin dead
      BY <1>0, Zenon DEF PendingFrom, DeadInv, NothingForTheDead
    <2>2. \A l \in Level : loc'[l].thp \notin dead
      BY <1>0, Zenon DEF LocFrom, DeadInv, NothingForTheDead
    <2> QED BY <2>1, <2>2, Zenon DEF DeadInv, NothingForTheDead
  <1>2. FlushInv'
    <2> SUFFICES ASSUME ker.what \in Thread PROVE FlushInv'
      BY Zenon DEF FlushInv
    <2>1. /\ ker.what \notin dead /\ \A l \in Level : att[l] # ker.what
          /\ ker.pc \in {"flush", "flushed"} \/ (Draining /\ ker.back \in {"flush", "flushed"})
      BY Zenon DEF DeadInv, FlushInv
    <2>2. ASSUME ker.pc = "flushed" \/ (Draining /\ ker.back = "flushed")
          PROVE  (\A l \in Level : loc[l].thp # ker.what) /\ \A l \in Level : loc'[l].thp # ker.what
      <3>1. \A l \in Level : loc[l].thp # ker.what
        BY <2>2, Zenon DEF DeadInv, FlushInv
      <3> QED BY <1>0, <2>1, <3>1, Zenon DEF LocFrom
    <2>3. ASSUME ker.pc = "flushed" \/ (ker.pc \in {"more", "unmask"} /\ ker.back = "flushed")
          PROVE  \A i \in DOMAIN pending' : pending'[i][2] # ker.what
      <3>1. \A l \in Level : loc[l].thp # ker.what
        BY <2>2, <2>3, Zenon DEF Draining
      <3>2. \A i \in DOMAIN pending : pending[i][2] # ker.what
        BY <2>3, Zenon DEF DeadInv, FlushInv
      <3> QED BY <1>0, <3>1, <3>2, Zenon DEF PendingFrom
    <2> QED BY <2>1, <2>2, <2>3, Zenon DEF FlushInv, Draining
  <1> QED BY <1>1, <1>2 DEF DeadInv

\* A list that is not changed has no new entries.
LEMMA SamePending == ASSUME UNCHANGED pending PROVE PendingFrom
  BY Zenon DEF PendingFrom

\* What Enqueue adds
LEMMA EnqueueFrom ==
    ASSUME IInv, NEW e \in Entry, Enqueue(e)
    PROVE  \A i \in DOMAIN pending' : (\E j \in DOMAIN pending : pending'[i] = pending[j]) \/ pending'[i] = e
  <1>1. /\ Len(pending) \in Nat
        /\ DOMAIN pending = 1 .. Len(pending) /\ DOMAIN pending' = 1 .. (Len(pending) + 1)
        /\ \A i \in DOMAIN pending : pending'[i] = pending[i]
        /\ pending'[Len(pending) + 1] = e
    BY EnqueueAppends, LenProperties, Zenon DEF IInv, TypeOK, ListInv
  <1>2. \A i \in DOMAIN pending' : i \in DOMAIN pending \/ i = Len(pending) + 1
    BY <1>1
  <1> QED BY <1>1, <1>2, Zenon

LEMMA AddFrom ==
    ASSUME IInv, NEW l \in Level, loc[l].thp \in Thread, Enqueue(<<"event", loc[l].thp>>)
    PROVE  PendingFrom
  <1>1. <<"event", loc[l].thp>> \in Entry /\ <<"event", loc[l].thp>>[2] = loc[l].thp
    BY Zenon DEF Entry, Event
  <1>2. \A i \in DOMAIN pending' :
            (\E j \in DOMAIN pending : pending'[i] = pending[j]) \/ pending'[i] = <<"event", loc[l].thp>>
    BY <1>1, EnqueueFrom, Zenon
  <1> QED BY <1>1, <1>2, Zenon DEF PendingFrom

LEMMA HandlersDead ==
    ASSUME IInv, DeadInv, NEW l \in Level,
           interrupt(l) \/ intrevent_add(l) \/ interrupt_mask(l) \/ add_masked(l) \/ error_mark(l) \/ error_walk(l)
    PROVE  DeadInv'
  <1>0. loc \in [Level -> Loc] /\ (loc[l].pc # "idle" => loc[l].thp \in Thread)
    BY Zenon DEF IInv, TypeOK, Loc, HandlerInv
  <1>1. CASE interrupt(l)
    <2>1. LocFrom
      BY <1>0, <1>1, Zenon DEF interrupt, Idle, LocFrom
    <2> QED BY <1>1, <2>1, SamePending, HandlerStep, Zenon DEF interrupt, list, intr
  <1>2. CASE intrevent_add(l)
    <2>0. loc[l].pc = "add"
      BY <1>2, Zenon DEF intrevent_add, At
    <2>1. CASE Goto(l, "error") /\ UNCHANGED list
      <3>1. LocFrom
        BY <2>0, <2>1, GotoKeeps, Zenon DEF LocFrom
      <3> QED BY <1>2, <2>1, <3>1, SamePending, HandlerStep, Zenon DEF intrevent_add, list, intr
    <2>2. CASE Goto(l, "mask") /\ UNCHANGED <<pending, tail, alloc, qprio>>
      <3>1. LocFrom
        BY <2>0, <2>2, GotoKeeps, Zenon DEF LocFrom
      <3> QED BY <1>2, <2>2, <3>1, SamePending, HandlerStep, Zenon DEF intrevent_add, intr
    <2>3. CASE Enqueue(<<"event", loc[l].thp>>) /\ Return(l)
      <3>1. LocFrom
        BY <2>0, <2>3, ReturnKeeps, Zenon DEF LocFrom
      <3>2. PendingFrom
        BY <1>0, <2>0, <2>3, AddFrom, Zenon
      <3> QED BY <1>2, <3>1, <3>2, HandlerStep, Zenon DEF intrevent_add, intr
    <2> QED BY <1>2, <2>1, <2>2, <2>3, Zenon DEF intrevent_add
  <1>3. CASE interrupt_mask(l)
    <2>1. LocFrom
      BY <1>3, GotoKeeps, Zenon DEF interrupt_mask, At, LocFrom
    <2> QED BY <1>3, <2>1, SamePending, HandlerStep, Zenon DEF interrupt_mask, list
  <1>4. CASE add_masked(l)
    <2>1. LocFrom
      BY <1>4, ReturnKeeps, Zenon DEF add_masked, At, LocFrom
    <2>2. PendingFrom
      BY <1>0, <1>4, AddFrom, Zenon DEF add_masked, At
    <2> QED BY <1>4, <2>1, <2>2, HandlerStep, Zenon DEF add_masked
  <1>5. CASE error_mark(l)
    <2>1. LocFrom
      <3>1. CASE UNCHANGED loc
        BY <3>1, Zenon DEF LocFrom
      <3>2. CASE Goto(l, "walk")
        BY <1>5, <3>2, GotoKeeps, Zenon DEF error_mark, At, LocFrom
      <3> QED BY <1>5, <3>1, <3>2, Zenon DEF error_mark
    <2> QED BY <1>5, <2>1, SamePending, HandlerStep, Zenon DEF error_mark, list, intr
  <1>6. CASE error_walk(l)
    <2>1. LocFrom
      <3>1. CASE Return(l)
        BY <1>6, <3>1, ReturnKeeps, Zenon DEF error_walk, At, LocFrom
      <3>2. CASE \E t \in Killable : loc' = [loc EXCEPT ![l].pc = "cancel", ![l].bad = t]
        BY <1>0, <3>2 DEF Loc, LocFrom
      <3> QED BY <1>6, <3>1, <3>2, Zenon DEF error_walk
    <2> QED BY <1>6, <2>1, SamePending, HandlerStep, Zenon DEF error_walk, list, intr
  <1> QED BY <1>1, <1>2, <1>3, <1>4, <1>5, <1>6, Zenon

LEMMA PreemptionDead ==
    ASSUME IInv, DeadInv, NEW prio, intrevent_preemption(prio) PROVE DeadInv'
  <1>1. PendingFrom
    <2>1. CASE UNCHANGED <<pending, tail>>
      BY <2>1, SamePending, Zenon
    <2>2. CASE Enqueue(PREEMPT)
      <3>1. PREEMPT \in Entry /\ PREEMPT[2] = NIL
        BY Zenon DEF Entry, PREEMPT
      <3> QED BY <2>2, <3>1, EnqueueFrom, Zenon DEF PendingFrom
    <2> QED BY <2>1, <2>2, Zenon DEF intrevent_preemption
  <1>2. LocFrom
    BY Zenon DEF LocFrom, intrevent_preemption
  <1> QED BY <1>1, <1>2, HandlerStep, Zenon DEF intrevent_preemption, intr

\* While no thread is being destroyed there is nothing to show about intrevent_flush.
LEMMA NoFlush == ASSUME ker'.what \notin Thread PROVE FlushInv'
  BY Zenon DEF FlushInv

\* Outside of the kernel no thread is being destroyed.
LEMMA OutIsDone == ASSUME DeadInv, ker.pc = "out" PROVE ker.what \notin Thread
  BY Zenon DEF DeadInv, FlushInv, Draining

LEMMA ExitDead == ASSUME IInv, DeadInv, ker_exit PROVE DeadInv'
  <1>1. ker'.what = ker.what /\ ker.pc = "out"
    BY DrainKeeps, Zenon DEF ker_exit, KerAt
  <1>2. FlushInv'
    BY <1>1, NoFlush, OutIsDone, Zenon
  <1> QED BY <1>2, Zenon DEF DeadInv, NothingForTheDead, ker_exit, list, intr

LEMMA EventAddDead == ASSUME IInv, DeadInv, NEW t \in Thread, event_add(t) PROVE DeadInv'
  <1>1. <<"event", t>> \in Entry /\ <<"event", t>>[2] = t
    BY Zenon DEF Entry, Event
  <1>2. \A i \in DOMAIN pending' : (\E j \in DOMAIN pending : pending'[i] = pending[j]) \/ pending'[i] = <<"event", t>>
    BY <1>1, EnqueueFrom, Zenon DEF event_add
  <1>3. \A i \in DOMAIN pending' : pending'[i][2] \notin dead
    BY <1>1, <1>2, Zenon DEF DeadInv, NothingForTheDead, event_add
  <1>4. FlushInv'
    BY NoFlush, OutIsDone, Zenon DEF event_add, KerAt
  <1> QED BY <1>3, <1>4, Zenon DEF DeadInv, NothingForTheDead, event_add, intr

LEMMA AttachDead == ASSUME IInv, DeadInv, NEW l \in Level, NEW t \in Thread, interrupt_attach(l, t) PROVE DeadInv'
  <1>1. FlushInv'
    BY NoFlush, OutIsDone, Zenon DEF interrupt_attach, KerAt
  <1>2. \A m \in Level : att'[m] \notin dead
    BY DEF IInv, TypeOK, DeadInv, interrupt_attach
  <1> QED BY <1>1, <1>2, Zenon DEF DeadInv, NothingForTheDead, interrupt_attach, list

LEMMA DetachDead == ASSUME IInv, DeadInv, NEW l \in Level, interrupt_detach_entry(l) PROVE DeadInv'
  <1>1. ker'.what = l
    BY Zenon DEF IInv, TypeOK, interrupt_detach_entry
  <1>2. FlushInv'
    BY <1>1, NoFlush, IntrEventAssumption, Zenon
  <1>3. \A m \in Level : att'[m] \notin dead
    BY IntrEventAssumption DEF IInv, TypeOK, DeadInv, interrupt_detach_entry
  <1> QED BY <1>2, <1>3, Zenon DEF DeadInv, NothingForTheDead, interrupt_detach_entry, list

LEMMA DestroyDead == ASSUME IInv, DeadInv, NEW t \in Thread, thread_destroy(t) PROVE DeadInv'
  <1>1. ker'.what = t /\ ker'.pc = "flush"
    BY DEF IInv, TypeOK, thread_destroy
  <1>2. FlushInv'
    <2>1. t \notin dead' /\ \A l \in Level : att'[l] # t
      BY DestroyPasses, Zenon DEF thread_destroy
    <2>2. ker'.pc \notin {"flushed", "take", "exec", "more", "unmask"}
      BY <1>1
    <2> QED BY <1>1, <2>1, <2>2, Zenon DEF FlushInv, Draining
  <1>3. \A l \in Level : att'[l] \notin dead
    BY DestroyPasses, Zenon DEF DeadInv
  <1> QED BY <1>2, <1>3, Zenon DEF DeadInv, NothingForTheDead, thread_destroy, list

LEMMA UnmaskCallDead == ASSUME DeadInv, NEW l \in Level, interrupt_unmask(l) PROVE DeadInv'
  BY Zenon DEF DeadInv, NothingForTheDead, FlushInv, Draining, interrupt_unmask, list

\* When intrevent_flush finds no CPU in a handler, no handler runs for the thread.
LEMMA FlushDead == ASSUME IInv, DeadInv, intrevent_flush PROVE DeadInv'
  <1>1. ker.pc = "flush" /\ ker \in Ker /\ UNCHANGED <<pending, att, loc, taken, dead>>
    BY Zenon DEF IInv, TypeOK, Ker, intrevent_flush, KerAt, list, intr
  <1>2. NothingForTheDead' /\ \A l \in Level : att'[l] \notin dead'
    BY <1>1, Zenon DEF DeadInv, NothingForTheDead
  <1>3. ker.what \in Thread => ker.what \notin dead /\ \A l \in Level : att[l] # ker.what
    BY Zenon DEF DeadInv, FlushInv
  <1>4. Quiet => \A l \in Level : ker.what \in Thread => loc[l].thp # ker.what
    BY IntrEventAssumption, Zenon DEF Quiet, IInv, HandlerInv
  <1>5. FlushInv'
    <2>1. CASE Drain("flush")
      <3>1. ker'.pc = "take" /\ ker'.back = "flush" /\ ker'.what = ker.what
        BY <1>1, <2>1, DrainKeeps, Zenon
      <3> QED BY <1>1, <1>3, <3>1, Zenon DEF FlushInv, Draining
    <2>2. CASE Quiet /\ Drain("flushed")
      <3>1. ker'.pc = "take" /\ ker'.back = "flushed" /\ ker'.what = ker.what
        BY <1>1, <2>2, DrainKeeps, Zenon
      <3> QED BY <1>1, <1>3, <1>4, <2>2, <3>1, Zenon DEF FlushInv, Draining
    <2>3. CASE Quiet /\ pending = <<>> /\ KerGoto("flushed")
      <3>1. ker'.pc = "flushed" /\ ker'.what = ker.what
        BY <1>1, <2>3, Zenon DEF KerGoto, Ker
      <3>2. DOMAIN pending' = {}
        BY <1>1, <2>3
      <3> QED BY <1>1, <1>3, <1>4, <2>3, <3>1, <3>2, Zenon DEF FlushInv, Draining
    <2> QED BY <2>1, <2>2, <2>3, Zenon DEF intrevent_flush
  <1> QED BY <1>2, <1>5, Zenon DEF DeadInv

\* What intrevent_flush has seen to is what lets the thread be freed.
LEMMA FlushedDead == ASSUME IInv, DeadInv, flushed PROVE DeadInv'
  <1>1. ker.pc = "flushed" /\ ker'.what = NIL /\ UNCHANGED <<pending, att, loc, taken>>
    BY Zenon DEF flushed, KerAt, KerOut, list, intr
  <1>2. FlushInv'
    BY <1>1, NoFlush, IntrEventAssumption, Zenon
  <1>3. taken = <<>> /\ DOMAIN taken = {}
    BY <1>1 DEF IInv, DrainInv
  <1>4. ker.what \in Thread => /\ \A l \in Level : att[l] # ker.what /\ loc[l].thp # ker.what
                               /\ \A i \in DOMAIN pending : pending[i][2] # ker.what
    BY <1>1, Zenon DEF DeadInv, FlushInv
  <1>5. dead' = dead \/ (ker.what \in Thread /\ dead' = dead \cup {ker.what})
    BY Zenon DEF flushed
  <1> QED BY <1>1, <1>2, <1>3, <1>4, <1>5, Zenon DEF DeadInv, NothingForTheDead

LEMMA TakeDead == ASSUME IInv, DeadInv, drain_take PROVE DeadInv'
  <1>1. /\ taken' = Listed /\ pending' = <<>> /\ UNCHANGED <<att, loc, dead>>
        /\ ker \in Ker /\ ker.pc = "take"
    BY Zenon DEF IInv, TypeOK, Ker, drain_take, KerAt, intr
  <1>2. \A i \in DOMAIN taken' : taken'[i][2] \notin dead
    BY <1>1, ListedEvents, Zenon DEF IInv, ListInv, DeadInv, NothingForTheDead
  <1>3. DOMAIN pending' = {}
    BY <1>1
  <1>4. ker'.what = ker.what /\ ker'.back = ker.back /\ ker'.pc \in {"exec", "more"}
    BY <1>1, Zenon DEF Ker, drain_take
  <1>5. FlushInv'
    BY <1>1, <1>3, <1>4, Zenon DEF DeadInv, FlushInv, Draining
  <1> QED BY <1>1, <1>2, <1>3, <1>5, Zenon DEF DeadInv, NothingForTheDead

LEMMA ExecDead == ASSUME IInv, DeadInv, drain_exec PROVE DeadInv'
  <1>1. /\ taken \in Seq(Event) /\ taken # <<>> /\ ker \in Ker /\ ker.pc = "exec"
        /\ taken' = Tail(taken) /\ UNCHANGED <<pending, att, loc, dead>>
    BY Zenon DEF IInv, TypeOK, Ker, DrainInv, drain_exec, KerAt, intr
  <1>2. \A i \in DOMAIN taken' : i + 1 \in DOMAIN taken /\ taken'[i] = taken[i + 1]
    <2>1. /\ taken' \in Seq(Event) /\ Len(taken') = Len(taken) - 1
          /\ \A i \in 1 .. Len(taken') : taken'[i] = taken[i + 1]
      BY <1>1, HeadTailProperties, Zenon
    <2>2. Len(taken) \in Nat /\ DOMAIN taken = 1 .. Len(taken) /\ DOMAIN taken' = 1 .. Len(taken')
      BY <1>1, <2>1, LenProperties
    <2> QED BY <2>1, <2>2
  <1>3. ker'.what = ker.what /\ ker'.back = ker.back /\ ker'.pc \in {"exec", "take"}
    BY <1>1, Zenon DEF Ker, drain_exec, KerGoto
  <1>4. FlushInv'
    BY <1>1, <1>3, Zenon DEF DeadInv, FlushInv, Draining
  <1> QED BY <1>1, <1>2, <1>4, Zenon DEF DeadInv, NothingForTheDead

LEMMA MoreDead == ASSUME IInv, DeadInv, drain_more PROVE DeadInv'
  <1>1. ker \in Ker /\ ker.pc = "more" /\ UNCHANGED <<pending, att, loc, taken, dead>>
    BY DEF IInv, TypeOK, Ker, drain_more, KerAt, intr
  <1>2. ker'.what = ker.what /\ ker'.back = ker.back /\ ker'.pc = "unmask"
    BY <1>1, Zenon DEF Ker, drain_more
  <1>3. FlushInv'
    BY <1>1, <1>2, Zenon DEF DeadInv, FlushInv, Draining
  <1> QED BY <1>1, <1>3, Zenon DEF DeadInv, NothingForTheDead

LEMMA UnmaskDead == ASSUME IInv, DeadInv, drain_unmask PROVE DeadInv'
  <1>1. ker \in Ker /\ ker.pc = "unmask" /\ UNCHANGED <<pending, att, loc, taken, dead>>
    BY DEF IInv, TypeOK, Ker, drain_unmask, KerAt, list
  <1>2. /\ ker'.what = ker.what
        /\ (ker'.pc = "unmask" /\ ker'.back = ker.back) \/ (ker'.pc = ker.back /\ ker'.back = "out")
    BY <1>1, Zenon DEF Ker, drain_unmask
  <1>3. FlushInv'
    <2>1. CASE ker'.pc = "unmask" /\ ker'.back = ker.back
      BY <1>1, <1>2, <2>1 DEF DeadInv, FlushInv, Draining
    <2>2. CASE ker'.pc = ker.back /\ ker'.back = "out"
      BY <1>1, <1>2, <2>2, Zenon DEF DeadInv, FlushInv, Draining
    <2> QED BY <1>2, <2>1, <2>2
  <1> QED BY <1>1, <1>3, Zenon DEF DeadInv, NothingForTheDead

-----------------------------------------------------------------------------
(* Entries are conserved. *)

\* Handlers that have an entry and mask their level
Masking == {l \in Level : loc[l].pc \in {"mask", "masked"}}

LEMMA MaskingFinite == IsFiniteSet(Masking) /\ Cardinality(Masking) \in Nat
  <1>1. IsFiniteSet(Level)
    BY FS_Interval, IntrEventAssumption DEF Level
  <1>2. IsFiniteSet(Masking)
    BY <1>1, FS_Subset, Zenon DEF Masking
  <1> QED BY <1>2, FS_CardinalityType, Zenon

\* The counts that the entries are in
LEMMA Counts ==
    ASSUME IInv
    PROVE  free \in Nat /\ alloc \in Nat /\ Len(Listed) \in Nat /\ Len(taken) \in Nat /\ Cardinality(Masking) \in Nat
  <1>1. Len(Listed) \in Nat
    BY ListedEvents, Zenon DEF IInv, ListInv
  <1>2. free \in Nat /\ alloc \in Nat /\ Len(taken) \in Nat
    BY LenProperties, IntrEventAssumption DEF IInv, TypeOK
  <1> QED BY <1>1, <1>2, MaskingFinite, Zenon

\* A handler that was not masking its level and does not do so now
LEMMA MaskingSame ==
    ASSUME NEW l \in Level, loc[l].pc \in {"mask", "masked"} <=> loc'[l].pc \in {"mask", "masked"},
           \A m \in Level : m # l => loc'[m] = loc[m]
    PROVE  Masking' = Masking
  BY Zenon DEF Masking

\* The list grows by an event.
LEMMA ListedGrows ==
    ASSUME IInv, NEW t \in Thread, Enqueue(<<"event", t>>)
    PROVE  Listed' = Append(Listed, <<"event", t>>) /\ Len(Listed') = Len(Listed) + 1
  <1>1. <<"event", t>> \in Event
    BY DEF Event
  <1>2. Listed' = Append(Listed, <<"event", t>>)
    BY <1>1, ListedAppends, Zenon DEF IInv, ListInv
  <1>3. Listed \in Seq(Event)
    BY ListedEvents DEF IInv, ListInv
  <1> QED BY <1>1, <1>2, <1>3, AppendProperties, Zenon

LEMMA ListedSame == ASSUME UNCHANGED pending PROVE Listed' = Listed
  BY DEF Listed

LEMMA HandlersConserve ==
    ASSUME IInv, EntriesConserved, NEW l \in Level,
           interrupt(l) \/ intrevent_add(l) \/ interrupt_mask(l) \/ add_masked(l) \/ error_mark(l) \/ error_walk(l)
    PROVE  EntriesConserved'
  <1>0. loc \in [Level -> Loc] /\ (loc[l].pc # "idle" => loc[l].thp \in Thread)
    BY Zenon DEF IInv, TypeOK, Loc, HandlerInv
  <1>c. free + Len(Listed) + Len(taken) + Cardinality(Masking) = alloc
    BY Zenon DEF EntriesConserved, Masking
  <1>g. (free' + Len(Listed') + Len(taken') + Cardinality(Masking') = alloc') => EntriesConserved'
    BY Zenon DEF EntriesConserved, Masking
  <1>1. CASE interrupt(l)
    <2>1. Masking' = Masking
      BY <1>0, <1>1, Zenon DEF interrupt, Idle, Masking, At
    <2>2. UNCHANGED <<free, alloc, pending, taken>>
      BY <1>1, Zenon DEF interrupt, list
    <2> QED BY <1>c, <1>g, <2>1, <2>2, ListedSame, Zenon
  <1>2. CASE intrevent_add(l)
    <2>0. loc[l].pc = "add" /\ UNCHANGED taken
      BY <1>2, Zenon DEF intrevent_add, At
    <2>1. CASE Goto(l, "error") /\ UNCHANGED list
      <3>1. Masking' = Masking
        BY <2>0, <2>1, GotoKeeps, MaskingSame, Zenon
      <3> QED BY <1>c, <1>g, <2>0, <2>1, <3>1, ListedSame, Zenon DEF list
    <2>2. CASE free' = free - 1 /\ Goto(l, "mask") /\ UNCHANGED <<pending, tail, alloc, qprio>>
      <3>1. loc'[l].pc = "mask" /\ \A m \in Level : m # l => loc'[m] = loc[m]
        BY <2>0, <2>2, GotoKeeps
      <3>2. Masking' = Masking \cup {l} /\ l \notin Masking
        BY <2>0, <3>1, Zenon DEF Masking
      <3>3. Cardinality(Masking') = Cardinality(Masking) + 1
        BY <3>2, MaskingFinite, FS_AddElement, Zenon
      <3> QED BY <1>c, <1>g, <2>0, <2>2, <3>3, ListedSame, Counts
    <2>3. CASE free' = free - 1 /\ Enqueue(<<"event", loc[l].thp>>) /\ Return(l) /\ UNCHANGED alloc
      <3>1. Masking' = Masking
        <4>1. loc'[l].pc \in {"idle", "add"} /\ \A m \in Level : m # l => loc'[m] = loc[m]
          BY <2>0, <2>3, ReturnKeeps, Zenon
        <4> QED BY <2>0, <4>1, MaskingSame, Zenon
      <3>2. Len(Listed') = Len(Listed) + 1
        BY <1>0, <2>0, <2>3, ListedGrows, Zenon
      <3> QED BY <1>c, <1>g, <2>0, <2>3, <3>1, <3>2, Counts
    <2> QED BY <1>2, <2>1, <2>2, <2>3, Zenon DEF intrevent_add
  <1>3. CASE interrupt_mask(l)
    <2>1. Masking' = Masking
      BY <1>3, GotoKeeps, MaskingSame, Zenon DEF interrupt_mask, At
    <2> QED BY <1>3, <1>c, <1>g, <2>1, ListedSame, Zenon DEF interrupt_mask, list
  <1>4. CASE add_masked(l)
    <2>0. loc[l].pc = "masked" /\ Return(l) /\ UNCHANGED <<free, alloc, taken>>
      BY <1>4, Zenon DEF add_masked, At
    <2>1. loc'[l].pc \in {"idle", "add"} /\ \A m \in Level : m # l => loc'[m] = loc[m]
      BY <2>0, ReturnKeeps, Zenon
    <2>2. Masking' = Masking \ {l} /\ l \in Masking
      BY <2>0, <2>1, Zenon DEF Masking
    <2>3. Cardinality(Masking') = Cardinality(Masking) - 1
      BY <2>2, MaskingFinite, FS_RemoveElement, Zenon
    <2>4. Len(Listed') = Len(Listed) + 1
      BY <1>0, <1>4, <2>0, ListedGrows, Zenon DEF add_masked
    <2> QED BY <1>c, <1>g, <2>0, <2>3, <2>4, Counts
  <1>5. CASE error_mark(l)
    <2>1. Masking' = Masking
      <3>1. CASE UNCHANGED loc
        BY <3>1, Zenon DEF Masking
      <3>2. CASE Goto(l, "walk")
        BY <1>5, <3>2, GotoKeeps, MaskingSame, Zenon DEF error_mark, At
      <3> QED BY <1>5, <3>1, <3>2, Zenon DEF error_mark
    <2> QED BY <1>5, <1>c, <1>g, <2>1, ListedSame, Zenon DEF error_mark, list
  <1>6. CASE error_walk(l)
    <2>0. loc[l].pc = "walk"
      BY <1>6 DEF error_walk, At
    <2>1. Masking' = Masking
      <3>1. CASE Return(l)
        <4>1. loc'[l].pc \in {"idle", "add"} /\ \A m \in Level : m # l => loc'[m] = loc[m]
          BY <2>0, <3>1, ReturnKeeps, Zenon
        <4> QED BY <2>0, <4>1, MaskingSame, Zenon
      <3>2. CASE \E t \in Killable : loc' = [loc EXCEPT ![l].pc = "cancel", ![l].bad = t]
        <4>1. loc'[l].pc = "cancel" /\ \A m \in Level : m # l => loc'[m] = loc[m]
          BY <1>0, <3>2 DEF Loc
        <4> QED BY <2>0, <4>1, MaskingSame, Zenon
      <3> QED BY <1>6, <3>1, <3>2, Zenon DEF error_walk
    <2> QED BY <1>6, <1>c, <1>g, <2>1, ListedSame, Zenon DEF error_walk, list
  <1> QED BY <1>1, <1>2, <1>3, <1>4, <1>5, <1>6, Zenon

\* A step that leaves the entries where they are
LEMMA StillConserved ==
    ASSUME EntriesConserved, Listed' = Listed, UNCHANGED <<free, alloc, taken, loc>>
    PROVE  EntriesConserved'
  BY DEF EntriesConserved

\* preempt_ev is no entry of the pool.
LEMMA PreemptionListed == ASSUME IInv, NEW prio, intrevent_preemption(prio) PROVE Listed' = Listed
  <1>1. CASE UNCHANGED <<pending, tail>>
    BY <1>1, ListedSame, Zenon
  <1>2. CASE pending = <<>> /\ Enqueue(PREEMPT)
    BY <1>2, ListedPreempt, Zenon DEF IInv, ListInv
  <1> QED BY <1>1, <1>2 DEF intrevent_preemption

LEMMA EventAddConserves ==
    ASSUME IInv, EntriesConserved, NEW t \in Thread, event_add(t) PROVE EntriesConserved'
  <1>1. Len(Listed') = Len(Listed) + 1
    BY ListedGrows, Zenon DEF event_add
  <1>2. free' = free - 1 /\ UNCHANGED <<alloc, taken>> /\ Masking' = Masking
    BY Zenon DEF event_add, Masking
  <1>3. free + Len(Listed) + Len(taken) + Cardinality(Masking) = alloc
    BY DEF EntriesConserved, Masking
  <1>4. free' + Len(Listed') + Len(taken') + Cardinality(Masking') = alloc'
    BY <1>1, <1>2, <1>3, Counts
  <1> QED BY <1>4, Zenon DEF EntriesConserved, Masking

LEMMA DrainConserves ==
    ASSUME IInv, EntriesConserved, drain_take \/ drain_exec \/ drain_more PROVE EntriesConserved'
  <1>c. free + Len(Listed) + Len(taken) + Cardinality(Masking) = alloc
    BY DEF EntriesConserved, Masking
  <1>g. (free' + Len(Listed') + Len(taken') + Cardinality(Masking') = alloc') => EntriesConserved'
    BY DEF EntriesConserved, Masking
  <1>m. Masking' = Masking
    BY DEF Masking, drain_take, drain_exec, drain_more
  <1>1. CASE drain_take
    <2>1. taken = <<>> /\ taken' = Listed /\ pending' = <<>> /\ UNCHANGED <<free, alloc>>
      BY <1>1 DEF IInv, DrainInv, drain_take, KerAt
    <2>2. Listed' = <<>>
      BY <2>1 DEF Listed
    <2>3. Len(taken) = 0 /\ Len(Listed') = 0 /\ Len(taken') = Len(Listed)
      BY <2>1, <2>2, Zenon
    <2> QED BY <1>c, <1>g, <1>m, <2>1, <2>3, Counts
  <1>2. CASE drain_exec
    <2>1. taken \in Seq(Event) /\ taken # <<>>
      BY <1>2, Zenon DEF IInv, TypeOK, DrainInv, drain_exec, KerAt
    <2>2. Len(taken') = Len(taken) - 1 /\ free' = free + 1 /\ UNCHANGED <<alloc, pending>>
      BY <1>2, <2>1, HeadTailProperties, Zenon DEF drain_exec
    <2> QED BY <1>c, <1>g, <1>m, <2>2, Counts, ListedSame
  <1>3. CASE drain_more
    <2>1. PICK n \in (IF ker.more THEN 0 .. (alloc \div 4) ELSE {0}) : free' = free + n /\ alloc' = alloc + n
      BY <1>3 DEF drain_more
    <2>2. n \in Nat
      BY <2>1, Counts
    <2>3. UNCHANGED <<pending, taken>>
      BY <1>3 DEF drain_more
    <2> QED BY <1>c, <1>g, <1>m, <2>1, <2>2, <2>3, Counts, ListedSame
  <1> QED BY <1>1, <1>2, <1>3, Zenon

-----------------------------------------------------------------------------
(* The queue delivers events in the order they were accepted in. *)

Q == INSTANCE EventQueue WITH q <- Events

\* An event that is put on the list is the last of all that are to be delivered.
LEMMA AddAccepts ==
    ASSUME IInv, NEW t \in Thread, Enqueue(<<"event", t>>), UNCHANGED taken
    PROVE  Q!Next
  <1> DEFINE e == <<"event", t>>
  <1>1. e \in Event /\ Listed' = Append(Listed, e)
    BY ListedGrows, Zenon DEF Event
  <1>2. Listed \in Seq(Event) /\ taken \in Seq(Event)
    BY ListedEvents, Zenon DEF IInv, TypeOK, ListInv
  <1> HIDE DEF e
  <1>3. <<e>> \in Seq(Event) /\ Append(Listed, e) = Listed \o <<e>>
    BY <1>1, <1>2, AppendIsConcat
  <1>4. taken \o Listed \in Seq(Event)
    BY <1>2, ConcatProperties, Zenon
  <1>5. Append(taken \o Listed, e) = (taken \o Listed) \o <<e>>
    BY <1>1, <1>4, AppendIsConcat, Zenon
  <1>6. (taken \o Listed) \o <<e>> = taken \o (Listed \o <<e>>)
    BY <1>2, <1>3, ConcatAssociative
  <1>7. Events' = Append(Events, e)
    BY <1>1, <1>3, <1>5, <1>6, Zenon DEF Events
  <1> QED BY <1>1, <1>7, Zenon DEF Q!Next, Q!Accept

\* Taking the list changes nothing about what is to be delivered in which order.
LEMMA TakeIsSilent == ASSUME IInv, drain_take PROVE Events' = Events
  <1>1. taken = <<>> /\ taken' = Listed /\ pending' = <<>> /\ Listed \in Seq(Event)
    BY ListedEvents DEF IInv, ListInv, DrainInv, drain_take, KerAt
  <1>2. Listed' = <<>>
    BY <1>1 DEF Listed
  <1>3. Listed \o <<>> = Listed /\ <<>> \o Listed = Listed
    BY <1>1, ConcatEmptySeq
  <1> QED BY <1>1, <1>2, <1>3, Zenon DEF Events

\* sigevent_exe is given the first of the events that are to be delivered.
LEMMA ExecDelivers == ASSUME IInv, drain_exec PROVE Q!Next
  <1>1. taken \in Seq(Event) /\ taken # <<>> /\ taken' = Tail(taken) /\ Listed' = Listed /\ Listed \in Seq(Event)
    BY ListedEvents, ListedSame, Zenon DEF IInv, ListInv, TypeOK, DrainInv, drain_exec, KerAt
  <1>2. /\ Tail(taken) \in Seq(Event) /\ Len(Tail(taken)) = Len(taken) - 1
        /\ \A i \in 1 .. Len(Tail(taken)) : Tail(taken)[i] = taken[i + 1]
    BY <1>1, HeadTailProperties, Zenon
  <1>3. Len(taken) \in Nat \ {0} /\ Len(Listed) \in Nat
    BY <1>1, LenProperties, EmptySeq, Zenon
  <1>4. /\ Events \in Seq(Event) /\ Len(Events) = Len(taken) + Len(Listed)
        /\ \A i \in 1 .. Len(taken) + Len(Listed) : Events[i] = IF i <= Len(taken) THEN taken[i] ELSE Listed[i - Len(taken)]
    BY <1>1, ConcatProperties, Zenon DEF Events
  <1>5. Events # <<>>
    BY <1>3, <1>4
  <1>6. /\ Tail(Events) \in Seq(Event) /\ Len(Tail(Events)) = Len(Events) - 1
        /\ \A i \in 1 .. Len(Tail(Events)) : Tail(Events)[i] = Events[i + 1]
    BY <1>4, <1>5, HeadTailProperties, Zenon
  <1>7. /\ Tail(taken) \o Listed \in Seq(Event) /\ Len(Tail(taken) \o Listed) = Len(Tail(taken)) + Len(Listed)
        /\ \A i \in 1 .. Len(Tail(taken)) + Len(Listed) :
              (Tail(taken) \o Listed)[i] = IF i <= Len(Tail(taken)) THEN Tail(taken)[i] ELSE Listed[i - Len(Tail(taken))]
    BY <1>1, <1>2, ConcatProperties, Zenon
  <1>8. Len(Tail(Events)) = Len(Tail(taken) \o Listed)
    BY <1>2, <1>3, <1>4, <1>6, <1>7
  <1>9. ASSUME NEW i \in 1 .. Len(Tail(Events)) PROVE Tail(Events)[i] = (Tail(taken) \o Listed)[i]
    <2>1. CASE i + 1 <= Len(taken)
      BY <1>2, <1>3, <1>4, <1>6, <1>7, <2>1
    <2>2. CASE ~(i + 1 <= Len(taken))
      <3>1. i - Len(Tail(taken)) = (i + 1) - Len(taken)
        BY <1>2, <1>3
      <3> QED BY <1>2, <1>3, <1>4, <1>6, <1>7, <2>2, <3>1
    <2> QED BY <2>1, <2>2, Zenon
  <1>10. Tail(Events) = Tail(taken) \o Listed
    BY <1>6, <1>7, <1>8, <1>9, SeqEqual, Zenon
  <1>11. Events' = Tail(Events)
    BY <1>1, <1>10, Zenon DEF Events
  <1> QED BY <1>5, <1>11, Zenon DEF Q!Next, Q!Deliver

\* Nothing else changes what is to be delivered.
LEMMA EventsSame == ASSUME Listed' = Listed, UNCHANGED taken PROVE Events' = Events
  BY Zenon DEF Events

LEMMA HandlersRefine ==
    ASSUME IInv, NEW l \in Level,
           interrupt(l) \/ intrevent_add(l) \/ interrupt_mask(l) \/ add_masked(l) \/ error_mark(l) \/ error_walk(l)
    PROVE  Q!Next \/ Events' = Events
  <1>0. UNCHANGED taken /\ (loc[l].pc # "idle" => loc[l].thp \in Thread)
    BY Zenon DEF IInv, HandlerInv, interrupt, intrevent_add, interrupt_mask, add_masked, error_mark, error_walk
  <1>1. CASE UNCHANGED pending
    BY <1>0, <1>1, ListedSame, EventsSame, Zenon
  <1>2. CASE loc[l].pc # "idle" /\ Enqueue(<<"event", loc[l].thp>>)
    BY <1>0, <1>2, AddAccepts, Zenon
  <1> QED BY <1>1, <1>2, Zenon DEF interrupt, intrevent_add, interrupt_mask, add_masked, error_mark, error_walk, At, list

-----------------------------------------------------------------------------
(* Theorems *)

LEMMA InitHolds == Init => IInv /\ DeadInv /\ EntriesConserved /\ Q!Init
  <1> SUFFICES ASSUME Init PROVE IInv /\ DeadInv /\ EntriesConserved /\ Q!Init
    OBVIOUS
  <1>1. /\ pending = <<>> /\ taken = <<>> /\ tail = 0 /\ qprio = 0 /\ free = num_init /\ alloc = num_init
        /\ loc = [l \in Level |-> Idle] /\ ker = KerOut /\ dead = {} /\ att = [l \in Level |-> NIL]
    BY Zenon DEF Init
  <1>2. pending \in Seq(Entry) /\ taken \in Seq(Event) /\ Len(pending) = 0 /\ Len(taken) = 0 /\ DOMAIN pending = {}
    BY <1>1, EmptySeq
  <1>3. Idle \in Loc /\ KerOut \in Ker
    BY IntrEventAssumption DEF Idle, Loc, KerOut, Ker
  <1>4. ListOK
    BY <1>1, <1>2, IntrEventAssumption DEF ListOK, ListInv, PriorityIsQueued, PreemptIsFirst
  <1>5. TypeOK
    <2>1. loc \in [Level -> Loc] /\ ker \in Ker
      BY <1>1, <1>3, Zenon
    <2>2. free \in Nat /\ alloc \in num_init .. MaxAlloc /\ last_mask \in -1 .. Levels - 1
      BY <1>1, IntrEventAssumption DEF Init
    <2>3. masks \in [Level -> Nat] /\ att \in [Level -> Thread \cup {NIL}] /\ marks \in [Thread -> Nat]
      BY Zenon DEF Init
    <2>4. active \in BOOLEAN /\ flagged \subseteq Level /\ dead \subseteq Thread /\ crashed \in {"no", "crash", "null"}
      BY Zenon DEF Init
    <2> QED BY <1>2, <1>4, <2>1, <2>2, <2>3, <2>4, Zenon DEF TypeOK, ListOK, Loc, Ker
  <1>6. HandlerInv /\ DrainInv /\ Masking = {}
    BY <1>1, Zenon DEF HandlerInv, DrainInv, Idle, KerOut, Masking
  <1>7. DeadInv
    BY <1>1, <1>2, IntrEventAssumption, Zenon DEF DeadInv, NothingForTheDead, FlushInv, KerOut
  <1>8. Listed = <<>>
    BY <1>1, Zenon DEF Listed
  <1>9. EntriesConserved
    <2>1. Cardinality(Masking) = 0 /\ Len(Listed) = 0 /\ num_init \in Nat
      BY <1>6, <1>8, FS_EmptySet, IntrEventAssumption, Zenon
    <2> QED BY <1>1, <1>2, <2>1 DEF EntriesConserved, Masking
  <1>10. Q!Init
    BY <1>1, <1>8 DEF Q!Init, Events
  <1> QED BY <1>4, <1>5, <1>6, <1>7, <1>9, <1>10, Zenon DEF IInv, ListOK

\* One step of any action
LEMMA CalmCases ==
    ASSUME CalmNext
    PROVE  \/ \E l \in Level :
                 \/ interrupt(l) \/ intrevent_add(l) \/ interrupt_mask(l) \/ add_masked(l)
                 \/ error_mark(l) \/ error_walk(l)
           \/ \E t \in Thread : intrevent_preemption(priority[t] + 1)
           \/ ker_exit \/ intrevent_flush \/ flushed
           \/ drain_take \/ drain_exec \/ drain_more \/ drain_unmask
           \/ \E l \in Level :
                 interrupt_unmask(l) \/ interrupt_detach_entry(l) \/ \E t \in Thread : interrupt_attach(l, t)
           \/ \E t \in Thread : event_add(t) \/ thread_destroy(t)
  BY Zenon DEF CalmNext, Next, Handler, Kernel, Calls

LEMMA NextKeeps == ASSUME IInv, CalmNext PROVE IInv'
  BY CalmCases, InterruptKeeps, AddActionKeeps, MaskKeeps, MaskedKeeps, MarkKeeps, WalkKeeps, PreemptionKeeps,
     ExitKeeps, EventAddKeeps, AttachKeeps, UnmaskCallKeeps, DetachKeeps, DestroyKeeps, FlushKeeps, FlushedKeeps,
     TakeKeeps, ExecKeeps, MoreKeeps, UnmaskKeeps, Zenon

LEMMA NextDead == ASSUME IInv, DeadInv, CalmNext PROVE DeadInv'
  BY CalmCases, HandlersDead, PreemptionDead, ExitDead, EventAddDead, AttachDead, UnmaskCallDead, DetachDead, DestroyDead,
     FlushDead, FlushedDead, TakeDead, ExecDead, MoreDead, UnmaskDead, Zenon

LEMMA OthersSame ==
    ASSUME \/ ker_exit \/ intrevent_flush \/ flushed \/ drain_unmask
           \/ \E l \in Level :
                 interrupt_unmask(l) \/ interrupt_detach_entry(l) \/ \E t \in Thread : interrupt_attach(l, t)
           \/ \E t \in Thread : thread_destroy(t)
    PROVE  UNCHANGED <<pending, free, alloc, taken, loc>>
  BY Zenon DEF ker_exit, intrevent_flush, flushed, drain_unmask, interrupt_unmask, interrupt_detach_entry, interrupt_attach, thread_destroy,
              list

LEMMA NextConserves == ASSUME IInv, EntriesConserved, CalmNext PROVE EntriesConserved'
  <1>1. ASSUME UNCHANGED <<pending, free, alloc, taken, loc>> PROVE EntriesConserved'
    BY <1>1, ListedSame, StillConserved, Zenon
  <1>2. ASSUME NEW t \in Thread, intrevent_preemption(priority[t] + 1) PROVE EntriesConserved'
    BY <1>2, PreemptionListed, StillConserved, Zenon DEF intrevent_preemption
  <1>3. ASSUME NEW l \in Level,
               interrupt(l) \/ intrevent_add(l) \/ interrupt_mask(l) \/ add_masked(l) \/ error_mark(l) \/ error_walk(l)
        PROVE  EntriesConserved'
    BY <1>3, HandlersConserve, Zenon
  <1>4. ASSUME NEW t \in Thread, event_add(t) PROVE EntriesConserved'
    BY <1>4, EventAddConserves, Zenon
  <1>5. drain_take \/ drain_exec \/ drain_more => EntriesConserved'
    BY DrainConserves, Zenon
  <1> QED BY CalmCases, OthersSame, <1>1, <1>2, <1>3, <1>4, <1>5, Zenon

LEMMA NextRefines == ASSUME IInv, CalmNext PROVE Q!Next \/ Events' = Events
  <1>1. ASSUME UNCHANGED <<pending, free, alloc, taken, loc>> PROVE Events' = Events
    BY <1>1, ListedSame, EventsSame, Zenon
  <1>2. ASSUME NEW t \in Thread, intrevent_preemption(priority[t] + 1) PROVE Events' = Events
    BY <1>2, PreemptionListed, EventsSame, Zenon DEF intrevent_preemption
  <1>3. ASSUME NEW l \in Level,
               interrupt(l) \/ intrevent_add(l) \/ interrupt_mask(l) \/ add_masked(l) \/ error_mark(l) \/ error_walk(l)
        PROVE  Q!Next \/ Events' = Events
    BY <1>3, HandlersRefine, Zenon
  <1>4. ASSUME NEW t \in Thread, event_add(t) PROVE Q!Next
    BY <1>4, AddAccepts, Zenon DEF event_add
  <1>5. ASSUME drain_more PROVE Events' = Events
    BY <1>5, ListedSame, EventsSame, Zenon DEF drain_more
  <1> QED BY CalmCases, OthersSame, TakeIsSilent, ExecDelivers, <1>1, <1>2, <1>3, <1>4, <1>5, Zenon

\* The list of pending events, its tail and its priority are in step through every
\* interleaving of handlers that add events with the drain and intrevent_flush.
THEOREM Invariance == CalmSpec => []IInv
  <1>1. IInv /\ UNCHANGED vars => IInv'
    BY DEF IInv, TypeOK, ListInv, PriorityIsQueued, PreemptIsFirst, HandlerInv, DrainInv, vars, list, drain, intr
  <1> QED BY <1>1, InitHolds, NextKeeps, PTL DEF CalmSpec

\* With queued_event_priority > 0 there is something in the queue, which __ker_exit relies on
\* to get out of the kernel, and the priority is not below that of an event in the queue.
THEOREM PriorityIsInStep == CalmSpec => []PriorityIsQueued
  <1>1. IInv => PriorityIsQueued
    BY DEF IInv, ListInv
  <1> QED BY <1>1, Invariance, PTL

\* After intrevent_flush nothing points at what is freed: no pending event, no event that the
\* drain has taken and no running handler is for a thread that was destroyed.
THEOREM NothingIsLeftForTheDead == CalmSpec => []NothingForTheDead
  <1>1. DeadInv /\ UNCHANGED vars => DeadInv'
    BY Zenon DEF DeadInv, NothingForTheDead, FlushInv, Draining, vars, list, drain, intr
  <1>2. CalmSpec => []DeadInv
    BY <1>1, InitHolds, NextDead, Invariance, PTL DEF CalmSpec
  <1>3. DeadInv => NothingForTheDead
    BY DEF DeadInv
  <1> QED BY <1>2, <1>3, PTL

\* Every entry that intrevent_alloc made is free, pending, taken by the drain or in the hands
\* of a handler that masks its level: none leaks and none is on two lists.
THEOREM EntriesAreConserved == CalmSpec => []EntriesConserved
  <1>1. EntriesConserved /\ UNCHANGED vars => EntriesConserved'
    BY ListedSame, StillConserved DEF vars, list
  <1> QED BY <1>1, InitHolds, NextConserves, Invariance, PTL DEF CalmSpec

\* The queue implements EventQueue: events are delivered one by one, in the order in which
\* intrevent_add accepted them, although the drain takes the list while handlers go on.
THEOREM DeliversInOrder == CalmSpec => Q!Spec
  <1>1. UNCHANGED vars => Events' = Events
    BY ListedSame, EventsSame, Zenon DEF vars, list
  <1>2. IInv /\ [CalmNext]_vars => [Q!Next]_Events
    BY <1>1, NextRefines
  <1> QED BY <1>2, InitHolds, Invariance, PTL DEF CalmSpec, Q!Spec
=============================================================================
