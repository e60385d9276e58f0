----------------------------- MODULE PrilQueue -----------------------------
(***************************************************************************)
(* What the kernel expects of a PRIL (PRIority List): a queue in which     *)
(* entries stand in descending priority and, within one priority, in the   *)
(* order of their arrival.  pril_first is the head of the queue.  Any      *)
(* entry may be taken out at any time (a reply, a timeout, a signal).      *)
(***************************************************************************)
EXTENDS Naturals, Sequences

CONSTANTS Entry, Prio

VARIABLE queue      \* sequence of [entry, prio] records

Queued == {queue[i].entry : i \in DOMAIN queue}

Insert(q, e, p) ==
    SelectSeq(q, LAMBDA r : r.prio >= p) \o <<[entry |-> e, prio |-> p]>>
        \o SelectSeq(q, LAMBDA r : r.prio < p)

Without(q, e) == SelectSeq(q, LAMBDA r : r.entry # e)

Init == queue = <<>>

Add(e, p) ==
    /\ e \notin Queued
    /\ queue' = Insert(queue, e, p)

Remove(e) ==
    /\ e \in Queued
    /\ queue' = Without(queue, e)

\* A queued entry whose priority changes goes behind its new peers.
Reposition(e, p) ==
    /\ e \in Queued
    /\ queue' = Insert(Without(queue, e), e, p)

Next == \E e \in Entry : \/ Remove(e)
                         \/ \E p \in Prio : Add(e, p) \/ Reposition(e, p)

Spec == Init /\ [][Next]_queue
=============================================================================
