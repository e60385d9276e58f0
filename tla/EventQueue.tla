----------------------------- MODULE EventQueue -----------------------------
(***************************************************************************)
(* What the interrupt event queue promises: events are delivered one by    *)
(* one, in the order they were accepted in.                                *)
(***************************************************************************)
EXTENDS Sequences

CONSTANT Event

VARIABLE q

Init == q = <<>>

Accept(e) == q' = Append(q, e)
Deliver == q # <<>> /\ q' = Tail(q)

Next == (\E e \in Event : Accept(e)) \/ Deliver

Spec == Init /\ [][Next]_q
=============================================================================
