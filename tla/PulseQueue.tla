---------------------------- MODULE PulseQueue ----------------------------
(***************************************************************************)
(* What a sender of pulses or signals may rely on: every pulse that was    *)
(* taken in stands in the queue by itself, behind the items of at least    *)
(* its rank, until it is received or withdrawn, or the queue closes.  Only *)
(* a signal that does not queue takes the place of an earlier one, which   *)
(* has its rank and its code; a receiver gets the first item that is not   *)
(* to be passed over for it.                                               *)
(***************************************************************************)
EXTENDS Naturals, Sequences, SequencesExt

CONSTANTS Passes(_, _),   \* Passes(x, y): x is passed over by the receiver of y
          None

VARIABLES queue, closed,
          accepted     \* the item taken in by the last step, or None; its field
                       \* `replace' says that it is not to be queued twice

Init == queue = <<>> /\ closed = FALSE /\ accepted = None

Put(it) ==
    queue' = SelectSeq(queue, LAMBDA x : x.rank >= it.rank) \o <<it>>
               \o SelectSeq(queue, LAMBDA x : x.rank < it.rank)

\* The item in the queue of which `it' is a repetition.
Repeated(i, it) == queue[i].rank = it.rank /\ queue[i].code = it.code

\* The first one is overwritten; copies of it that went in one after the other
\* change together.
Overwrite(i, j, it) ==
    /\ Repeated(i, it)
    /\ \A k \in 1 .. i - 1 : ~Repeated(k, it)
    /\ \A k \in i .. j : queue[k] = queue[i]
    /\ queue' = [k \in DOMAIN queue |->
                   IF k \in i .. j THEN [queue[k] EXCEPT !.val = it.val] ELSE queue[k]]

Accept(it) ==
    IF it.replace /\ \E i \in DOMAIN queue : Repeated(i, it)
    THEN \E i \in DOMAIN queue : \E j \in i .. Len(queue) : Overwrite(i, j, it)
    ELSE Put([x \in DOMAIN it \ {"replace"} |-> it[x]])

Take(i) ==
    /\ \A j \in 1 .. i - 1 : Passes(queue[j], queue[i])
    /\ queue' = RemoveAt(queue, i)

\* Every item with the code and the value of the one at i goes, at whatever
\* rank and with whatever id.
Withdraw(i) ==
    queue' = SelectSeq(queue, LAMBDA x : x.code[1] # queue[i].code[1] \/ x.val # queue[i].val)

Ignore(i) == queue' = SelectSeq(queue, LAMBDA x : x.rank # queue[i].rank)

\* Nobody is left to receive: the queue empties from the front.
Close ==
    /\ closed' = TRUE
    /\ \E n \in 0 .. Len(queue) : queue' = SubSeq(queue, n + 1, Len(queue))

Next ==
    \/ /\ accepted' # None
       /\ Accept(accepted')
       /\ UNCHANGED closed
    \/ /\ accepted' = None
       /\ \/ UNCHANGED queue
          \/ \E i \in DOMAIN queue : Take(i) \/ Withdraw(i) \/ Ignore(i)
       /\ UNCHANGED closed
    \/ accepted' = None /\ Close

Spec == Init /\ [][Next]_<<queue, closed, accepted>>
===========================================================================
