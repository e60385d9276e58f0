---------------------------- MODULE MCIntrEvent ----------------------------
(***************************************************************************)
(* An instance of IntrEvent for TLC, in three scenarios that are chosen    *)
(* once:                                                                   *)
(*   levels   two interrupt levels of one thread, the second one without a *)
(*            handler, scheduled fairly;                                   *)
(*   threads  one level with a handler that adds up to two events, two     *)
(*            threads, which may be of one process, and memory for more    *)
(*            entries;                                                     *)
(*   kill     one level and two threads of different priority, where few   *)
(*            events are enough for a process to be killed, each thread of *)
(*            a process of its own.                                        *)
(***************************************************************************)
EXTENDS IntrEvent

CONSTANTS t1, t2

VARIABLE scenario

MCThreads == {t1, t2}
MCPriority == [t \in Thread |-> IF t = t1 THEN 1 ELSE 2]

Calm == INSTANCE IntrEvent WITH EventOnly <- {1}, MIN_INTRS_BAD <- 20, MaxAdds <- 1, MaxAlloc <- num_init
Grow == INSTANCE IntrEvent WITH MIN_INTRS_BAD <- 20
Kill == INSTANCE IntrEvent WITH Killable <- {t1}, MaxAdds <- 1, MaxAlloc <- num_init

OnlyT1 ==
    /\ ker'.what # t2 /\ \A l \in Level : att'[l] # t2
    /\ \A i \in DOMAIN pending' : pending'[i][2] # t2
OneLevel == att'[1] = NIL

\* No INTERRUPT passes from one process to another.
OwnProcess == \A l \in Level : att[l] # NIL => att'[l] \in {att[l], NIL}

MCvars == <<vars, scenario>>
MCInit == Init /\ scenario \in {"levels", "threads", "kill"}
MCNext ==
    /\ \/ scenario = "levels" /\ Calm!Next /\ OnlyT1
       \/ scenario = "threads" /\ Grow!Next /\ OneLevel
       \/ scenario = "kill" /\ Kill!Next /\ OneLevel /\ OwnProcess
    /\ UNCHANGED scenario

\* In "levels" the kernel goes on and does not stay out with events to deliver, and
\* interrupt handlers end.
Fair(A) == scenario = "levels" /\ A
MCSpec ==
    /\ MCInit /\ [][MCNext]_MCvars
    /\ WF_vars(Fair(Calm!Kernel \/ ker_exit \/ intrevent_flush))
    /\ WF_vars(Fair(Calm!Handler(0))) /\ WF_vars(Fair(Calm!Handler(1)))

Accepted == INSTANCE EventQueue WITH q <- IF scenario = "kill" THEN <<>> ELSE Events

\* While no process is killed, events are delivered in the order intrevent_add queued them
\* in, whatever list they are on.
DeliveredInOrder == Accepted!Spec

\* Every entry is free, pending, taken or in the hands of a handler that masks its level,
\* while no process is killed.
NoEntryLost == scenario # "kill" => EntriesConserved

\* Unless intrevent_error has crashed, intrevent_drain keeps delivering events as long as there
\* are any.
KeepsDelivering ==
    [](scenario = "levels" /\ crashed = "no") => []<>(Events = <<>>) \/ []<><<drain_exec>>_vars
=============================================================================
