----------------------------- MODULE MCTimeout ------------------------------
(***************************************************************************)
(* An instance of Timeout for TLC, in five scenarios that are chosen once: *)
(*   calls     two clients with timed sends, mutexes and sleeps;           *)
(*   handlers  two clients with timed sends and signal handlers;           *)
(*   features  one client, an UNBLOCK channel and any set of states;       *)
(*   delete    the same, with timeouts that are cancelled;                 *)
(*   answers   two clients, an UNBLOCK channel, a server that answers the  *)
(*             unblock pulses it receives, and fair scheduling.            *)
(***************************************************************************)
EXTENDS Timeout

CONSTANTS c1, c2

VARIABLE scenario

Calls    == INSTANCE Timeout WITH Unblock <- FALSE, Features <- {"mutex", "sleep"}
Handlers == INSTANCE Timeout WITH Unblock <- FALSE, Features <- {"signal"}
NoDelete == INSTANCE Timeout WITH Features <- Features \ {"delete"}
Answers  == INSTANCE Timeout WITH Features <- {"answers"}

MCvars == <<vars, scenario>>
MCInit == Init /\ scenario \in {"calls", "handlers", "features", "delete", "answers"}
Idle(t) == state'[t] = "RUNNING" /\ timer'[t] = "none" /\ ~handler'[t]
MCNext ==
    /\ \/ scenario = "calls" /\ Calls!Next
       \/ scenario = "handlers" /\ Handlers!Next
       \/ scenario = "features" /\ NoDelete!Next /\ Idle(c2)
       \/ scenario = "delete" /\ Next /\ Idle(c2)
       \/ scenario = "answers" /\ Answers!Next
    /\ UNCHANGED scenario

\* In "answers" timers that are armed fire, interrupts end, and whoever is in the kernel leaves
\* it; the server receives the unblock pulses and answers the clients they name.  It is all for
\* c1, as far as it can be.
Fair(A) == scenario = "answers" /\ A
MCSpec ==
    /\ MCInit /\ [][MCNext]_MCvars
    /\ SF_vars(Fair(Answers!timer_fire(c1)))
    /\ WF_vars(Fair(\E t \in Thread : Answers!intrevent_add(t)))
    /\ WF_vars(Fair(Answers!intr_exit \/ Answers!intrevent_drain \/ Answers!ker_exit))
    /\ SF_vars(Fair(pulses # {} /\ Answers!MsgReceive))
    /\ SF_vars(Fair(c1 \in unblock /\ Answers!MsgReply(c1)))

\* block, unready and block_and_ready arm the timeout of the state that is entered, a direct
\* send included, and it is not lost before it fires or the server is told, as long as no
\* signal handler cancels the request of the program it interrupts.
RequestIsCovered == scenario # "delete" => BlockedIsCovered

\* The library's timed calls return: the client that asked for a timeout in SEND and REPLY
\* is not blocked for ever, whatever the server and the other client do, if the server
\* answers unblock pulses.
TimedSendEnds ==
    (scenario = "answers" /\ state[c1] \in {"SEND", "REPLY"} /\ {"SEND", "REPLY"} \subseteq flags[c1])
        ~> ~(state[c1] \in {"SEND", "REPLY"} /\ {"SEND", "REPLY"} \subseteq flags[c1])
=============================================================================
