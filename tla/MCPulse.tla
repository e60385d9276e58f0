------------------------------ MODULE MCPulse -------------------------------
(***************************************************************************)
(* An instance of Pulse for TLC, in three scenarios that are chosen once:  *)
(*   pool     equal pulses and signals, while the heap runs out and        *)
(*            recovers and the process meets its limit;                    *)
(*   channel  pulses of two priorities, ids and values, with memory for    *)
(*            all of them;                                                 *)
(*   signals  the same for signals.                                        *)
(***************************************************************************)
EXTENDS Pulse

VARIABLE scenario

MCCode == {<<"a", 1>>}

OnChannel == INSTANCE Pulse WITH
    Prio <- {1, 2}, Code <- {<<"a", 1>>, <<"a", 2>>}, Val <- {"x", "y"}, _PULSE_COUNT_MAX <- 2,
    min <- 4, HIGHWATER_CALLS <- 1, max <- 9, Heap <- 4, CRIT_SIZE <- 0, MaxSend <- 3, MaxSig <- 0

OnProcess == INSTANCE Pulse WITH
    Prio <- {1, 2}, Code <- {<<"a", 1>>, <<"a", 2>>}, Val <- {"x", "y"}, _PULSE_COUNT_MAX <- 2,
    min <- 4, HIGHWATER_CALLS <- 1, max <- 9, Heap <- 4, CRIT_SIZE <- 0, MaxSend <- 0, MaxSig <- 3

MCvars == <<vars, scenario>>
MCInit ==
    \/ scenario = "pool" /\ Init
    \/ scenario = "channel" /\ OnChannel!Init
    \/ scenario = "signals" /\ OnProcess!Init
MCNext ==
    /\ \/ scenario = "pool" /\ Next
       \/ scenario = "channel" /\ OnChannel!Next
       \/ scenario = "signals" /\ OnProcess!Next
    /\ UNCHANGED scenario
MCSpec == MCInit /\ [][MCNext]_MCvars

\* What intrevent_add reads as `pulse_souls.total - pulse_souls.used' is the length of the free
\* list, and no block of either heap is lost or in two places, in whatever order queues are
\* received, discarded, purged and destroyed, with little memory and with enough.  What was
\* taken from the critical heap is only ever held by pulses of the kernel: object_free gives it
\* back at once and never leaves it in the free list, where a MsgSendPulse would find it.
BlocksExact ==
    /\ scenario = "pool" => PoolExact /\ CritReserved
    /\ scenario = "channel" => OnChannel!PoolExact
    /\ scenario = "signals" => OnProcess!PoolExact
=============================================================================
