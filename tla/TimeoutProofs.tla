--------------------------- MODULE TimeoutProofs ----------------------------
(***************************************************************************)
(* Theorems about Timeout, for any set of clients and any set of features: *)
(* no timeout hits a later call, and a thread that runs has no armed timer.*)
(***************************************************************************)
EXTENDS Timeout, TLAPS

Event   == [thread : Thread, live : BOOLEAN]
Request == [flags : SUBSET Blocking, imm : BOOLEAN, time : {"main", "handler"}, mutex : {"no", "plain", "timed"}]

\* timer_expiry fires a timer that is armed: whoever disarms it waits for the ticker.
TickingIsArmed == ticking # NONE => timer[ticking] = "armed"

\* An event is live exactly while its thread waits in the call the timer was armed for.
LiveIsBlocked ==
    \A i \in DOMAIN events : events[i].live <=> Blocked(events[i].thread)

\* No event has missed its thread once the kernel has been left.
FreeIsLive == ker = "free" => \A i \in DOMAIN events : events[i].live

\* ready and kererr clear _NTO_TIMEOUT_ACTIVE.
RunningIsIdle == \A t \in Thread : state[t] = "RUNNING" => ~active[t]

\* Clients alone wait for a reply.
ReplyIsClient == \A t \in Thread : state[t] = "REPLY" => t \in Client

IInv ==
    /\ TypeOK /\ NoArmedTimerWhenRunning /\ RunningIsIdle /\ ReplyIsClient
    /\ TickingIsArmed /\ LiveIsBlocked /\ FreeIsLive

HandlerTypes ==
    /\ time \in [Thread -> {"main", "handler"}] /\ handler \in [Thread -> BOOLEAN]
    /\ saved \in [Thread -> Request]

-----------------------------------------------------------------------------
(* The pieces of a kernel call *)

\* What Dispatch does, thread by thread
Moved(B, R, ev, ub) ==
    /\ state' \in [Thread -> States] /\ timer' \in [Thread -> {"none", "idle", "armed"}]
    /\ active' \in [Thread -> BOOLEAN] /\ flags' \in [Thread -> SUBSET Blocking]
    /\ imm' \in [Thread -> BOOLEAN] /\ unblock' \subseteq Client /\ pulses' \subseteq unblock'
    /\ taken' \subseteq Client /\ taken' = taken \ R /\ unblock' = ub \ R
    /\ events' \in Seq(Event) /\ DOMAIN events' = DOMAIN ev
    /\ \A i \in DOMAIN ev : /\ events'[i].thread = ev[i].thread /\ ev[i].thread \in Thread
                            /\ events'[i].live <=> (ev[i].live /\ ev[i].thread \notin R)
    /\ \A t \in DOMAIN B :
          /\ state'[t] = B[t] /\ flags'[t] = flags[t] /\ imm'[t] = imm[t]
          /\ IF timeout_start(t, B[t])
             THEN timer'[t] = "armed" /\ active'[t] /\ ticking = NONE
             ELSE timer'[t] = timer[t] /\ active'[t] = active[t]
    /\ \A t \in R : /\ state'[t] = "RUNNING" /\ flags'[t] = {} /\ ~imm'[t] /\ ~active'[t]
                    /\ IF active[t] THEN timer'[t] = "idle" /\ ticking = NONE ELSE timer'[t] = timer[t]
    /\ \A t \in Thread \ (R \cup DOMAIN B) :
          /\ state'[t] = state[t] /\ flags'[t] = flags[t] /\ imm'[t] = imm[t]
          /\ timer'[t] = timer[t] /\ active'[t] = active[t]

LEMMA DispatchEffect ==
    ASSUME NEW B, NEW R \in SUBSET Thread, NEW ev \in Seq(Event), NEW ub \in SUBSET Client, NEW pu \in SUBSET ub,
           DOMAIN B \subseteq Thread, \A t \in DOMAIN B : B[t] \in Blocking /\ t \notin R,
           TypeOK, Dispatch(B, R, ev, ub, pu)
    PROVE  Moved(B, R, ev, ub)
<1> DEFINE S == {t \in DOMAIN B : timeout_start(t, B[t])}
<1>1. /\ TICKER_WAIT(S \cup {t \in R : active[t]})
      /\ state' = [t \in Thread |-> IF t \in DOMAIN B THEN B[t] ELSE IF t \in R THEN "RUNNING" ELSE state[t]]
      /\ timer' = [t \in Thread |-> IF t \in S THEN "armed" ELSE IF t \in R THEN timeout_stop(t) ELSE timer[t]]
      /\ active' = [t \in Thread |-> t \notin R /\ (active[t] \/ t \in S)]
      /\ flags' = [t \in Thread |-> IF t \in R THEN {} ELSE flags[t]]
      /\ imm' = [t \in Thread |-> t \notin R /\ imm[t]]
      /\ events' = [i \in DOMAIN ev |-> [ev[i] EXCEPT !.live = @ /\ ev[i].thread \notin R]]
      /\ unblock' = ub \ R
      /\ pulses' = pu \ R
      /\ taken' = taken \ R
  BY DEF Dispatch, remove_unblock
<1>2. /\ events' \in Seq(Event) /\ DOMAIN events' = DOMAIN ev
      /\ \A i \in DOMAIN ev : /\ events'[i].thread = ev[i].thread /\ ev[i].thread \in Thread
                              /\ events'[i].live <=> (ev[i].live /\ ev[i].thread \notin R)
  <2>1. \A i \in DOMAIN ev : ev[i] \in Event
    OBVIOUS
  <2>2. \A i \in DOMAIN ev : [ev[i] EXCEPT !.live = @ /\ ev[i].thread \notin R] \in Event
    <3> TAKE i \in DOMAIN ev
    <3>1. ev[i] \in Event
      BY <2>1
    <3>2. (ev[i].live /\ ev[i].thread \notin R) \in BOOLEAN
      OBVIOUS
    <3> QED
      BY <3>1, <3>2, Zenon DEF Event
  <2>3. DOMAIN ev = 1 .. Len(ev) /\ Len(ev) \in Nat
    OBVIOUS
  <2>4. events' \in Seq(Event)
    BY <2>2, <2>3, <1>1
  <2>5. \A i \in DOMAIN ev : events'[i] = [ev[i] EXCEPT !.live = @ /\ ev[i].thread \notin R]
    BY <1>1
  <2> QED
    BY <1>1, <2>1, <2>4, <2>5, Zenon DEF Event
<1>3. \A t \in S \cup {u \in R : active[u]} : ticking = NONE
  BY <1>1 DEF TICKER_WAIT
<1>4. /\ state' \in [Thread -> States] /\ flags' \in [Thread -> SUBSET Blocking]
      /\ unblock' \subseteq Client /\ pulses' \subseteq unblock' /\ taken' \subseteq Client
  BY <1>1 DEF TypeOK, States
<1>5. imm' \in [Thread -> BOOLEAN] /\ active' \in [Thread -> BOOLEAN]
  <2>1. \A t \in Thread : (t \notin R /\ imm[t]) \in BOOLEAN /\ (t \notin R /\ (active[t] \/ t \in S)) \in BOOLEAN
    OBVIOUS
  <2> QED
    BY <2>1, <1>1
<1>6. timer' \in [Thread -> {"none", "idle", "armed"}]
  BY <1>1 DEF TypeOK, timeout_stop
<1>7. ASSUME NEW t \in DOMAIN B
      PROVE  /\ state'[t] = B[t] /\ flags'[t] = flags[t] /\ imm'[t] = imm[t]
             /\ IF timeout_start(t, B[t])
                THEN timer'[t] = "armed" /\ active'[t] /\ ticking = NONE
                ELSE timer'[t] = timer[t] /\ active'[t] = active[t]
  <2>1. t \in Thread /\ t \notin R /\ active[t] \in BOOLEAN /\ imm[t] \in BOOLEAN
    BY DEF TypeOK
  <2>2. t \in S <=> timeout_start(t, B[t])
    OBVIOUS
  <2>3. state'[t] = B[t] /\ flags'[t] = flags[t] /\ timer'[t] = IF t \in S THEN "armed" ELSE timer[t]
    BY <2>1, <1>1
  <2>4. imm'[t] = imm[t] /\ active'[t] = (active[t] \/ t \in S)
    BY <2>1, <1>1
  <2> HIDE DEF S
  <2> QED
    BY <2>1, <2>2, <2>3, <2>4, <1>3, Zenon
<1>8. ASSUME NEW t \in R
      PROVE  /\ state'[t] = "RUNNING" /\ flags'[t] = {} /\ ~imm'[t] /\ ~active'[t]
             /\ IF active[t] THEN timer'[t] = "idle" /\ ticking = NONE ELSE timer'[t] = timer[t]
  <2>1. t \in Thread /\ t \notin DOMAIN B /\ t \notin S
    OBVIOUS
  <2> HIDE DEF S
  <2> QED
    BY <2>1, <1>1, <1>3, Zenon DEF timeout_stop
<1>9. ASSUME NEW t \in Thread \ (R \cup DOMAIN B)
      PROVE  /\ state'[t] = state[t] /\ flags'[t] = flags[t] /\ imm'[t] = imm[t]
             /\ timer'[t] = timer[t] /\ active'[t] = active[t]
  <2>1. t \in Thread /\ t \notin DOMAIN B /\ t \notin S /\ t \notin R /\ active[t] \in BOOLEAN /\ imm[t] \in BOOLEAN
    BY DEF TypeOK
  <2> HIDE DEF S
  <2> QED
    BY <2>1, <1>1
<1> QED
  BY <1>1, <1>2, <1>4, <1>5, <1>6, <1>7, <1>8, <1>9, Zenon DEF Moved

\* A call that leaves the kernel to __ker_exit keeps the invariant if no thread that blocks
\* has an event queued, and the events it leaves are live for blocked threads alone.
LEMMA DispatchKeeps ==
    ASSUME NEW B, NEW R \in SUBSET Thread, NEW ev \in Seq(Event), NEW ub \in SUBSET Client, NEW pu \in SUBSET ub,
           DOMAIN B \subseteq Thread, \A t \in DOMAIN B : B[t] \in Blocking /\ t \notin R,
           \A t \in DOMAIN B : B[t] = "REPLY" => t \in Client,
           \A i \in DOMAIN ev : ev[i].thread \notin DOMAIN B /\ (ev[i].live <=> Blocked(ev[i].thread)),
           IInv, Dispatch(B, R, ev, ub, pu), ticking' = ticking, ker' = "exit", HandlerTypes'
    PROVE  IInv'
<1>0. Moved(B, R, ev, ub)
  BY DispatchEffect DEF IInv
<1> USE DEF IInv
<1>1. /\ state' \in [Thread -> States] /\ timer' \in [Thread -> {"none", "idle", "armed"}]
      /\ active' \in [Thread -> BOOLEAN] /\ flags' \in [Thread -> SUBSET Blocking]
      /\ imm' \in [Thread -> BOOLEAN] /\ unblock' \subseteq Client /\ pulses' \subseteq unblock'
      /\ taken' \subseteq Client /\ events' \in Seq(Event) /\ DOMAIN events' = DOMAIN ev
  BY <1>0 DEF Moved
<1>2. \A i \in DOMAIN ev : /\ events'[i].thread = ev[i].thread /\ ev[i].thread \in Thread
                           /\ events'[i].live <=> (ev[i].live /\ ev[i].thread \notin R)
  BY <1>0 DEF Moved
<1>3. \A t \in DOMAIN B : /\ state'[t] = B[t]
                          /\ IF timeout_start(t, B[t])
                             THEN timer'[t] = "armed" /\ active'[t] /\ ticking = NONE
                             ELSE timer'[t] = timer[t] /\ active'[t] = active[t]
  BY <1>0 DEF Moved
<1>4. \A t \in R : /\ state'[t] = "RUNNING" /\ ~active'[t]
                   /\ IF active[t] THEN timer'[t] = "idle" /\ ticking = NONE ELSE timer'[t] = timer[t]
  BY <1>0 DEF Moved
<1>5. \A t \in Thread \ (R \cup DOMAIN B) :
         state'[t] = state[t] /\ timer'[t] = timer[t] /\ active'[t] = active[t]
  BY <1>0 DEF Moved
<1>6. TypeOK'
  BY <1>1 DEF TypeOK, HandlerTypes, Event, Request
<1>7. NoArmedTimerWhenRunning'
  <2> SUFFICES ASSUME NEW t \in Thread, timer'[t] = "armed" PROVE state'[t] \in Blocking /\ active'[t]
    BY DEF NoArmedTimerWhenRunning, Blocked
  <2>1. CASE t \in DOMAIN B
    BY <2>1, <1>3 DEF NoArmedTimerWhenRunning
  <2>2. CASE t \in R
    BY <2>2, <1>4 DEF NoArmedTimerWhenRunning
  <2>3. CASE t \notin R \cup DOMAIN B
    BY <2>3, <1>5 DEF NoArmedTimerWhenRunning, Blocked
  <2> QED
    BY <2>1, <2>2, <2>3
<1>8. RunningIsIdle' /\ ReplyIsClient'
  BY <1>3, <1>4, <1>5 DEF RunningIsIdle, ReplyIsClient, Blocking
<1>9. TickingIsArmed'
  BY <1>3, <1>4, <1>5 DEF TickingIsArmed, NoArmedTimerWhenRunning, TypeOK
<1>10. LiveIsBlocked'
  <2> SUFFICES ASSUME NEW i \in DOMAIN ev PROVE events'[i].live <=> state'[events'[i].thread] \in Blocking
    BY <1>1 DEF LiveIsBlocked, Blocked
  <2>1. /\ events'[i].thread = ev[i].thread /\ ev[i].thread \in Thread
        /\ events'[i].live <=> (ev[i].live /\ ev[i].thread \notin R)
    BY <1>2
  <2>2. ev[i].thread \notin DOMAIN B /\ (ev[i].live <=> Blocked(ev[i].thread))
    OBVIOUS
  <2>3. CASE ev[i].thread \in R
    <3>1. state'[ev[i].thread] = "RUNNING"
      BY <2>3, <1>4
    <3>2. state'[ev[i].thread] \notin Blocking
      BY <3>1 DEF Blocking
    <3> QED
      BY <3>2, <2>1, <2>3
  <2>4. CASE ev[i].thread \notin R
    <3>1. state'[ev[i].thread] = state[ev[i].thread]
      BY <2>1, <2>2, <2>4, <1>5
    <3> QED
      BY <3>1, <2>1, <2>2, <2>4 DEF Blocked
  <2> QED
    BY <2>3, <2>4
<1>11. FreeIsLive'
  BY DEF FreeIsLive
<1> QED
  BY <1>6, <1>7, <1>8, <1>9, <1>10, <1>11

\* A thread that enters the kernel has no event queued and no timer armed.
LEMMA EnterIsClear ==
    ASSUME IInv, NEW t \in Thread, Enter(t)
    PROVE  /\ \A i \in DOMAIN events : events[i].live /\ Blocked(events[i].thread) /\ events[i].thread # t
           /\ timer[t] # "armed" /\ ~active[t] /\ ticking # t
<1>1. ~Blocked(t)
  BY DEF Enter, Blocked, Blocking
<1>2. timer[t] # "armed" /\ ~active[t]
  BY <1>1 DEF IInv, NoArmedTimerWhenRunning, RunningIsIdle, Enter
<1>3. ticking # t
  BY <1>2, TimeoutAssumption DEF IInv, TickingIsArmed
<1>4. \A i \in DOMAIN events : events[i].live /\ Blocked(events[i].thread)
  BY DEF IInv, FreeIsLive, LiveIsBlocked, Enter
<1> QED
  BY <1>1, <1>2, <1>3, <1>4

LEMMA EventThreads ==
    ASSUME IInv
    PROVE  \A i \in DOMAIN events : events[i].thread \in Thread /\ events[i].live \in BOOLEAN
<1>1. events \in Seq(Event)
  BY DEF IInv, TypeOK, Event
<1>2. \A i \in DOMAIN events : events[i] \in Event
  BY <1>1
<1> QED
  BY <1>2 DEF Event

\* Calls that only ready threads, and calls that only block their thread
LEMMA ReadyKeeps ==
    ASSUME IInv, NEW R \in SUBSET Thread, Ready(R), ticking' = ticking, ker' = "exit", HandlerTypes'
    PROVE  IInv'
<1>1. /\ DOMAIN <<>> = {} /\ events \in Seq(Event)
      /\ unblock \in SUBSET Client /\ pulses \in SUBSET unblock
  BY DEF IInv, TypeOK, Event
<1>2. \A i \in DOMAIN events : events[i].live <=> Blocked(events[i].thread)
  BY DEF IInv, LiveIsBlocked
<1>3. Dispatch(<<>>, R, events, unblock, pulses)
  BY DEF Ready
<1> QED
  BY <1>1, <1>2, <1>3, DispatchKeeps

LEMMA BlockKeeps ==
    ASSUME IInv, NEW t \in Thread, Enter(t), NEW R \in SUBSET (Thread \ {t}), NEW B, DOMAIN B = {t}, B[t] \in Blocking,
           B[t] = "REPLY" => t \in Client,
           Dispatch(B, R, events, unblock, pulses), ticking' = ticking, ker' = "exit", HandlerTypes'
    PROVE  IInv'
<1>1. events \in Seq(Event) /\ unblock \in SUBSET Client /\ pulses \in SUBSET unblock /\ R \in SUBSET Thread
  BY DEF IInv, TypeOK, Event
<1>2. \A i \in DOMAIN events : events[i].thread # t /\ (events[i].live <=> Blocked(events[i].thread))
  BY EnterIsClear
<1> QED
  BY <1>1, <1>2, DispatchKeeps

-----------------------------------------------------------------------------
(* The calls *)

\* TimerTimeout changes the request of a thread that runs.
LEMMA TimerTimeoutKeeps ==
    ASSUME IInv, NEW t \in Thread, NEW f \in SUBSET Blocking, NEW i \in BOOLEAN, TimerTimeout(t, f, i)
    PROVE  IInv'
<1>1. /\ \A k \in DOMAIN events : events[k].live /\ Blocked(events[k].thread) /\ events[k].thread # t
      /\ timer[t] # "armed" /\ ticking # t
  BY EnterIsClear DEF TimerTimeout
<1>2. /\ timer' \in [Thread -> {"none", "idle", "armed"}]
      /\ timer'[t] \in {"none", "idle"} /\ \A u \in Thread \ {t} : timer'[u] = timer[u]
  <2>1. CASE f = {}
    BY <2>1, Zenon DEF IInv, TypeOK, TimerTimeout
  <2>2. CASE f # {}
    BY <2>2, <1>1 DEF IInv, TypeOK, TimerTimeout
  <2> QED
    BY <2>1, <2>2
<1>3. TypeOK'
  <2>1. time' \in [Thread -> {"main", "handler"}]
    BY DEF IInv, TypeOK, TimerTimeout
  <2> QED
    BY <2>1, <1>2 DEF IInv, TypeOK, TimerTimeout
<1>4. UNCHANGED <<state, active, events, ticking>> /\ ker' = "exit"
  BY DEF TimerTimeout
<1>5. NoArmedTimerWhenRunning'
  BY <1>2, <1>4 DEF IInv, NoArmedTimerWhenRunning, Blocked
<1>6. TickingIsArmed' /\ RunningIsIdle' /\ ReplyIsClient' /\ FreeIsLive'
  BY <1>1, <1>2, <1>4 DEF IInv, TypeOK, TickingIsArmed, RunningIsIdle, ReplyIsClient, FreeIsLive
<1>7. LiveIsBlocked'
  BY <1>4, Zenon DEF IInv, LiveIsBlocked, Blocked
<1> QED
  BY <1>3, <1>5, <1>6, <1>7 DEF IInv

LEMMA ker_timer_timeoutKeeps ==
    ASSUME IInv, NEW t \in Thread, ker_timer_timeout(t)
    PROVE  IInv'
<1>1. \A f \in Requests(t) : f \in SUBSET Blocking
  BY DEF Requests, Blocking
<1> QED
  BY <1>1, TimerTimeoutKeeps, Zenon DEF ker_timer_timeout

LEMMA nanosleepKeeps ==
    ASSUME IInv, NEW t \in Thread, nanosleep(t)
    PROVE  IInv'
<1>1. \A k \in DOMAIN events : events[k].live /\ Blocked(events[k].thread) /\ events[k].thread # t
  BY EnterIsClear DEF nanosleep
<1>2. TypeOK'
  BY DEF IInv, TypeOK, nanosleep, States, Blocking
<1>3. /\ state'[t] = "NANOSLEEP" /\ timer'[t] = "armed" /\ active'[t]
      /\ \A u \in Thread \ {t} : state'[u] = state[u] /\ timer'[u] = timer[u] /\ active'[u] = active[u]
      /\ UNCHANGED <<events, ticking>> /\ ker' = "exit"
  BY DEF nanosleep, IInv, TypeOK
<1>4. NoArmedTimerWhenRunning' /\ RunningIsIdle' /\ ReplyIsClient'
  BY <1>3 DEF IInv, NoArmedTimerWhenRunning, RunningIsIdle, ReplyIsClient, Blocked, Blocking
<1>5. TickingIsArmed' /\ FreeIsLive'
  BY <1>3 DEF IInv, TypeOK, TickingIsArmed, FreeIsLive
<1>6. \A k \in DOMAIN events : events[k].thread \in Thread
  BY EventThreads
<1>7. LiveIsBlocked'
  BY <1>1, <1>3, <1>6 DEF LiveIsBlocked, Blocked
<1> QED
  BY <1>2, <1>4, <1>5, <1>7 DEF IInv

\* The calls that are a Dispatch and no more
LEMMA DispatchCallKeeps ==
    ASSUME IInv, NEW c \in Thread,
           timer_alloc_fails(c) \/ MsgSend(c) \/ MsgReply(c) \/ SyncMutexLock(c) \/ sync_wakeup(c) \/ MsgReceive
    PROVE  IInv'
<1>1. Server \in Thread /\ Server \notin Client
  BY TimeoutAssumption DEF Thread
<1>2. ticking' = ticking /\ ker' = "exit" /\ HandlerTypes'
  BY DEF IInv, TypeOK, HandlerTypes, Request, timer_alloc_fails, MsgSend, MsgReply, SyncMutexLock, sync_wakeup, MsgReceive
<1>3. ASSUME NEW R \in SUBSET Thread, Ready(R) PROVE IInv'
  BY <1>2, <1>3, ReadyKeeps
<1>4. ASSUME NEW t \in Thread, Enter(t), NEW s \in Blocking \ {"REPLY"}, Block(t, s) PROVE IInv'
  <2> DEFINE B == [u \in {t} |-> s]
  <2>1. Dispatch(B, {}, events, unblock, pulses) /\ DOMAIN B = {t} /\ B[t] \in Blocking /\ B[t] # "REPLY"
    BY <1>4 DEF Block
  <2> HIDE DEF B
  <2> QED
    BY <2>1, <1>2, <1>4, BlockKeeps
<1>5. CASE timer_alloc_fails(c) \/ MsgReply(c) \/ sync_wakeup(c)
  BY <1>1, <1>3, <1>5 DEF timer_alloc_fails, MsgReply, sync_wakeup
<1>6. CASE MsgSend(c)
  <2> DEFINE s == IF state[Server] = "RECEIVE" THEN "REPLY" ELSE "SEND"
             R == {t \in {Server} : s = "REPLY"}
             B == [t \in {c} |-> s]
  <2>1. R \in SUBSET (Thread \ {c}) /\ DOMAIN B = {c} /\ B[c] \in Blocking /\ c \in Client
    BY <1>1, <1>6 DEF MsgSend, Blocking
  <2>2. Enter(c) /\ (Ready({c}) \/ Dispatch(B, R, events, unblock, pulses))
    BY <1>6 DEF MsgSend
  <2> HIDE DEF s, R, B
  <2> QED
    BY <2>1, <2>2, <1>1, <1>2, <1>3, BlockKeeps
<1>7. CASE SyncMutexLock(c)
  BY <1>1, <1>3, <1>4, <1>7 DEF SyncMutexLock, Blocking
<1>8. CASE MsgReceive
  <2>1. ASSUME NEW d \in pulses, Dispatch(<<>>, {Server}, events, unblock, pulses \ {d}) PROVE IInv'
    <3>1. /\ DOMAIN <<>> = {} /\ events \in Seq(Event) /\ {Server} \in SUBSET Thread
          /\ unblock \in SUBSET Client /\ pulses \ {d} \in SUBSET unblock
      BY <1>1 DEF IInv, TypeOK, Event
    <3>2. \A i \in DOMAIN events : events[i].live <=> Blocked(events[i].thread)
      BY DEF IInv, LiveIsBlocked
    <3> QED
      BY <3>1, <3>2, <2>1, <1>2, DispatchKeeps
  <2>2. CASE Enter(Server) /\ (Ready({Server}) \/ Block(Server, "RECEIVE"))
    BY <2>2, <1>1, <1>3, <1>4 DEF Blocking
  <2> QED
    BY <2>1, <2>2, <1>8, Zenon DEF MsgReceive
<1> QED
  BY <1>5, <1>6, <1>7, <1>8

\* A sender that is received keeps its timer: it stays blocked.
LEMMA MsgReceiveSenderKeeps ==
    ASSUME IInv, NEW c \in Client, MsgReceiveSender(c)
    PROVE  IInv'
<1>1. Server \in Thread /\ c \in Thread
  BY DEF Thread
<1>2. ticking' = ticking /\ ker' = "exit" /\ HandlerTypes' /\ state[c] = "SEND"
  BY DEF IInv, TypeOK, HandlerTypes, Request, MsgReceiveSender
<1>3. CASE Ready({c})
  BY <1>1, <1>2, <1>3, ReadyKeeps
<1>4. CASE ~Ready({c})
  <2>1. /\ state' = [state EXCEPT ![c] = "REPLY"] /\ flags' = [flags EXCEPT ![Server] = {}]
        /\ imm' = [imm EXCEPT ![Server] = FALSE] /\ UNCHANGED <<active, timer, unblock, pulses, events>>
        /\ taken' \subseteq Client
    BY <1>4 DEF IInv, TypeOK, MsgReceiveSender
  <2>2. TypeOK'
    BY <2>1, <1>1, <1>2, Zenon DEF IInv, TypeOK, HandlerTypes, Request, States, Blocking
  <2>3. \A t \in Thread : (state'[t] \in Blocking <=> state[t] \in Blocking) /\ (state'[t] = "RUNNING" => state[t] = "RUNNING")
    BY <2>1, <1>1, <1>2 DEF IInv, TypeOK, Blocking
  <2>7. ReplyIsClient'
    BY <2>1, <1>1, Zenon DEF IInv, ReplyIsClient, TypeOK
  <2>4. NoArmedTimerWhenRunning' /\ RunningIsIdle' /\ TickingIsArmed' /\ FreeIsLive'
    BY <2>1, <2>3, <1>2 DEF IInv, NoArmedTimerWhenRunning, RunningIsIdle, TickingIsArmed, FreeIsLive, Blocked
  <2>5. \A i \in DOMAIN events : events[i].thread \in Thread
    BY EventThreads
  <2>6. LiveIsBlocked'
    BY <2>1, <2>3, <2>5 DEF IInv, LiveIsBlocked, Blocked
  <2> QED
    BY <2>2, <2>4, <2>6, <2>7 DEF IInv
<1> QED
  BY <1>3, <1>4

-----------------------------------------------------------------------------
(* Forced wake-up and signals *)

LEMMA ForceReadyKeeps ==
    ASSUME IInv, NEW t \in Thread, NEW ev \in Seq(Event), force_ready(t, ev),
           \A i \in DOMAIN ev : ev[i].live <=> Blocked(ev[i].thread),
           ticking' = ticking, ker' = "exit", HandlerTypes'
    PROVE  IInv'
<1>1. Server \in Thread /\ DOMAIN <<>> = {}
  BY DEF Thread
<1>2. unblock \in SUBSET Client /\ pulses \in SUBSET unblock
  BY DEF IInv, TypeOK
<1>3. ASSUME NEW R \in SUBSET Thread, NEW ub \in SUBSET Client, NEW pu \in SUBSET ub, Dispatch(<<>>, R, ev, ub, pu)
      PROVE  IInv'
  BY <1>1, <1>3, DispatchKeeps
<1>4. CASE Dispatch(<<>>, {}, ev, unblock, pulses) \/ Dispatch(<<>>, {t}, ev, unblock, pulses)
  BY <1>2, <1>3, <1>4
<1>5. CASE Stays(t) /\ (\/ Dispatch(<<>>, {Server}, ev, unblock \cup {t}, pulses)
                        \/ Dispatch(<<>>, {}, ev, unblock \cup {t}, pulses \cup {t}))
  <2>1. t \in Client
    BY <1>5 DEF IInv, ReplyIsClient, Stays
  <2>2. /\ unblock \cup {t} \in SUBSET Client /\ pulses \in SUBSET (unblock \cup {t})
        /\ pulses \cup {t} \in SUBSET (unblock \cup {t}) /\ {Server} \in SUBSET Thread /\ {} \in SUBSET Thread
    BY <2>1, <1>1, <1>2
  <2> QED
    BY <2>2, <1>3, <1>5
<1> QED
  BY <1>4, <1>5 DEF force_ready

LEMMA signal_kill_threadKeeps ==
    ASSUME IInv, NEW t \in Client, signal_kill_thread(t)
    PROVE  IInv'
<1>1. t \in Thread /\ events \in Seq(Event)
  BY DEF Thread, IInv, TypeOK, Event
<1>2. \A i \in DOMAIN events : events[i].live <=> Blocked(events[i].thread)
  BY DEF IInv, LiveIsBlocked
<1>3. Saved(t) \in Request
  BY <1>1, Zenon DEF IInv, TypeOK, Saved, NoRequest, Request
<1>4. HandlerTypes' /\ ticking' = ticking /\ ker' = "exit"
  <2>1. time' = time /\ ticking' = ticking /\ ker' = "exit"
    BY DEF signal_kill_thread
  <2>2. \/ UNCHANGED <<saved, handler>>
        \/ saved' = [saved EXCEPT ![t] = Saved(t)] /\ handler' = [handler EXCEPT ![t] = TRUE]
    BY DEF signal_kill_thread
  <2>3. saved \in [Thread -> Request] /\ handler \in [Thread -> BOOLEAN] /\ time \in [Thread -> {"main", "handler"}]
    BY DEF IInv, TypeOK, Request
  <2> QED
    BY <2>1, <2>2, <2>3, <1>1, <1>3, Zenon DEF HandlerTypes
<1>5. CASE Blocked(t)
  <2>1. force_ready(t, events)
    BY <1>5 DEF signal_kill_thread
  <2> QED
    BY <2>1, <1>1, <1>2, <1>4, ForceReadyKeeps
<1>6. CASE ~Blocked(t)
  <2>1. Ready({t}) /\ {t} \in SUBSET Thread
    BY <1>1, <1>6 DEF signal_kill_thread
  <2> QED
    BY <2>1, <1>4, ReadyKeeps
<1> QED
  BY <1>5, <1>6

LEMMA ker_signal_returnKeeps ==
    ASSUME IInv, NEW t \in Client, ker_signal_return(t)
    PROVE  IInv'
<1>0. t \in Thread
  BY Zenon DEF Thread
<1>1. /\ \A i \in DOMAIN events : events[i].live /\ Blocked(events[i].thread) /\ events[i].thread # t
      /\ timer[t] # "armed" /\ ~active[t] /\ ticking # t /\ state[t] = "RUNNING"
  BY <1>0, EnterIsClear, SMTT(30) DEF ker_signal_return, Enter
<1>2. UNCHANGED <<unblock, pulses, taken, ticking, events>> /\ ker' = "exit"
  BY DEF ker_signal_return
<1>3. saved \in [Thread -> Request] /\ handler \in [Thread -> BOOLEAN] /\ NoRequest \in Request
  BY SMTT(30) DEF IInv, TypeOK, Request, NoRequest
<1>4. saved' \in [Thread -> Request] /\ handler' \in [Thread -> BOOLEAN]
  BY <1>3, Zenon DEF ker_signal_return
<1>5. /\ state' \in [Thread -> States] /\ flags' \in [Thread -> SUBSET Blocking] /\ imm' \in [Thread -> BOOLEAN]
      /\ active' \in [Thread -> BOOLEAN] /\ timer' \in [Thread -> {"none", "idle", "armed"}]
      /\ time' \in [Thread -> {"main", "handler"}]
  <2>1. /\ saved[t].flags \in SUBSET Blocking /\ saved[t].imm \in BOOLEAN /\ saved[t].time \in {"main", "handler"}
        /\ {"MUTEX"} \in SUBSET Blocking /\ "MUTEX" \in States
    BY <1>0, <1>3 DEF Request, States, Blocking
  <2> DEFINE back == saved[t].flags # {} /\ timer[t] # "none"
             arm  == saved[t].mutex = "timed" /\ timer[t] # "none"
  <2>2. CASE /\ flags' = [flags EXCEPT ![t] = IF back THEN saved[t].flags ELSE {}]
             /\ imm' = [imm EXCEPT ![t] = back /\ saved[t].imm]
             /\ time' = [time EXCEPT ![t] = IF back THEN saved[t].time ELSE @]
             /\ UNCHANGED <<state, active, timer>>
    <3>1. (back /\ saved[t].imm) \in BOOLEAN
      OBVIOUS
    <3> QED
      BY <3>1, <2>1, <2>2, Zenon DEF IInv, TypeOK
  <2>3. CASE /\ state' = [state EXCEPT ![t] = "MUTEX"]
             /\ flags' = [flags EXCEPT ![t] = IF saved[t].mutex = "timed" THEN {"MUTEX"} ELSE {}]
             /\ active' = [active EXCEPT ![t] = arm]
             /\ timer' = [timer EXCEPT ![t] = IF arm THEN "armed" ELSE @]
             /\ UNCHANGED <<imm, time>>
    <3>1. arm \in BOOLEAN
      OBVIOUS
    <3> QED
      BY <3>1, <2>1, <2>3, Zenon DEF IInv, TypeOK
  <2> QED
    BY <2>2, <2>3 DEF ker_signal_return
<1>6. TypeOK'
  BY <1>2, <1>4, <1>5, Zenon DEF IInv, TypeOK, Request
<1>7. /\ \A u \in Thread \ {t} : state'[u] = state[u] /\ active'[u] = active[u] /\ timer'[u] = timer[u]
      /\ \/ state'[t] = "RUNNING" /\ ~active'[t] /\ timer'[t] # "armed"
         \/ state'[t] = "MUTEX" /\ (timer'[t] = "armed" => active'[t])
  BY <1>0, <1>1, Zenon DEF ker_signal_return, IInv, TypeOK
<1>8. NoArmedTimerWhenRunning' /\ RunningIsIdle' /\ ReplyIsClient'
  BY <1>7, Zenon DEF IInv, NoArmedTimerWhenRunning, RunningIsIdle, ReplyIsClient, Blocked, Blocking
<1>9. TickingIsArmed' /\ FreeIsLive'
  BY <1>1, <1>2, <1>7 DEF IInv, TypeOK, TickingIsArmed, FreeIsLive
<1>10. LiveIsBlocked'
  BY <1>1, <1>2, <1>7, EventThreads DEF LiveIsBlocked, Blocked
<1> QED
  BY <1>6, <1>8, <1>9, <1>10 DEF IInv

-----------------------------------------------------------------------------
(* The clock interrupt and the way out of the kernel *)

\* An event is queued for a timer that is armed, so its thread is blocked.
LEMMA intrevent_addKeeps ==
    ASSUME IInv, NEW t \in Thread, intrevent_add(t)
    PROVE  IInv'
<1>1. ticking = t /\ t # NONE
  BY TimeoutAssumption DEF intrevent_add
<1>2. timer[t] = "armed"
  BY <1>1 DEF IInv, TickingIsArmed
<1>3. state[t] \in Blocking
  BY <1>2 DEF IInv, NoArmedTimerWhenRunning, Blocked
<1> DEFINE e == [thread |-> t, live |-> TRUE]
<1>4. events' = Append(events, e) /\ events \in Seq(Event) /\ e \in Event
  BY <1>2, Zenon DEF intrevent_add, IInv, TypeOK, Event
<1>5. /\ timer'[t] = "idle" /\ \A u \in Thread \ {t} : timer'[u] = timer[u]
      /\ timer' \in [Thread -> {"none", "idle", "armed"}]
  BY <1>2 DEF intrevent_add, IInv, TypeOK
<1>6. UNCHANGED <<state, flags, imm, active, time, handler, saved, unblock, pulses, taken, ker>> /\ ticking' = NONE
  BY DEF intrevent_add
<1>7. /\ events' \in Seq(Event) /\ DOMAIN events' = 1 .. Len(events) + 1 /\ DOMAIN events = 1 .. Len(events)
      /\ \A i \in DOMAIN events : events'[i] = events[i]
      /\ events'[Len(events) + 1] = e
  BY <1>4
<1>8. \A i \in DOMAIN events' : i \in DOMAIN events \/ events'[i] = e
  BY <1>7
<1>9. e.live /\ e.thread = t
  OBVIOUS
<1> HIDE DEF e
<1>10. TypeOK'
  BY <1>5, <1>6, <1>7, Zenon DEF IInv, TypeOK, Event
<1>11. NoArmedTimerWhenRunning' /\ RunningIsIdle' /\ ReplyIsClient' /\ TickingIsArmed'
  BY <1>5, <1>6 DEF IInv, NoArmedTimerWhenRunning, RunningIsIdle, ReplyIsClient, TickingIsArmed, Blocked
<1>12. LiveIsBlocked'
  BY <1>3, <1>6, <1>7, <1>8, <1>9, Zenon DEF IInv, LiveIsBlocked, Blocked
<1>13. FreeIsLive'
  BY <1>6, <1>7, <1>8, <1>9, Zenon DEF IInv, FreeIsLive
<1> QED
  BY <1>10, <1>11, <1>12, <1>13 DEF IInv

\* Whoever leaves the kernel delivers the events first.
LEMMA ExitKeeps ==
    ASSUME IInv, intr_exit \/ intrevent_drain \/ ker_exit
    PROVE  IInv'
<1>1. CASE intr_exit \/ ker_exit
  <2>1. UNCHANGED <<kvars, time, handler, saved, ticking>> /\ ker' \in {"free", "exit"}
    BY <1>1 DEF intr_exit, ker_exit
  <2>2. TypeOK'
    BY <2>1, Zenon DEF IInv, TypeOK, kvars
  <2>3. NoArmedTimerWhenRunning' /\ RunningIsIdle' /\ ReplyIsClient' /\ TickingIsArmed'
    BY <2>1 DEF IInv, NoArmedTimerWhenRunning, RunningIsIdle, ReplyIsClient, TickingIsArmed, Blocked, kvars
  <2>4. LiveIsBlocked'
    BY <2>1, Zenon DEF IInv, LiveIsBlocked, Blocked, kvars
  <2>5. FreeIsLive'
    BY <1>1 DEF intr_exit, ker_exit, FreeIsLive, kvars
  <2> QED
    BY <2>2, <2>3, <2>4, <2>5 DEF IInv
<1>2. CASE intrevent_drain
  <2> DEFINE ev == Tail(events)
             t  == Head(events).thread
  <2>1. events \in Seq(Event) /\ events # <<>>
    BY <1>2 DEF intrevent_drain, IInv, TypeOK, Event
  <2>2. ev \in Seq(Event) /\ Head(events) \in Event /\ \A i \in DOMAIN ev : i + 1 \in DOMAIN events /\ ev[i] = events[i + 1]
    BY <2>1
  <2>3. t \in Thread
    BY <2>2 DEF Event
  <2>4. \A i \in DOMAIN ev : ev[i].live <=> Blocked(ev[i].thread)
    BY <2>2, Zenon DEF IInv, LiveIsBlocked
  <2>5. force_ready(t, ev) /\ ticking' = ticking /\ ker' = "exit"
    BY <1>2 DEF intrevent_drain
  <2>6. HandlerTypes'
    BY <1>2 DEF intrevent_drain, IInv, TypeOK, HandlerTypes, Request
  <2> HIDE DEF ev, t
  <2> QED
    BY <2>2, <2>3, <2>4, <2>5, <2>6, ForceReadyKeeps, Zenon
<1> QED
  BY <1>1, <1>2

LEMMA NextKeeps ==
    ASSUME IInv, [Next]_vars
    PROVE  IInv'
<1>1. ASSUME NEW t \in Thread, timer_fire(t) PROVE IInv'
  <2>1. UNCHANGED <<kvars, time, handler, saved, ker>> /\ ticking' = t /\ timer[t] = "armed"
    BY <1>1 DEF timer_fire
  <2>2. TypeOK' /\ TickingIsArmed'
    BY <2>1 DEF IInv, TypeOK, TickingIsArmed, kvars
  <2>3. NoArmedTimerWhenRunning' /\ RunningIsIdle' /\ ReplyIsClient' /\ FreeIsLive'
    BY <2>1 DEF IInv, NoArmedTimerWhenRunning, RunningIsIdle, ReplyIsClient, FreeIsLive, Blocked, kvars
  <2>4. LiveIsBlocked'
    BY <2>1, Zenon DEF IInv, LiveIsBlocked, Blocked, kvars
  <2> QED
    BY <2>2, <2>3, <2>4 DEF IInv
<1>2. Server \in Thread /\ Client \subseteq Thread
  BY DEF Thread
<1>3. ASSUME NEW t \in Thread, timer_alloc_fails(t) \/ MsgReceive PROVE IInv'
  BY <1>3, DispatchCallKeeps
<1>4. CASE UNCHANGED vars
  <2>1. TypeOK'
    BY <1>4 DEF IInv, TypeOK, vars
  <2>2. NoArmedTimerWhenRunning' /\ RunningIsIdle' /\ ReplyIsClient' /\ TickingIsArmed' /\ FreeIsLive'
    BY <1>4 DEF IInv, NoArmedTimerWhenRunning, RunningIsIdle, ReplyIsClient, TickingIsArmed, FreeIsLive, Blocked, vars
  <2>3. LiveIsBlocked'
    BY <1>4, Zenon DEF IInv, LiveIsBlocked, Blocked, vars
  <2> QED
    BY <2>1, <2>2, <2>3 DEF IInv
<1> QED
  BY <1>1, <1>2, <1>3, <1>4, ker_timer_timeoutKeeps, nanosleepKeeps, DispatchCallKeeps, MsgReceiveSenderKeeps,
     signal_kill_threadKeeps, ker_signal_returnKeeps, intrevent_addKeeps, ExitKeeps, Zenon DEF Next

-----------------------------------------------------------------------------
(* Theorems *)

LEMMA InitHolds ==
    ASSUME Init
    PROVE  IInv
<1>1. TypeOK
  BY DEF Init, TypeOK, NoRequest, States, Blocking
<1>2. NoArmedTimerWhenRunning /\ RunningIsIdle /\ ReplyIsClient /\ TickingIsArmed /\ LiveIsBlocked /\ FreeIsLive
  BY DEF Init, NoArmedTimerWhenRunning, RunningIsIdle, ReplyIsClient, TickingIsArmed, LiveIsBlocked, FreeIsLive
<1> QED
  BY <1>1, <1>2, SMTT(30) DEF IInv

\* The inductive invariant holds: no call, interrupt or wake-up breaks it.
THEOREM Invariance == Spec => []IInv
<1>1. Init => IInv
  BY InitHolds
<1>2. IInv /\ [Next]_vars => IInv'
  BY NextKeeps
<1> QED
  BY <1>1, <1>2, PTL DEF Spec

\* The states of threads, timers, requests and events keep their types.
THEOREM TypeCorrect == Spec => []TypeOK
<1>1. IInv => TypeOK
  BY DEF IInv
<1> QED
  BY <1>1, Invariance, PTL

\* No timeout hits a later call, whatever calls, signals and clock interrupts meet: an event
\* that sigevent_exe delivers after its thread was readied finds the thread running.
THEOREM NoTimeoutIsStale == Spec => []NoStaleTimeout
<1>1. IInv => NoStaleTimeout
  BY Zenon DEF IInv, LiveIsBlocked, NoStaleTimeout
<1> QED
  BY <1>1, Invariance, PTL

\* TimerTimeout and timer_free never find the timer of a running thread armed: their
\* crash() is not reached.
THEOREM RunningThreadsAreUnarmed == Spec => []NoArmedTimerWhenRunning
<1>1. IInv => NoArmedTimerWhenRunning
  BY DEF IInv
<1> QED
  BY <1>1, Invariance, PTL
-----------------------------------------------------------------------------
(***************************************************************************)
(* While no timeout is cancelled, a call that asked for a timeout has one. *)
(***************************************************************************)

\* A thread with a request, an active timeout or a saved one has a timer, unless the program
\* deletes it.
TimerExists ==
    \A t \in Thread : active[t] \/ flags[t] # {} \/ saved[t].mutex = "timed" => timer[t] # "none"

HasEvent(t, ev) == \E i \in DOMAIN ev : ev[i].thread = t

CInv == IInv /\ TimerExists /\ BlockedIsCovered

LEMMA MovedKeepsRequests ==
    ASSUME CInv, NEW B, NEW R \in SUBSET Thread, NEW ev \in Seq(Event), NEW ub, unblock \subseteq ub,
           Moved(B, R, ev, ub),
           \A t \in DOMAIN B : ~active[t],
           \A t \in Thread : saved'[t].mutex = "timed" => saved[t].mutex = "timed" \/ active[t],
           \A t \in Thread \ (R \cup DOMAIN B) : Blocked(t) /\ HasEvent(t, events) => HasEvent(t, ev) \/ t \in ub
    PROVE  TimerExists' /\ BlockedIsCovered'
<1>1. \A t \in DOMAIN B : /\ state'[t] = B[t] /\ flags'[t] = flags[t]
                          /\ IF timeout_start(t, B[t])
                             THEN timer'[t] = "armed" /\ active'[t] /\ ticking = NONE
                             ELSE timer'[t] = timer[t] /\ active'[t] = active[t]
  BY Zenon DEF Moved
<1>2. \A t \in R : /\ state'[t] = "RUNNING" /\ flags'[t] = {} /\ ~active'[t]
                   /\ IF active[t] THEN timer'[t] = "idle" ELSE timer'[t] = timer[t]
  BY Zenon DEF Moved
<1>3. \A t \in Thread \ (R \cup DOMAIN B) :
         state'[t] = state[t] /\ flags'[t] = flags[t] /\ timer'[t] = timer[t] /\ active'[t] = active[t]
  BY Zenon DEF Moved
<1>4. ASSUME NEW t \in Thread, active'[t] \/ flags'[t] # {} \/ saved'[t].mutex = "timed" PROVE timer'[t] # "none"
  <2>1. active[t] \/ flags[t] # {} \/ saved[t].mutex = "timed" => timer[t] # "none"
    BY Zenon DEF CInv, TimerExists
  <2>2. CASE t \in DOMAIN B
    BY <2>1, <2>2, <1>1, <1>4, Zenon
  <2>3. CASE t \in R
    BY <2>1, <2>3, <1>2, <1>4, Zenon
  <2>4. CASE t \notin R \cup DOMAIN B
    BY <2>1, <2>4, <1>3, <1>4, Zenon
  <2> QED
    BY <2>2, <2>3, <2>4, Zenon
<1>5. ASSUME NEW t \in Thread, state'[t] \in Blocking, state'[t] \in flags'[t], t \in taken' => "SEND" \in flags'[t]
      PROVE  timer'[t] = "armed" \/ HasEvent(t, events') \/ t \in unblock'
  <2>1. CASE t \in DOMAIN B
    <3>1. timer[t] # "none"
      BY <2>1, <1>1, <1>5, Zenon DEF CInv, TimerExists
    <3> QED
      BY <3>1, <2>1, <1>1, <1>5, Zenon DEF timeout_start
  <2>2. CASE t \in R
    BY <2>2, <1>2, <1>5, Zenon
  <2>3. CASE t \notin R \cup DOMAIN B
    <3>1. t \in taken => t \in taken'
      BY <2>3, Zenon DEF Moved
    <3>2. Blocked(t) /\ Asked(t)
      BY <3>1, <2>3, <1>3, <1>5, Zenon DEF Blocked, Asked
    <3>3. timer[t] = "armed" \/ HasEvent(t, events) \/ t \in unblock
      BY <3>2, Zenon DEF CInv, BlockedIsCovered, Covered, HasEvent
    <3>4. CASE HasEvent(t, ev)
      <4>1. PICK i \in DOMAIN ev : ev[i].thread = t
        BY <3>4, Zenon DEF HasEvent
      <4>2. i \in DOMAIN events' /\ events'[i].thread = t
        BY <4>1, Zenon DEF Moved
      <4> QED
        BY <4>2, Zenon DEF HasEvent
    <3>5. t \in ub => t \in unblock'
      BY <2>3, Zenon DEF Moved
    <3> QED
      BY <3>2, <3>3, <3>4, <3>5, <2>3, <1>3, Zenon
  <2> QED
    BY <2>1, <2>2, <2>3, Zenon
<1> QED
  BY <1>4, <1>5, Zenon DEF TimerExists, BlockedIsCovered, Asked, Covered, Blocked, HasEvent

\* A call that leaves the saved requests alone and takes no event off the queue.
LEMMA DispatchKeepsRequests ==
    ASSUME CInv, NEW B, NEW R \in SUBSET Thread, NEW pu \in SUBSET unblock,
           DOMAIN B \subseteq Thread, \A t \in DOMAIN B : B[t] \in Blocking /\ t \notin R /\ ~active[t],
           \A t \in Thread : saved'[t].mutex = "timed" => saved[t].mutex = "timed" \/ active[t],
           Dispatch(B, R, events, unblock, pu)
    PROVE  TimerExists' /\ BlockedIsCovered'
<1>1. events \in Seq(Event) /\ unblock \in SUBSET Client /\ TypeOK
  BY DEF CInv, IInv, TypeOK, Event
<1>2. Moved(B, R, events, unblock)
  BY <1>1, DispatchEffect
<1> QED
  BY <1>1, <1>2, MovedKeepsRequests, Zenon

LEMMA CallKeepsRequests ==
    ASSUME CInv, NEW c \in Thread,
           timer_alloc_fails(c) \/ MsgSend(c) \/ MsgReply(c) \/ SyncMutexLock(c) \/ sync_wakeup(c) \/ MsgReceive
    PROVE  TimerExists' /\ BlockedIsCovered'
<1>1. Server \in Thread /\ Server \notin Client /\ pulses \in SUBSET unblock /\ DOMAIN <<>> = {}
  BY TimeoutAssumption DEF Thread, CInv, IInv, TypeOK
<1>2. \A t \in Thread : saved'[t].mutex = "timed" => saved[t].mutex = "timed" \/ active[t]
  BY Zenon DEF timer_alloc_fails, MsgSend, MsgReply, SyncMutexLock, sync_wakeup, MsgReceive
<1>3. ASSUME NEW R \in SUBSET Thread, Ready(R) PROVE TimerExists' /\ BlockedIsCovered'
  <2>1. Dispatch(<<>>, R, events, unblock, pulses)
    BY <1>3, Zenon DEF Ready
  <2> QED
    BY <2>1, <1>1, <1>2, DispatchKeepsRequests
<1>4. ASSUME NEW t \in Thread, Enter(t), NEW B, DOMAIN B = {t}, B[t] \in Blocking, NEW R \in SUBSET (Thread \ {t}),
             Dispatch(B, R, events, unblock, pulses)
      PROVE  TimerExists' /\ BlockedIsCovered'
  <2>1. ~active[t] /\ R \in SUBSET Thread
    BY <1>4, EnterIsClear DEF CInv
  <2> QED
    BY <2>1, <1>1, <1>2, <1>4, DispatchKeepsRequests
<1>5. ASSUME NEW t \in Thread, Enter(t), NEW s \in Blocking, Block(t, s) PROVE TimerExists' /\ BlockedIsCovered'
  <2> DEFINE B == [u \in {t} |-> s]
  <2>1. Dispatch(B, {}, events, unblock, pulses) /\ DOMAIN B = {t} /\ B[t] \in Blocking
    BY <1>5, Zenon DEF Block
  <2> HIDE DEF B
  <2> QED
    BY <2>1, <1>4, <1>5
<1>6. CASE timer_alloc_fails(c) \/ MsgReply(c) \/ sync_wakeup(c)
  BY <1>3, <1>6 DEF timer_alloc_fails, MsgReply, sync_wakeup
<1>7. CASE MsgSend(c)
  <2> DEFINE s == IF state[Server] = "RECEIVE" THEN "REPLY" ELSE "SEND"
             R == {t \in {Server} : s = "REPLY"}
             B == [t \in {c} |-> s]
  <2>1. R \in SUBSET (Thread \ {c}) /\ DOMAIN B = {c} /\ B[c] \in Blocking
    BY <1>1, <1>7 DEF MsgSend, Blocking
  <2>2. Enter(c) /\ (Ready({c}) \/ Dispatch(B, R, events, unblock, pulses))
    BY <1>7 DEF MsgSend
  <2> HIDE DEF s, R, B
  <2> QED
    BY <2>1, <2>2, <1>3, <1>4
<1>8. CASE SyncMutexLock(c)
  BY <1>3, <1>5, <1>8 DEF SyncMutexLock, Blocking
<1>9. CASE MsgReceive
  <2>1. ASSUME NEW d \in pulses, Dispatch(<<>>, {Server}, events, unblock, pulses \ {d})
        PROVE  TimerExists' /\ BlockedIsCovered'
    <3>1. pulses \ {d} \in SUBSET unblock /\ {Server} \in SUBSET Thread
      BY <1>1
    <3> QED
      BY <3>1, <2>1, <1>1, <1>2, DispatchKeepsRequests
  <2>2. CASE Enter(Server) /\ (Ready({Server}) \/ Block(Server, "RECEIVE"))
    BY <2>2, <1>1, <1>3, <1>5 DEF Blocking
  <2> QED
    BY <2>1, <2>2, <1>9, Zenon DEF MsgReceive
<1> QED
  BY <1>6, <1>7, <1>8, <1>9

\* The calls that change requests, and the receipt of a queued sender
LEMMA RequestCallKeepsRequests ==
    ASSUME CInv, "delete" \notin Features, NEW t \in Thread, ker_timer_timeout(t) \/ nanosleep(t)
    PROVE  TimerExists' /\ BlockedIsCovered'
<1>1. UNCHANGED <<saved, events, unblock, taken>>
  BY Zenon DEF ker_timer_timeout, TimerTimeout, nanosleep
<1>2. \A u \in Thread \ {t} : /\ state'[u] = state[u] /\ flags'[u] = flags[u]
                              /\ timer'[u] = timer[u] /\ active'[u] = active[u]
  BY DEF ker_timer_timeout, TimerTimeout, nanosleep, CInv, IInv, TypeOK
<1>3. timer'[t] # "none" /\ (state'[t] = "RUNNING" \/ timer'[t] = "armed")
  <2>1. CASE nanosleep(t)
    BY <2>1 DEF nanosleep, CInv, IInv, TypeOK
  <2>2. ASSUME NEW i \in BOOLEAN, NEW f \in Requests(t), TimerTimeout(t, f, i)
        PROVE  timer'[t] # "none" /\ state'[t] = "RUNNING"
    <3>1. f # {}
      BY DEF Requests
    <3> QED
      BY <3>1, <2>2 DEF TimerTimeout, Enter, CInv, IInv, TypeOK
  <2> QED
    BY <2>1, <2>2, Zenon DEF ker_timer_timeout
<1>4. TimerExists'
  BY <1>1, <1>2, <1>3 DEF CInv, TimerExists
<1>5. BlockedIsCovered'
  BY <1>1, <1>2, <1>3 DEF CInv, BlockedIsCovered, Asked, Covered, Blocked, Blocking
<1> QED
  BY <1>4, <1>5, Zenon

LEMMA MsgReceiveSenderKeepsRequests ==
    ASSUME CInv, NEW c \in Client, MsgReceiveSender(c)
    PROVE  TimerExists' /\ BlockedIsCovered'
<1>1. c \in Thread /\ Server \in Thread /\ DOMAIN <<>> = {} /\ pulses \in SUBSET unblock /\ saved' = saved
  BY DEF Thread, CInv, IInv, TypeOK, MsgReceiveSender
<1>2. CASE Ready({c})
  <2>1. Dispatch(<<>>, {c}, events, unblock, pulses)
    BY <1>2, Zenon DEF Ready
  <2> QED
    BY <2>1, <1>1, DispatchKeepsRequests
<1>3. CASE ~Ready({c})
  <2>1. /\ state' = [state EXCEPT ![c] = "REPLY"] /\ flags' = [flags EXCEPT ![Server] = {}]
        /\ UNCHANGED <<active, timer, unblock, events>> /\ taken' = taken \cup {c} /\ state[c] = "SEND"
    BY <1>3, Zenon DEF MsgReceiveSender
  <2>2. /\ \A t \in Thread : flags'[t] \subseteq flags[t] /\ (t # c => state'[t] = state[t])
        /\ state'[c] = "REPLY"
    BY <2>1, <1>1, Zenon DEF CInv, IInv, TypeOK
  <2>3. TimerExists'
    BY <2>1, <2>2, <1>1, Zenon DEF CInv, TimerExists
  <2>4. ASSUME NEW t \in Thread, Asked(t)' PROVE Asked(t)
    <3>1. CASE t = c
      BY <3>1, <2>1, <2>2, <2>4 DEF Asked, Blocked, Blocking
    <3>2. CASE t # c
      BY <3>2, <2>1, <2>2, <2>4, Zenon DEF Asked, Blocked
    <3> QED
      BY <3>1, <3>2
  <2>5. \A t \in Thread : Covered(t) => Covered(t)'
    BY <2>1, Zenon DEF Covered
  <2> QED
    BY <2>3, <2>4, <2>5, Zenon DEF CInv, BlockedIsCovered
<1> QED
  BY <1>2, <1>3

\* force_ready, called for a signal or for the first event of the queue
LEMMA ForceReadyKeepsRequests ==
    ASSUME CInv, NEW t \in Thread, NEW ev \in Seq(Event), force_ready(t, ev),
           \A u \in Thread : saved'[u].mutex = "timed" => saved[u].mutex = "timed" \/ active[u],
           \A u \in Thread : HasEvent(u, events) => HasEvent(u, ev) \/ u = t
    PROVE  TimerExists' /\ BlockedIsCovered'
<1>1. Server \in Thread /\ DOMAIN <<>> = {} /\ TypeOK
  BY DEF Thread, CInv, IInv
<1>2. unblock \in SUBSET Client /\ pulses \in SUBSET unblock
  BY Zenon DEF CInv, IInv, TypeOK
<1>3. ASSUME NEW R \in SUBSET Thread, NEW ub \in SUBSET Client, NEW pu \in SUBSET ub, Dispatch(<<>>, R, ev, ub, pu),
             unblock \subseteq ub, t \in R \/ ~Blocked(t) \/ t \in ub
      PROVE  TimerExists' /\ BlockedIsCovered'
  <2>1. Moved(<<>>, R, ev, ub)
    BY <1>1, <1>3, DispatchEffect, Zenon
  <2> QED
    BY <2>1, <1>1, <1>3, MovedKeepsRequests, Zenon
<1>4. CASE ~Blocked(t)
  <2>1. Dispatch(<<>>, {}, ev, unblock, pulses)
    BY <1>4, Zenon DEF force_ready
  <2> QED
    BY <2>1, <1>2, <1>3, <1>4, Zenon
<1>5. CASE Blocked(t) /\ ~Stays(t)
  <2>1. Dispatch(<<>>, {t}, ev, unblock, pulses)
    BY <1>5, Zenon DEF force_ready
  <2> QED
    BY <2>1, <1>2, <1>3, Zenon
<1>6. CASE Blocked(t) /\ Stays(t)
  <2>1. t \in Client /\ state[t] = "REPLY"
    BY <1>6, Zenon DEF CInv, IInv, ReplyIsClient, Stays
  <2>2. /\ unblock \cup {t} \in SUBSET Client /\ pulses \in SUBSET (unblock \cup {t})
        /\ pulses \cup {t} \in SUBSET (unblock \cup {t}) /\ {Server} \in SUBSET Thread /\ {} \in SUBSET Thread
        /\ t \in unblock \cup {t} /\ unblock \subseteq unblock \cup {t}
    BY <2>1, <1>1, <1>2, Zenon
  <2>3. \/ t \in unblock /\ Dispatch(<<>>, {}, ev, unblock, pulses)
        \/ Dispatch(<<>>, {Server}, ev, unblock \cup {t}, pulses)
        \/ Dispatch(<<>>, {}, ev, unblock \cup {t}, pulses \cup {t})
    BY <1>6 DEF force_ready
  <2> QED
    BY <2>1, <2>2, <2>3, <1>2, <1>3, Zenon
<1> QED
  BY <1>4, <1>5, <1>6, Zenon

LEMMA SignalKeepsRequests ==
    ASSUME CInv, NEW t \in Client, signal_kill_thread(t) \/ ker_signal_return(t)
    PROVE  TimerExists' /\ BlockedIsCovered'
<1>1. t \in Thread /\ events \in Seq(Event) /\ pulses \in SUBSET unblock /\ DOMAIN <<>> = {}
  BY DEF Thread, CInv, IInv, TypeOK, Event
<1>2. saved \in [Thread -> Request]
  BY DEF CInv, IInv, TypeOK, Request
<1>3. CASE signal_kill_thread(t)
  <2>1. \A u \in Thread : saved'[u].mutex = "timed" => saved[u].mutex = "timed" \/ active[u]
    <3>1. saved' = saved \/ saved' = [saved EXCEPT ![t] = Saved(t)]
      BY <1>3 DEF signal_kill_thread
    <3>2. Saved(t).mutex = "timed" => active[t]
      BY DEF Saved, NoRequest
    <3> QED
      BY <3>1, <3>2, <1>1, <1>2, Zenon
  <2>2. CASE Blocked(t)
    <3>1. force_ready(t, events)
      BY <2>2, <1>3, Zenon DEF signal_kill_thread
    <3> QED
      BY <3>1, <2>1, <1>1, ForceReadyKeepsRequests, Zenon
  <2>3. CASE ~Blocked(t)
    <3>1. Dispatch(<<>>, {t}, events, unblock, pulses)
      BY <2>3, <1>3 DEF signal_kill_thread, Ready
    <3> QED
      BY <3>1, <2>1, <1>1, DispatchKeepsRequests, Zenon
  <2> QED
    BY <2>2, <2>3
<1>4. CASE ker_signal_return(t)
  <2>1. /\ UNCHANGED <<events, unblock, taken>> /\ saved' = [saved EXCEPT ![t] = NoRequest]
        /\ state[t] = "RUNNING" /\ flags[t] = {}
    BY <1>4, Zenon DEF ker_signal_return, Enter
  <2>2. \A u \in Thread : saved'[u].mutex = "timed" => u # t /\ saved[u].mutex = "timed"
    BY <2>1, <1>1, <1>2, Zenon DEF NoRequest
  <2>3. \A u \in Thread \ {t} : /\ state'[u] = state[u] /\ flags'[u] = flags[u]
                                /\ timer'[u] = timer[u] /\ active'[u] = active[u]
    BY <1>4, Zenon DEF ker_signal_return, CInv, IInv, TypeOK
  <2>4. ~active[t]
    BY <2>1, <1>1, Zenon DEF CInv, IInv, RunningIsIdle
  <2>5. \/ /\ state'[t] = "RUNNING" /\ timer'[t] = timer[t] /\ ~active'[t]
           /\ flags'[t] = IF saved[t].flags # {} /\ timer[t] # "none" THEN saved[t].flags ELSE {}
        \/ /\ saved[t].mutex # "timed" /\ timer'[t] = timer[t] /\ flags'[t] = {} /\ ~active'[t]
        \/ /\ saved[t].mutex = "timed" /\ timer[t] # "none" /\ timer'[t] = "armed"
        \/ /\ saved[t].mutex = "timed" /\ timer[t] = "none"
    BY <2>1, <2>4, <1>1, <1>4, Zenon DEF ker_signal_return, CInv, IInv, TypeOK
  <2>6. saved[t].mutex = "timed" => timer[t] # "none"
    BY <1>1 DEF CInv, TimerExists
  <2>7. (active'[t] \/ flags'[t] # {} => timer'[t] # "none") /\ (state'[t] = "RUNNING" \/ flags'[t] = {} \/ timer'[t] = "armed")
    BY <2>5, <2>6, Zenon
  <2>8. TimerExists'
    BY <2>2, <2>3, <2>7, Zenon DEF CInv, TimerExists
  <2>9. BlockedIsCovered'
    BY <2>1, <2>3, <2>7 DEF CInv, BlockedIsCovered, Asked, Covered, Blocked, Blocking
  <2> QED
    BY <2>8, <2>9, Zenon
<1> QED
  BY <1>3, <1>4

\* A timer that fires leaves its event, and an event that is delivered readies its thread.
LEMMA InterruptKeepsRequests ==
    ASSUME CInv, NEW t \in Thread,
           timer_fire(t) \/ intrevent_add(t) \/ intr_exit \/ intrevent_drain \/ ker_exit \/ UNCHANGED vars
    PROVE  TimerExists' /\ BlockedIsCovered'
<1>1. CASE timer_fire(t) \/ intr_exit \/ ker_exit \/ UNCHANGED vars
  <2>1. UNCHANGED <<state, flags, active, timer, saved, unblock, taken, events>>
    BY <1>1 DEF timer_fire, intr_exit, ker_exit, kvars, vars
  <2> QED
    BY <2>1, Zenon DEF CInv, TimerExists, BlockedIsCovered, Asked, Covered, Blocked
<1>2. CASE intrevent_add(t)
  <2>1. UNCHANGED <<state, flags, active, saved, unblock, taken>> /\ events \in Seq(Event)
    BY <1>2, Zenon DEF intrevent_add, CInv, IInv, TypeOK, Event
  <2> DEFINE e == [thread |-> t, live |-> timer[t] = "armed"]
  <2>2. events' = Append(events, e) /\ e \in Event /\ e.thread = t
    BY <1>2, Zenon DEF intrevent_add, Event
  <2> HIDE DEF e
  <2>3. /\ DOMAIN events' = 1 .. Len(events) + 1 /\ DOMAIN events = 1 .. Len(events) /\ Len(events) \in Nat
        /\ \A i \in DOMAIN events : events'[i] = events[i]
        /\ events'[Len(events) + 1] = e
    BY <2>1, <2>2
  <2>4. \A u \in Thread : HasEvent(u, events) => HasEvent(u, events')
    BY <2>3 DEF HasEvent
  <2>5. HasEvent(t, events')
    BY <2>2, <2>3 DEF HasEvent
  <2>6. /\ \A u \in Thread \ {t} : timer'[u] = timer[u]
        /\ timer[t] # "none" => timer'[t] # "none"
    BY <1>2, Zenon DEF intrevent_add, CInv, IInv, TypeOK
  <2>7. TimerExists'
    BY <2>1, <2>6, Zenon DEF CInv, TimerExists
  <2>8. BlockedIsCovered'
    <3>1. ASSUME NEW u \in Thread, Asked(u)
          PROVE  timer'[u] = "armed" \/ HasEvent(u, events') \/ u \in unblock
      BY <3>1, <2>4, <2>5, <2>6, Zenon DEF CInv, BlockedIsCovered, Covered, HasEvent
    <3> QED
      BY <3>1, <2>1, Zenon DEF BlockedIsCovered, Asked, Covered, HasEvent, Blocked
  <2> QED
    BY <2>7, <2>8, Zenon
<1>3. CASE intrevent_drain
  <2> DEFINE ev == Tail(events)
             h  == Head(events).thread
  <2>1. events \in Seq(Event) /\ events # <<>> /\ saved' = saved
    BY <1>3 DEF intrevent_drain, CInv, IInv, TypeOK, Event
  <2>2. /\ ev \in Seq(Event) /\ Head(events) \in Event
        /\ \A i \in DOMAIN events : i = 1 \/ (i - 1 \in DOMAIN ev /\ ev[i - 1] = events[i])
        /\ events[1] = Head(events)
    BY <2>1
  <2>3. h \in Thread
    BY <2>2 DEF Event
  <2>4. \A u \in Thread : HasEvent(u, events) => HasEvent(u, ev) \/ u = h
    BY <2>2 DEF HasEvent
  <2>5. force_ready(h, ev)
    BY <1>3 DEF intrevent_drain
  <2> HIDE DEF ev, h
  <2> QED
    BY <2>1, <2>2, <2>3, <2>4, <2>5, ForceReadyKeepsRequests, Zenon
<1> QED
  BY <1>1, <1>2, <1>3, Zenon

\* A request takes effect in every state a thread blocks in, whatever else happens: block,
\* unready, block_and_ready (the REPLY of a direct send) and SignalReturn arm the timer, and it
\* stays armed, also when the server takes a client from the send queue, or has its event
\* queued, or the server has been told, until the thread is readied.  Left out are a client
\* taken from the send queue that asked for a timeout in REPLY and not in SEND, which is what
\* BlockedIsCovered leaves out, and a program or handler that deletes its timer.
THEOREM RequestsAreCovered ==
    ASSUME "delete" \notin Features
    PROVE  Spec => []BlockedIsCovered
<1>1. Init => CInv
  <2> SUFFICES ASSUME Init PROVE CInv
    OBVIOUS
  <2>1. IInv
    BY InitHolds
  <2>2. TimerExists /\ BlockedIsCovered
    BY DEF Init, TimerExists, BlockedIsCovered, Asked, NoRequest, Blocked, Blocking
  <2> QED
    BY <2>1, <2>2 DEF CInv
<1>2. CInv /\ [Next]_vars => CInv'
  <2> SUFFICES ASSUME CInv, [Next]_vars PROVE CInv'
    OBVIOUS
  <2>1. IInv'
    BY NextKeeps DEF CInv
  <2>2. Server \in Thread /\ Client \subseteq Thread
    BY DEF Thread
  <2>3. TimerExists' /\ BlockedIsCovered'
    BY <2>2, CallKeepsRequests, RequestCallKeepsRequests, MsgReceiveSenderKeepsRequests, SignalKeepsRequests,
       InterruptKeepsRequests, ZenonT(40) DEF Next
  <2> QED
    BY <2>1, <2>3 DEF CInv
<1>3. CInv => BlockedIsCovered
  BY DEF CInv
<1> QED
  BY <1>1, <1>2, <1>3, PTL DEF Spec
=============================================================================
