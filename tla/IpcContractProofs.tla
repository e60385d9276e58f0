-------------------------- MODULE IpcContractProofs --------------------------
(***************************************************************************)
(* The theorems about servers and their clients, for any number of both:   *)
(* the client of a server waits for it (ClientsAreServed); where servers   *)
(* stay, a thread that was asked to leave has been announced and is not    *)
(* taken for asked in a later message (UnblocksAreAnnounced,               *)
(* UnblockReqIsFresh); and the client of an UNBLOCK channel does not leave *)
(* behind the back of its server (UnblockContractHolds).                   *)
(***************************************************************************)
EXTENDS IpcUnblockProofs

\* The inductive invariant for ClientIsServed.
ServedInv == ClientIsServed /\ ReceiversAtHome

\* Every step keeps it.
LEMMA ServedStep ==
    ASSUME Inv, Inv', ServedInv, ReplyFault = FALSE, [Next]_vars
    PROVE  ServedInv'
<1>1. CASE UNCHANGED vars
  BY <1>1 DEF vars, ServedInv, ClientIsServed, ReceiversAtHome, ChanOf
<1>2. CASE Next
  <2>1. Goes /\ ChannelsKept
    BY <1>2, NextGoes, NextKeepsChannels, Zenon DEF ServedInv
  <2>2. ClientIsServed'
    BY <2>1, ServedKept DEF Goes, ServedInv
  <2>3. ASSUME NEW x \in Thread, state'[x] = "RECEIVE" PROVE chproc[blocked_on'[x]] = process[x]
    BY <2>1, <2>3, Zenon DEF Goes, Way, Bystander, ServedInv, ReceiversAtHome
  <2> QED BY <2>2, <2>3 DEF ServedInv, ReceiversAtHome
<1> QED BY <1>1, <1>2, Zenon

\* So it always holds.
LEMMA ServedAlways ==
    ASSUME ReplyFault = FALSE
    PROVE  Spec => []ServedInv
<1>1. Init => ServedInv
  BY DEF Init, ServedInv, ClientIsServed, ReceiversAtHome
<1>2. Inv /\ Inv' /\ ServedInv /\ [Next]_vars => ServedInv'
  BY ServedStep, Zenon
<1> QED BY <1>1, <1>2, Invariance, PTL DEF Spec

\* The client a server thread works for is reply blocked on a channel of the
\* server's process and names that thread as its server: unless a reply buffer
\* faults, every path that releases a client (force_ready, the replies,
\* MsgCurrent, the destruction of threads and channels) clears both links.
THEOREM ClientsAreServed ==
    ASSUME ReplyFault = FALSE
    PROVE  Spec => []ClientIsServed
<1>1. ServedInv => ClientIsServed
  BY DEF ServedInv
<1> QED BY <1>1, ServedAlways, PTL
-----------------------------------------------------------------------------
(***************************************************************************)
(* Servers that stay                                                       *)
(***************************************************************************)
\* The server of an UNBLOCK channel does not exit or destroy the channel, and
\* one of its threads is never destroyed.
ServersStay ==
    \A ch \in Chan : "UNBLOCK" \in chflags[ch] =>
        /\ ch \notin Destroyable /\ chproc[ch] \notin MayExit
        /\ \E u \in Thread : process[u] = chproc[ch] /\ u \notin Mortal

Safe(u) == u \in Thread /\ u \notin Mortal /\ process[u] \notin MayExit

StayInv ==
    /\ \A p \in Proc : p \notin MayExit => pst[p] # "DESTROYALL"
    /\ \A u \in Thread : Safe(u) => "KILLSELF" \notin tflags[u] /\ state[u] # "DEAD"
    /\ \A ch \in Chan : "UNBLOCK" \in chflags[ch] => pst[chproc[ch]] = "LIVE" /\ chst[ch] # "DYING"

\* u neither dies nor is marked to die in the step.
Spared(u) ==
    /\ "KILLSELF" \in tflags'[u] => "KILLSELF" \in tflags[u]
    /\ state'[u] = "DEAD" => state[u] = "DEAD"

\* Become destroys and marks no other thread.
LEMMA BecomeSpares ==
    ASSUME NEW t, NEW st, NEW fl, NEW w, Become(t, st, fl, w), NEW u \in Thread,
           u # t \/ (st # "DEAD" /\ ("KILLSELF" \in fl => "KILLSELF" \in tflags[u]))
    PROVE  Spared(u)
BY DEF Become, Spared

\* Nor does force_ready when it releases a thread.
LEMMA ReleaseSpares ==
    ASSUME NEW t, NEW st, NEW fl, fl \subseteq tflags[t], force_ready_release(t, st, fl),
           NEW u \in Thread, u # t \/ st = "RUN"
    PROVE  Spared(u)
<1>1. PICK w, g : Become(t, st, g, w) /\ (g = fl \/ g = fl \ {"RCVPULSE"})
  BY Zenon DEF force_ready_release
<1>2. u = t => st # "DEAD" /\ ("KILLSELF" \in g => "KILLSELF" \in tflags[u])
  BY <1>1
<1> QED BY <1>1, <1>2, BecomeSpares, Zenon

\* Nor when it defers.
LEMMA DeferSpares ==
    ASSUME Inv, NEW t \in Thread, NEW kill \in BOOLEAN, force_ready_defer(t, kill),
           NEW u \in Thread, u # t \/ ~kill
    PROVE  Spared(u)
<1> DEFINE fl == tflags[t] \cup {"UNBLOCK_REQ", "UNBLOCK_QUEUED"} \cup (IF kill THEN {"KILLSELF"} ELSE {})
<1>1. u = t => ("KILLSELF" \in fl => "KILLSELF" \in tflags[u])
  OBVIOUS
<1>2. \/ tflags' = [tflags EXCEPT ![t] = fl] /\ state' = state
      \/ \E w : Become(t, "REPLY", fl, w)
  BY Zenon DEF force_ready_defer
<1> HIDE DEF fl
<1>3. CASE tflags' = [tflags EXCEPT ![t] = fl] /\ state' = state
  BY <1>1, <1>3, Zenon DEF Spared, Inv, TypeOK, ThreadTypes
<1> QED BY <1>1, <1>2, <1>3, BecomeSpares

\* A signal or a timeout destroys nobody.
LEMMA ForceReadySpares ==
    ASSUME Inv, NEW t \in Thread, force_ready(t), NEW u \in Thread
    PROVE  Spared(u)
<1>1. CASE force_ready_defer(t, FALSE)
  BY <1>1, DeferSpares, Zenon
<1>2. ASSUME NEW fl, fl \subseteq tflags[t], force_ready_release(t, "RUN", fl) PROVE Spared(u)
  BY <1>2, ReleaseSpares
<1>3. tflags[t] \subseteq tflags[t] /\ tflags[t] \ {"UNBLOCK_REQ"} \subseteq tflags[t]
  OBVIOUS
<1> QED BY <1>1, <1>2, <1>3, Zenon DEF force_ready

\* The destruction of a blocked thread spares the others.
LEMMA KillSpares ==
    ASSUME Inv, NEW t \in Thread, ThreadDestroyBlocked(t), NEW u \in Thread, u # t
    PROVE  Spared(u)
<1>1. ASSUME NEW fl, fl \subseteq tflags[t], force_ready_release(t, "DEAD", fl) PROVE Spared(u)
  BY <1>1, ReleaseSpares, Zenon
<1>2. tflags[t] \subseteq tflags[t] /\ tflags[t] \ {"UNBLOCK_REQ"} \subseteq tflags[t]
  OBVIOUS
<1>3. CASE force_ready_defer(t, TRUE)
  BY <1>3, DeferSpares, Zenon
<1> QED BY <1>1, <1>2, <1>3, Zenon DEF ThreadDestroyBlocked

\* A safe thread is not destroyed: MayDestroy wants a mortal thread, KILLSELF or
\* an exiting process.
LEMMA SafeNotDestroyed ==
    ASSUME StayInv, NEW t \in Thread, MayDestroy(t)
    PROVE  ~Safe(t)
<1>1. process[t] \in Proc
  BY IpcAssumption, Zenon
<1> QED BY <1>1, Zenon DEF StayInv, MayDestroy, Safe

\* The calls of clients destroy nobody.
LEMMA ClientSpares ==
    ASSUME Inv, ClientStep, NEW u \in Thread
    PROVE  Spared(u)
<1> USE DEF Inv
<1> PICK t \in Thread, f \in Coid :
        \/ MsgSendDirect(t, f) \/ MsgSendRcvFault(t, f) \/ MsgSendQueue(t, f)
        \/ MsgSendPulse(t, f)
        \/ \E ch \in Chan : ConnectAttachShare(t, f, ch) \/ ConnectAttachNew(t, f, ch)
  BY Zenon DEF ClientStep
<1>1. CASE MsgSendDirect(t, f)
  <2>1. PICK r : Become(t, "REPLY", tflags[t], r)
    BY <1>1, Zenon DEF MsgSendDirect
  <2> QED BY <2>1, BecomeSpares
<1>2. CASE MsgSendRcvFault(t, f) \/ MsgSendQueue(t, f)
  <2>1. PICK r : state' = [state EXCEPT ![r] = "RUN"] \/ state' = [state EXCEPT ![r] = "SEND"]
    BY <1>2, Zenon DEF MsgSendRcvFault, MsgSendQueue
  <2>2. tflags' = tflags
    BY <1>2, Zenon DEF MsgSendRcvFault, MsgSendQueue
  <2> QED BY <2>1, <2>2, Zenon DEF Spared, TypeOK, ThreadTypes
<1>3. CASE MsgSendPulse(t, f)
  <2>1. PICK w : Become(NONE, "RUN", {}, w)
    BY <1>3, Zenon DEF MsgSendPulse
  <2>2. u # NONE
    BY IpcAssumption, Zenon
  <2> QED BY <2>1, <2>2, BecomeSpares, Zenon
<1>4. ASSUME NEW ch, ConnectAttachShare(t, f, ch) \/ ConnectAttachNew(t, f, ch) PROVE Spared(u)
  BY <1>4, Zenon DEF ConnectAttachShare, ConnectAttachNew, threadVars, Spared
<1> QED BY <1>1, <1>2, <1>3, <1>4, Zenon

\* Nor do those of servers.
LEMMA ServerSpares ==
    ASSUME Inv, ServerStep, NEW u \in Thread
    PROVE  Spared(u)
<1> USE DEF Inv
<1>1. PICK s \in Thread :
        \/ \E ch \in Chan :
             \/ MsgReceivePulse(s, ch) \/ MsgReceive(s, ch) \/ MsgReceiveDropSender(s, ch)
             \/ MsgReceiveFail(s, ch) \/ MsgReceiveBlock(s, ch, FALSE)
             \/ s \in PulseReceivers /\ MsgReceiveBlock(s, ch, TRUE)
             \/ ChannelCreate(s, ch)
        \/ \E t \in Thread, c \in Conn :
             \/ MsgReply(s, t, c) \/ MsgReplyFault(s, t, c) \/ MsgReplyPreempted(s, t, c)
             \/ MsgReplyStale(s, t, c) \/ MsgError(s, t, c) \/ MsgCurrent(s, t, c)
        \/ MsgCurrentNone(s)
  BY Zenon DEF ServerStep
<1>2. ASSUME UNCHANGED <<state, tflags>> PROVE Spared(u)
  BY <1>2, Zenon DEF Spared
<1>3. ASSUME NEW ch \in Chan, MsgReceivePulse(s, ch) \/ MsgReceiveFail(s, ch) \/ ChannelCreate(s, ch)
      PROVE  Spared(u)
  BY <1>2, <1>3, Zenon DEF MsgReceivePulse, MsgReceiveFail, ChannelCreate, threadVars
<1>4. ASSUME NEW ch \in Chan, MsgReceive(s, ch) PROVE Spared(u)
  <2>1. PICK t : state' = [state EXCEPT ![t] = "REPLY"]
    BY <1>4, Zenon DEF MsgReceive
  <2>2. tflags' = tflags
    BY <1>4, Zenon DEF MsgReceive
  <2> QED BY <2>1, <2>2, Zenon DEF Spared, TypeOK, ThreadTypes
<1>5. ASSUME NEW ch \in Chan, MsgReceiveDropSender(s, ch) PROVE Spared(u)
  <2>1. PICK t \in Thread : force_ready(t)
    BY <1>5, ZenonT(40) DEF MsgReceiveDropSender, TypeOK, ChanTypes
  <2> QED BY <2>1, ForceReadySpares, Zenon
<1>6. ASSUME NEW ch \in Chan, NEW b \in BOOLEAN, MsgReceiveBlock(s, ch, b) PROVE Spared(u)
  <2>1. /\ state' = [state EXCEPT ![s] = "RECEIVE"]
        /\ tflags' = [tflags EXCEPT ![s] = @ \cup (IF b THEN {"RCVPULSE"} ELSE {})]
    BY <1>6, Zenon DEF MsgReceiveBlock
  <2> QED BY <2>1 DEF Spared, TypeOK, ThreadTypes
<1>7. ASSUME NEW t \in Thread, NEW c \in Conn,
             MsgReply(s, t, c) \/ MsgReplyFault(s, t, c) \/ MsgError(s, t, c)
      PROVE  Spared(u)
  <2>1. PICK fl : Replied(t, c, fl) /\ fl \subseteq tflags[t]
    <3>1. /\ tflags[t] \ {"UNBLOCK_QUEUED", "UNBLOCK_REQ"} \subseteq tflags[t]
          /\ tflags[t] \ {"UNBLOCK_QUEUED"} \subseteq tflags[t]
      OBVIOUS
    <3> QED BY <1>7, <3>1, Zenon DEF MsgReply, MsgReplyFault, MsgError
  <2>2. PICK w : Become(t, "RUN", fl, w)
    BY <2>1, Zenon DEF Replied
  <2>3. u = t => ("KILLSELF" \in fl => "KILLSELF" \in tflags[u])
    BY <2>1
  <2> QED BY <2>2, <2>3, BecomeSpares
<1>8. ASSUME NEW t \in Thread, NEW c \in Conn, MsgReplyPreempted(s, t, c) PROVE Spared(u)
  <2>1. state' = state /\ tflags' = [tflags EXCEPT ![t] = @ \ {"UNBLOCK_QUEUED"}]
    BY <1>8, Zenon DEF MsgReplyPreempted
  <2> QED BY <2>1 DEF Spared, TypeOK, ThreadTypes
<1>9. ASSUME NEW t \in Thread, NEW c \in Conn, MsgReplyStale(s, t, c) \/ MsgCurrent(s, t, c)
      PROVE  Spared(u)
  BY <1>2, <1>9, Zenon DEF MsgReplyStale, MsgCurrent, threadVars
<1>10. CASE MsgCurrentNone(s)
  BY <1>2, <1>10, Zenon DEF MsgCurrentNone
<1> QED BY <1>1, <1>3, <1>4, <1>5, <1>6, <1>7, <1>8, <1>9, <1>10, Zenon

\* Signals, deaths and exits spare a thread that may not die and whose process
\* may not exit.
LEMMA LifeSpares ==
    ASSUME Inv, StayInv, LifeStep, NEW u \in Thread, Safe(u)
    PROVE  Spared(u)
<1> USE DEF Inv
<1>1. ASSUME NEW t \in Thread, Interrupt(t) PROVE Spared(u)
  BY <1>1, ForceReadySpares, Zenon DEF Interrupt
<1>2. ASSUME NEW t \in Thread, ThreadDestroy(t) PROVE Spared(u)
  <2>1. MayDestroy(t) /\ state' = [state EXCEPT ![t] = "DEAD"] /\ tflags' = tflags
    BY <1>2, Zenon DEF ThreadDestroy
  <2>2. u # t
    BY <2>1, SafeNotDestroyed
  <2> QED BY <2>1, <2>2 DEF Spared, TypeOK, ThreadTypes
<1>3. ASSUME NEW t \in Thread, ThreadDestroyBlocked(t) PROVE Spared(u)
  <2>1. u # t
    BY <1>3, SafeNotDestroyed, Zenon DEF ThreadDestroyBlocked
  <2> QED BY <1>3, <2>1, KillSpares, Zenon
<1>4. ASSUME NEW p \in Proc, Exit(p) PROVE Spared(u)
  <2>1. /\ p \in MayExit /\ state' = state
        /\ tflags' = [t \in Thread |-> IF process[t] = p /\ state[t] # "DEAD"
                                         THEN tflags[t] \cup {"KILLSELF"} ELSE tflags[t]]
    BY <1>4, Zenon DEF Exit
  <2> QED BY <2>1 DEF Spared, Safe
<1>5. ASSUME NEW p \in Proc,
             \/ \E f \in Coid : ConnectDetach(p, f)
             \/ \E c \in Conn : ServerDetach(p, c)
             \/ \E ch \in Chan : ChannelDestroy(p, ch)
      PROVE  Spared(u)
  BY <1>5, Zenon DEF ConnectDetach, ServerDetach, ChannelDestroy, threadVars, Spared
<1> QED BY <1>1, <1>2, <1>3, <1>4, <1>5, Zenon DEF LifeStep

\* The later steps of ConnectDetach and ChannelDestroy destroy nobody.
LEMMA LongCallSpares ==
    ASSUME Inv, LongCallStep, NEW u \in Thread
    PROVE  Spared(u)
<1> USE DEF Inv
<1>b. ASSUME UNCHANGED threadVars PROVE Spared(u)
  BY <1>b DEF Spared, threadVars
<1>d. \A ch \in Chan : sendq[ch] \subseteq Thread /\ recvq[ch] \subseteq Thread /\ replyq[ch] \subseteq Thread
  BY DEF TypeOK, ChanTypes
<1>1. ASSUME NEW t \in Thread, DetachThread(t) PROVE Spared(u)
  BY <1>1, ForceReadySpares, Zenon DEF DetachThread
<1>2. CASE DetachFinish
  <2>1. PICK w : Become(NONE, "RUN", {}, w)
    BY <1>2, Zenon DEF DetachFinish
  <2>2. u # NONE
    BY IpcAssumption
  <2> QED BY <2>1, <2>2, BecomeSpares, Zenon
<1>3. CASE DestroySend \/ DestroyReceive
  <2>1. ker.chan \in Chan
    BY <1>3, Zenon DEF DestroySend, DestroyReceive, LongCallSafe
  <2>2. (\E t \in Thread : force_ready(t)) \/ UNCHANGED threadVars
    BY <1>3, <1>d, <2>1, Zenon DEF DestroySend, DestroyReceive
  <2> QED BY <1>b, <2>2, ForceReadySpares, Zenon
<1>4. CASE DestroyReply
  <2>1. PICK t \in replyq[ker.chan] : force_ready_release(t, "RUN", tflags[t])
    BY <1>4, Zenon DEF DestroyReply
  <2> QED BY <2>1, ReleaseSpares
<1>5. CASE \/ DestroyReceived \/ DestroyReplied \/ (\E c \in Conn : DestroyConn(c))
           \/ DestroyFree \/ Preempt
  <2>1. UNCHANGED threadVars
    BY <1>5, Zenon DEF DestroyReceived, DestroyReplied, DestroyConn, DestroyFree, Preempt
  <2> QED BY <1>b, <2>1, Zenon
<1> QED BY <1>1, <1>2, <1>3, <1>4, <1>5, Zenon DEF LongCallStep

\* So every step spares it.
LEMMA NextSpares ==
    ASSUME Inv, StayInv, Next, NEW u \in Thread, Safe(u)
    PROVE  Spared(u)
BY ClientSpares, ServerSpares, LifeSpares, LongCallSpares, Zenon DEF Next

\* How processes and channels change.
ProcStep ==
    \/ pst' = pst
    \/ \E p \in MayExit : pst' = [pst EXCEPT ![p] = "DESTROYALL"]
    \/ \E t \in Thread : MayDestroy(t) /\ pst' = ProcAfterDeath(t)
ChanStep ==
    \/ chst' = chst
    \/ \E ch \in Chan :
         \/ chst[ch] = "FREE" /\ chst' = [chst EXCEPT ![ch] = "LIVE"]
         \/ chst' = [chst EXCEPT ![ch] = "FREE"]
         \/ /\ ch \in Destroyable \/ pst[chproc[ch]] = "TERMING"
            /\ chst' = [chst EXCEPT ![ch] = "DYING"]

\* force_ready leaves the channels.
LEMMA ForcedKeeps ==
    ASSUME NEW t, Forced(t)
    PROVE  chst' = chst
BY Zenon DEF Forced, force_ready_defer, force_ready_release

\* How processes and channels go through their lives.
LEMMA NextLives ==
    ASSUME Inv, Next
    PROVE  ProcStep /\ ChanStep
<1>1. CASE ClientStep
  <2> PICK t \in Thread, f \in Coid :
          \/ MsgSendDirect(t, f) \/ MsgSendRcvFault(t, f) \/ MsgSendQueue(t, f)
          \/ MsgSendPulse(t, f)
          \/ \E ch \in Chan : ConnectAttachShare(t, f, ch) \/ ConnectAttachNew(t, f, ch)
    BY <1>1, Zenon DEF ClientStep
  <2>1. UNCHANGED <<pst, chst>>
    BY Zenon DEF MsgSendDirect, MsgSendRcvFault, MsgSendQueue, MsgSendPulse, ConnectAttachShare,
       ConnectAttachNew, chanVars
  <2> QED BY <2>1, Zenon DEF ProcStep, ChanStep
<1>2. CASE ServerStep
  <2>1. PICK s \in Thread :
        \/ \E ch \in Chan :
             \/ MsgReceivePulse(s, ch) \/ MsgReceive(s, ch) \/ MsgReceiveDropSender(s, ch)
             \/ MsgReceiveFail(s, ch) \/ MsgReceiveBlock(s, ch, FALSE)
             \/ s \in PulseReceivers /\ MsgReceiveBlock(s, ch, TRUE)
             \/ ChannelCreate(s, ch)
        \/ \E t \in Thread, c \in Conn :
             \/ MsgReply(s, t, c) \/ MsgReplyFault(s, t, c) \/ MsgReplyPreempted(s, t, c)
             \/ MsgReplyStale(s, t, c) \/ MsgError(s, t, c) \/ MsgCurrent(s, t, c)
        \/ MsgCurrentNone(s)
    BY <1>2, Zenon DEF ServerStep
  <2>2. ASSUME NEW ch \in Chan,
               \/ MsgReceivePulse(s, ch) \/ MsgReceive(s, ch)
               \/ MsgReceiveFail(s, ch) \/ MsgReceiveBlock(s, ch, FALSE)
               \/ MsgReceiveBlock(s, ch, TRUE)
        PROVE  UNCHANGED <<pst, chst>>
    BY <2>2, Zenon DEF MsgReceivePulse, MsgReceive, MsgReceiveFail, MsgReceiveBlock, chanVars
  <2>3. ASSUME NEW ch \in Chan, MsgReceiveDropSender(s, ch) PROVE UNCHANGED <<pst, chst>>
    <3>1. PICK t : force_ready(t)
      BY <2>3, Zenon DEF MsgReceiveDropSender
    <3>2. Forced(t)
      BY <3>1, IsForced, Zenon
    <3> QED BY <2>3, <3>2, ForcedKeeps, Zenon DEF MsgReceiveDropSender
  <2>4. ASSUME NEW ch \in Chan, ChannelCreate(s, ch) PROVE ProcStep /\ ChanStep
    BY <2>4, Zenon DEF ChannelCreate, ProcStep, ChanStep
  <2>5. ASSUME NEW t \in Thread, NEW c \in Conn,
               \/ MsgReply(s, t, c) \/ MsgReplyFault(s, t, c) \/ MsgReplyPreempted(s, t, c)
               \/ MsgReplyStale(s, t, c) \/ MsgError(s, t, c) \/ MsgCurrent(s, t, c)
        PROVE  UNCHANGED <<pst, chst>>
    BY <2>5, Zenon DEF MsgReply, MsgReplyFault, MsgReplyPreempted, MsgReplyStale, MsgError, MsgCurrent,
       Replied, chanVars
  <2>6. ASSUME MsgCurrentNone(s) PROVE UNCHANGED <<pst, chst>>
    BY <2>6, Zenon DEF MsgCurrentNone, chanVars
  <2>7. UNCHANGED <<pst, chst>> => ProcStep /\ ChanStep
    BY Zenon DEF ProcStep, ChanStep
  <2> QED BY <2>1, <2>2, <2>3, <2>4, <2>5, <2>6, <2>7, Zenon
<1>3. CASE LifeStep
  <2>1. ASSUME NEW t \in Thread, Interrupt(t) PROVE ProcStep /\ ChanStep
    BY <2>1, IsForced, ForcedKeeps, Zenon DEF Interrupt, ProcStep, ChanStep
  <2>2. ASSUME NEW t \in Thread, ThreadDestroy(t) PROVE ProcStep /\ ChanStep
    BY <2>2, Zenon DEF ThreadDestroy, chanVars, ProcStep, ChanStep
  <2>3. ASSUME NEW t \in Thread, ThreadDestroyBlocked(t) PROVE ProcStep /\ ChanStep
    <3>1. chst' = chst
      BY <2>3, IsForced, ForcedKeeps, Zenon
    <3>2. MayDestroy(t) /\ (pst' = pst \/ pst' = ProcAfterDeath(t))
      BY <2>3, Zenon DEF ThreadDestroyBlocked
    <3> QED BY <3>1, <3>2, Zenon DEF ProcStep, ChanStep
  <2>4. ASSUME NEW p \in Proc, Exit(p) PROVE ProcStep /\ ChanStep
    BY <2>4, Zenon DEF Exit, chanVars, ProcStep, ChanStep
  <2>5. ASSUME NEW p \in Proc,
               (\E f \in Coid : ConnectDetach(p, f)) \/ (\E c \in Conn : ServerDetach(p, c))
        PROVE  ProcStep /\ ChanStep
    BY <2>5, Zenon DEF ConnectDetach, ServerDetach, chanVars, ProcStep, ChanStep
  <2>6. ASSUME NEW p \in Proc, NEW ch \in Chan, ChannelDestroy(p, ch) PROVE ProcStep /\ ChanStep
    BY <2>6, Zenon DEF ChannelDestroy, ProcStep, ChanStep
  <2> QED BY <1>3, <2>1, <2>2, <2>3, <2>4, <2>5, <2>6, Zenon DEF LifeStep
<1>4. CASE LongCallStep
  <2>1. ASSUME \/ \E t \in Thread : DetachThread(t)
               \/ DestroySend \/ DestroyReceive \/ DestroyReply
        PROVE  UNCHANGED <<pst, chst>>
    <3>1. pst' = pst
      BY <2>1, Zenon DEF DetachThread, DestroySend, DestroyReceive, DestroyReply
    <3>2. \/ \E t : force_ready(t) \/ force_ready_release(t, "RUN", tflags[t])
          \/ chst' = chst
      BY <2>1, Zenon DEF DetachThread, DestroySend, DestroyReceive, DestroyReply
    <3>3. ASSUME NEW t, force_ready_release(t, "RUN", tflags[t]) PROVE chst' = chst
      BY <3>3, Zenon DEF force_ready_release
    <3> QED BY <3>1, <3>2, <3>3, IsForced, ForcedKeeps, Zenon
  <2>2. ASSUME \/ DetachFinish \/ DestroyReceived \/ DestroyReplied
               \/ (\E c \in Conn : DestroyConn(c)) \/ Preempt
        PROVE  UNCHANGED <<pst, chst>>
    BY <2>2, Zenon DEF DetachFinish, DestroyReceived, DestroyReplied, DestroyConn, Preempt, chanVars
  <2>3. ASSUME DestroyFree PROVE ProcStep /\ ChanStep
    <3>1. ker.chan \in Chan
      BY <2>3, Zenon DEF DestroyFree, Inv, LongCallSafe
    <3> QED BY <2>3, <3>1, Zenon DEF DestroyFree, ProcStep, ChanStep
  <2>4. UNCHANGED <<pst, chst>> => ProcStep /\ ChanStep
    BY DEF ProcStep, ChanStep
  <2> QED BY <1>4, <2>1, <2>2, <2>3, <2>4, Zenon DEF LongCallStep
<1> QED BY <1>1, <1>2, <1>3, <1>4, Zenon DEF Next

\* Every step keeps StayInv.
LEMMA StayStep ==
    ASSUME ServersStay, Inv, StayInv, [Next]_vars
    PROVE  StayInv'
<1>1. CASE UNCHANGED vars
  BY <1>1, Zenon DEF vars, StayInv, Safe
<1>2. CASE Next
  <2>a. /\ pst \in [Proc -> {"LIVE", "DESTROYALL", "TERMING"}]
        /\ chst \in [Chan -> {"FREE", "LIVE", "DYING"}]
        /\ process \in [Thread -> Proc] /\ chproc \in [Chan -> Proc]
    BY IpcAssumption, Zenon DEF Inv, TypeOK, KernelTypes, ChanTypes
  <2>1. \A u \in Thread : Safe(u) => "KILLSELF" \notin tflags'[u] /\ state'[u] # "DEAD"
    BY <1>2, NextSpares, Zenon DEF StayInv, Spared
  <2>2. ProcStep /\ ChanStep
    BY <1>2, NextLives, Zenon
  <2>3. ASSUME NEW p \in Proc, p \notin MayExit
        PROVE  /\ pst'[p] # "DESTROYALL"
               /\ (\E u \in Thread : process[u] = p /\ u \notin Mortal) => pst'[p] = pst[p]
    <3>1. pst[p] # "DESTROYALL"
      BY <2>3, Zenon DEF StayInv
    <3>2. CASE pst' = pst
      BY <3>1, <3>2, Zenon
    <3>3. ASSUME NEW q \in MayExit, pst' = [pst EXCEPT ![q] = "DESTROYALL"]
          PROVE  pst'[p] = pst[p]
      BY <2>3, <2>a, <3>3, Zenon
    <3>4. ASSUME NEW t \in Thread, MayDestroy(t), pst' = ProcAfterDeath(t)
          PROVE  /\ pst'[p] # "DESTROYALL"
                 /\ (\E u \in Thread : process[u] = p /\ u \notin Mortal) => pst'[p] = pst[p]
      <4>1. pst' = pst \/ pst' = [pst EXCEPT ![process[t]] = "TERMING"]
        BY <3>4, Zenon DEF ProcAfterDeath
      <4>2. pst'[p] # "DESTROYALL"
        BY <2>a, <3>1, <4>1, Zenon
      <4>3. ASSUME NEW u \in Thread, process[u] = p, u \notin Mortal PROVE pst'[p] = pst[p]
        <5>1. state[u] # "DEAD" /\ u # t
          BY <2>3, <3>4, <4>3, SafeNotDestroyed, Zenon DEF StayInv, Safe
        <5>2. process[t] = p => pst' = pst
          BY <3>4, <4>3, <5>1, Zenon DEF ProcAfterDeath
        <5> QED BY <2>a, <4>1, <5>2, Zenon
      <4> QED BY <4>2, <4>3, Zenon
    <3> QED BY <2>2, <3>1, <3>2, <3>3, <3>4, Zenon DEF ProcStep
  <2>4. ASSUME NEW ch \in Chan, "UNBLOCK" \in chflags[ch]
        PROVE  pst'[chproc[ch]] = "LIVE" /\ chst'[ch] # "DYING"
    <3>1. /\ ch \notin Destroyable /\ chproc[ch] \notin MayExit /\ chproc[ch] \in Proc
          /\ \E u \in Thread : process[u] = chproc[ch] /\ u \notin Mortal
      BY <2>4, <2>a, Zenon DEF ServersStay
    <3>2. pst[chproc[ch]] = "LIVE" /\ chst[ch] # "DYING"
      BY <2>4, Zenon DEF StayInv
    <3>3. pst'[chproc[ch]] = "LIVE"
      BY <2>3, <3>1, <3>2, Zenon
    <3>4. chst'[ch] # "DYING"
      BY <2>2, <2>a, <3>1, <3>2, Zenon DEF ChanStep
    <3> QED BY <3>3, <3>4, Zenon
  <2> QED BY <2>1, <2>3, <2>4, Zenon DEF StayInv, Safe
<1> QED BY <1>1, <1>2, Zenon

\* So it always holds.
LEMMA StayAlways ==
    ASSUME ServersStay
    PROVE  Spec => []StayInv
<1>1. Init => StayInv
  BY IpcAssumption, Zenon DEF Init, StayInv
<1>2. Inv /\ StayInv /\ [Next]_vars => StayInv'
  BY StayStep, Zenon
<1> QED BY <1>1, <1>2, Invariance, PTL DEF Spec
-----------------------------------------------------------------------------
(***************************************************************************)
(* Unblock pulses are not lost                                             *)
(***************************************************************************)
\* x waits on its UNBLOCK channel before and after the step.
Waits(x) ==
    /\ state[x] = "REPLY" /\ state'[x] = "REPLY" /\ blocked_on'[x] = blocked_on[x]
    /\ "UNBLOCK" \in chflags[ChanOf(x)]

\* The server still has, or will receive, the unblock pulse of x, or takes it back.
KeepsWord(x) ==
    Waits(x) /\ Heard(x, ChanOf(x), blocked_on[x])
        => \/ pulses'[ChanOf(x)][Unblock(x, blocked_on[x])] > 0
           \/ <<x, blocked_on[x]>> \in told'
           \/ "UNBLOCK_QUEUED" \notin tflags'[x]

\* What a waiting thread waits on.
LEMMA WaitsOn ==
    ASSUME Inv, NEW x \in Thread, Waits(x)
    PROVE  /\ blocked_on[x] \in Conn /\ ChanOf(x) \in Chan
           /\ Unblock(x, blocked_on[x]) \in PulseKind
<1>1. blocked_on[x] \in Conn /\ ChanOf(x) \in Chan
  BY BlockedOn, Zenon DEF Waits
<1> QED BY <1>1, Kinds, Zenon

\* Word is kept where the pulse stays queued and is not forgotten once received.
LEMMA WordSame ==
    ASSUME NEW x,
           Waits(x) => /\ <<x, blocked_on[x]>> \in told => <<x, blocked_on[x]>> \in told'
                       /\ pulses[ChanOf(x)][Unblock(x, blocked_on[x])] > 0
                            => pulses'[ChanOf(x)][Unblock(x, blocked_on[x])] > 0
    PROVE  KeepsWord(x)
BY Zenon DEF KeepsWord, Heard

\* A pulse that is added takes none away.
LEMMA PulseGrows ==
    ASSUME NEW pl \in [Chan -> [PulseKind -> Nat]], NEW ch \in Chan, NEW k \in PulseKind,
           NEW o, o.add \in {0, 1}, NEW d \in Chan, NEW j \in PulseKind, pl[d][j] > 0
    PROVE  PulseAdded(pl, ch, k, o)[d][j] > 0
<1>1. PulseAdded(pl, ch, k, o)[d][j] = IF d = ch /\ j = k THEN pl[d][j] + o.add ELSE pl[d][j]
  BY DEF PulseAdded
<1>2. pl[d][j] \in Nat
  OBVIOUS
<1> QED BY <1>1, <1>2

\* connect_detach forgets only pulses of a connection that nobody waits on.
LEMMA DetachWord ==
    ASSUME Inv, Inv', NEW c \in Conn, NEW o \in DetachPulse(c),
           NEW pl \in [Chan -> [PulseKind -> Nat]], connect_detach(c, o, pl),
           NEW R, told' = told \ (Stale(c) \cup R), NEW x \in Thread,
           Waits(x) => /\ <<x, blocked_on[x]>> \notin R
                       /\ pulses[ChanOf(x)][Unblock(x, blocked_on[x])] > 0
                            => pl[ChanOf(x)][Unblock(x, blocked_on[x])] > 0
    PROVE  KeepsWord(x)
<1> DEFINE d == blocked_on[x]
           ch == ChanOf(x)
           k == Unblock(x, d)
<1>1. SUFFICES ASSUME Waits(x)
               PROVE  /\ <<x, d>> \in told => <<x, d>> \in told'
                      /\ pulses[ch][k] > 0 => pulses'[ch][k] > 0
  BY WordSame, Zenon
<1>2. d \in Conn /\ ch \in Chan /\ k \in PulseKind
  BY <1>1, WaitsOn, Zenon
<1>3. cchan'[d] # NONE
  BY <1>1 DEF Waits, Inv, QueuesMatch, ChanOf
<1>4. <<x, d>> \notin Stale(c)
  <2>1. SUFFICES ASSUME links[c] = 1, ~WantsDisconnect(c), d = c PROVE FALSE
    BY Zenon DEF Stale
  <2>2. cchan'[c] = NONE
    BY <2>1, Zenon DEF connect_detach, Inv, TypeOK, ConnTypes
  <2> QED BY <1>3, <2>1, <2>2
<1>5. ASSUME pulses[ch][k] > 0 PROVE pulses'[ch][k] > 0
  <2>1. pl[ch][k] > 0
    BY <1>1, <1>5, Zenon
  <2>2. CASE WantsDisconnect(c)
    <3>1. cchan[c] \in Chan /\ Disconnect(c) \in PulseKind /\ o.add \in {0, 1}
      BY <2>2, Kinds, DetachDelivery, Zenon DEF WantsDisconnect, Inv, TypeOK, ConnTypes
    <3>2. pulses' = PulseAdded(pl, cchan[c], Disconnect(c), o)
      BY <2>2, Zenon DEF connect_detach
    <3> HIDE DEF ch, k
    <3> QED BY <1>2, <2>1, <3>1, <3>2, PulseGrows
  <2>3. CASE ~WantsDisconnect(c)
    BY <2>1, <2>3, Zenon DEF connect_detach
  <2> QED BY <2>2, <2>3, Zenon
<1> QED BY <1>1, <1>4, <1>5, Zenon

\* force_ready keeps the word of every thread.
LEMMA ForcedWord ==
    ASSUME Inv, Inv', NEW t \in Thread, Forced(t), NEW x \in Thread
    PROVE  KeepsWord(x)
<1>a. pulses \in [Chan -> [PulseKind -> Nat]]
  BY Zenon DEF Inv, TypeOK, ChanTypes
<1>b. ASSUME pulses' = pulses, told' = told PROVE KeepsWord(x)
  BY <1>b, WordSame, Zenon
<1>1. ASSUME NEW kill, force_ready_defer(t, kill) PROVE KeepsWord(x)
  <2> DEFINE ch == ChanOf(t)
             c == blocked_on[t]
  <2>1. c \in Conn /\ ch \in Chan
    BY <1>1, DeferOnly, BlockedOn, Zenon
  <2>2. ASSUME NEW o \in pulse_deliver(ch), pulses' = PulseAdded(pulses, ch, Unblock(t, c), o),
               told' = IF o.wake # NONE THEN told \cup {<<t, c>>} ELSE told
        PROVE  KeepsWord(x)
    <3>1. o.add \in {0, 1} /\ Unblock(t, c) \in PulseKind
      BY <2>1, <2>2, Delivery, Kinds DEF Inv
    <3>2. told \subseteq told'
      BY <2>2, Zenon
    <3> HIDE DEF ch, c
    <3>3. ASSUME Waits(x), pulses[ChanOf(x)][Unblock(x, blocked_on[x])] > 0
          PROVE  pulses'[ChanOf(x)][Unblock(x, blocked_on[x])] > 0
      BY <1>a, <2>1, <2>2, <3>1, <3>3, WaitsOn, PulseGrows
    <3> QED BY <3>2, <3>3, WordSame, Zenon
  <2>3. \/ UNCHANGED <<pulses, told>>
        \/ \E o \in pulse_deliver(ch) :
             /\ pulses' = PulseAdded(pulses, ch, Unblock(t, c), o)
             /\ told' = IF o.wake # NONE THEN told \cup {<<t, c>>} ELSE told
    BY <1>1, Zenon DEF force_ready_defer
  <2> QED BY <1>b, <2>2, <2>3, Zenon
<1>2. ASSUME NEW st, NEW fl, force_ready_release(t, st, fl) PROVE KeepsWord(x)
  <2>1. CASE state[t] = "RECEIVE"
    <3>1. UNCHANGED <<pulses, told>>
      BY <1>2, <2>1, Zenon DEF force_ready_release
    <3> QED BY <1>b, <3>1, Zenon
  <2>2. CASE state[t] \in {"SEND", "REPLY"}
    <3>1. blocked_on[t] \in Conn
      BY <2>2, BlockedOn, Zenon
    <3>2. PICK o \in DetachPulse(blocked_on[t]) : connect_detach(blocked_on[t], o, pulses)
      BY <1>2, <2>2, Zenon DEF force_ready_release
    <3>3. told' = told \ (Stale(blocked_on[t]) \cup {})
      BY <1>2, <2>2, Zenon DEF force_ready_release
    <3>4. <<x, blocked_on[x]>> \notin {}
      OBVIOUS
    <3> QED BY <1>a, <3>1, <3>2, <3>3, <3>4, DetachWord, Zenon
  <2> QED BY <1>2, <2>1, <2>2, ReleaseOnly, Zenon
<1> QED BY <1>1, <1>2, Zenon DEF Forced

\* So do the calls of clients,
LEMMA ClientWord ==
    ASSUME Inv, ClientStep, NEW x \in Thread
    PROVE  KeepsWord(x)
<1> USE DEF Inv
<1> PICK t \in Thread, f \in Coid :
        \/ MsgSendDirect(t, f) \/ MsgSendRcvFault(t, f) \/ MsgSendQueue(t, f)
        \/ MsgSendPulse(t, f)
        \/ \E ch \in Chan : ConnectAttachShare(t, f, ch) \/ ConnectAttachNew(t, f, ch)
  BY Zenon DEF ClientStep
<1> DEFINE c == fd[<<process[t], f>>]
           ch == cchan[c]
<1>1. CASE MsgSendDirect(t, f)
  <2>1. pulses' = pulses /\ told' = told \ {<<t, c>>} /\ state[t] = "RUN"
    BY <1>1, Zenon DEF MsgSendDirect, Connected, Running
  <2>2. Waits(x) => x # t
    BY <2>1, Zenon DEF Waits
  <2> QED BY <2>1, <2>2, WordSame, Zenon
<1>2. CASE MsgSendPulse(t, f)
  <2>1. PICK o \in pulse_deliver(ch) : pulses' = PulseAdded(pulses, ch, User, o)
    BY <1>2, Zenon DEF MsgSendPulse
  <2>2. told' = told /\ Connected(t, f)
    BY <1>2, Zenon DEF MsgSendPulse
  <2>3. ch \in Chan
    <3>1. <<process[t], f>> \in Proc \X Coid
      BY IpcAssumption, Zenon
    <3> QED BY <2>2, <3>1, Zenon DEF Connected, TypeOK, ConnTypes
  <2>4. o.add \in {0, 1} /\ User \in PulseKind /\ pulses \in [Chan -> [PulseKind -> Nat]]
    BY <2>1, <2>3, Delivery, Kinds, Zenon DEF TypeOK, ChanTypes
  <2> HIDE DEF ch
  <2>5. ASSUME Waits(x), pulses[ChanOf(x)][Unblock(x, blocked_on[x])] > 0
        PROVE  pulses'[ChanOf(x)][Unblock(x, blocked_on[x])] > 0
    BY <2>1, <2>3, <2>4, <2>5, WaitsOn, PulseGrows
  <2> QED BY <2>2, <2>5, WordSame, Zenon
<1>3. CASE \/ MsgSendRcvFault(t, f) \/ MsgSendQueue(t, f)
           \/ \E k \in Chan : ConnectAttachShare(t, f, k) \/ ConnectAttachNew(t, f, k)
  <2>1. UNCHANGED <<pulses, told>>
    BY <1>3, Zenon DEF MsgSendRcvFault, MsgSendQueue, ConnectAttachShare, ConnectAttachNew, chanVars
  <2> QED BY <2>1, WordSame, Zenon
<1> QED BY <1>1, <1>2, <1>3, Zenon

\* A pulse leaves the queue when a server receives it.
LEMMA ReceiveWord ==
    ASSUME Inv, Inv', ReplyFault = FALSE, NEW s \in Thread, NEW ch \in Chan, NEW x \in Thread,
           \/ MsgReceivePulse(s, ch) \/ MsgReceive(s, ch) \/ MsgReceiveDropSender(s, ch)
           \/ MsgReceiveFail(s, ch) \/ MsgReceiveBlock(s, ch, FALSE)
           \/ MsgReceiveBlock(s, ch, TRUE)
           \/ ChannelCreate(s, ch)
    PROVE  KeepsWord(x)
<1>a. pulses \in [Chan -> [PulseKind -> Nat]]
  BY Zenon DEF Inv, TypeOK, ChanTypes
<1>1. CASE MsgReceivePulse(s, ch)
  <2>1. PICK k \in PulseKind :
            /\ pulses' = [pulses EXCEPT ![ch][k] = @ - 1]
            /\ told' = told \cup {r \in Rcvid : k = Unblock(r[1], r[2])}
    BY <1>1, Zenon DEF MsgReceivePulse
  <2>2. CASE Waits(x)
    <3> DEFINE d == blocked_on[x]
               j == Unblock(x, d)
    <3>1. d \in Conn /\ ChanOf(x) \in Chan /\ j \in PulseKind
      BY <2>2, WaitsOn, Zenon
    <3>2. CASE k = j
      <4>1. <<x, d>> \in Rcvid /\ k = Unblock(<<x, d>>[1], <<x, d>>[2])
        BY <3>1, <3>2, Zenon DEF Rcvid
      <4>2. <<x, d>> \in told'
        BY <2>1, <4>1, Zenon
      <4> QED BY <4>2, Zenon DEF KeepsWord
    <3>3. CASE k # j
      <4> HIDE DEF j
      <4>1. pulses'[ChanOf(x)][j] = pulses[ChanOf(x)][j]
        BY <1>a, <2>1, <3>1, <3>3
      <4>2. told \subseteq told'
        BY <2>1, Zenon
      <4> QED BY <4>1, <4>2, WordSame, Zenon DEF j
    <3> QED BY <3>2, <3>3, Zenon
  <2> QED BY <2>2, Zenon DEF KeepsWord
<1>2. CASE MsgReceive(s, ch)
  <2>1. PICK t \in sendq[ch] : told' = told \ {<<t, blocked_on[t]>>}
    BY <1>2, Zenon DEF MsgReceive
  <2>2. t \in Thread /\ state[t] = "SEND"
    BY <2>1 DEF Inv, TypeOK, ChanTypes, QueuesMatch
  <2>3. pulses' = pulses
    BY <1>2, Zenon DEF MsgReceive
  <2>4. Waits(x) => x # t
    BY <2>2, Zenon DEF Waits
  <2> QED BY <2>1, <2>3, <2>4, WordSame, Zenon
<1>3. CASE MsgReceiveDropSender(s, ch)
  <2>1. PICK t \in Thread : force_ready(t)
    BY <1>3, ZenonT(40) DEF MsgReceiveDropSender, Inv, TypeOK, ChanTypes
  <2> QED BY <2>1, IsForced, ForcedWord, Zenon
<1>4. CASE \/ MsgReceiveFail(s, ch) \/ MsgReceiveBlock(s, ch, FALSE) \/ MsgReceiveBlock(s, ch, TRUE)
           \/ ChannelCreate(s, ch)
  <2>1. UNCHANGED <<pulses, told>>
    BY <1>4, Zenon DEF MsgReceiveFail, MsgReceiveBlock, ChannelCreate, chanVars
  <2> QED BY <2>1, WordSame, Zenon
<1> QED BY <1>1, <1>2, <1>3, <1>4, Zenon

\* A reply removes the unblock pulse of the sender it readies, and of no other.
LEMMA RemovedWord ==
    ASSUME Inv, NEW t \in Thread, NEW c \in Conn, cchan[c] \in Chan,
           NEW x \in Thread, x # t, Waits(x)
    PROVE  remove_unblock(t, c)[ChanOf(x)][Unblock(x, blocked_on[x])]
             = pulses[ChanOf(x)][Unblock(x, blocked_on[x])]
<1>1. pulses \in [Chan -> [PulseKind -> Nat]]
  BY Zenon DEF Inv, TypeOK, ChanTypes
<1>2. Unblock(x, blocked_on[x]) # Unblock(t, c)
  BY Zenon DEF Unblock
<1>3. ChanOf(x) \in Chan /\ Unblock(x, blocked_on[x]) \in PulseKind
  BY WaitsOn, Zenon
<1> DEFINE j == Unblock(x, blocked_on[x])
           k == Unblock(t, c)
           ch == ChanOf(x)
<1> HIDE DEF j, k, ch
<1>4. [pulses EXCEPT ![cchan[c]][k] = 0][ch][j] = pulses[ch][j]
  BY <1>1, <1>2, <1>3, Zenon DEF j, k, ch
<1> QED BY <1>4, Zenon DEF remove_unblock, j, k, ch

\* the replies,
LEMMA ReplyWord ==
    ASSUME Inv, Inv', NEW s \in Thread, NEW t \in Thread, NEW c \in Conn, NEW x \in Thread,
           \/ MsgReply(s, t, c) \/ MsgReplyFault(s, t, c) \/ MsgReplyPreempted(s, t, c)
           \/ MsgReplyStale(s, t, c) \/ MsgError(s, t, c) \/ MsgCurrent(s, t, c)
    PROVE  KeepsWord(x)
<1>1. ASSUME NEW fl, lookup_rcvid(s, t, c), Replied(t, c, fl) PROVE KeepsWord(x)
  <2>1. cchan[c] \in Chan
    BY <1>1, LookupBlocked, Zenon
  <2>2. remove_unblock(t, c) \in [Chan -> [PulseKind -> Nat]]
    BY <2>1, RemoveTypes, Zenon DEF Inv
  <2>3. PICK o \in DetachPulse(c) : connect_detach(c, o, remove_unblock(t, c))
    BY <1>1, Zenon DEF Replied
  <2>4. told' = told \ (Stale(c) \cup {<<t, c>>})
    BY <1>1, Zenon DEF Replied
  <2>5. Waits(x) => x # t
    BY <1>1, RepliedOnly, Zenon DEF Waits
  <2>6. Waits(x) => /\ <<x, blocked_on[x]>> \notin {<<t, c>>}
                    /\ pulses[ChanOf(x)][Unblock(x, blocked_on[x])] > 0
                         => remove_unblock(t, c)[ChanOf(x)][Unblock(x, blocked_on[x])] > 0
    BY <2>1, <2>5, RemovedWord, Zenon
  <2> QED BY <2>2, <2>3, <2>4, <2>6, DetachWord, Zenon
<1>2. CASE MsgReply(s, t, c) \/ MsgReplyFault(s, t, c) \/ MsgError(s, t, c)
  BY <1>1, <1>2, Zenon DEF MsgReply, MsgReplyFault, MsgError
<1>3. CASE MsgReplyPreempted(s, t, c)
  <2>1. /\ lookup_rcvid(s, t, c) /\ pulses' = remove_unblock(t, c)
        /\ told' = told /\ tflags' = [tflags EXCEPT ![t] = @ \ {"UNBLOCK_QUEUED"}]
    BY <1>3, Zenon DEF MsgReplyPreempted
  <2>2. cchan[c] \in Chan /\ blocked_on[t] = c
    BY <2>1, LookupBlocked, Zenon
  <2>3. CASE x = t
    <3>1. "UNBLOCK_QUEUED" \notin tflags'[t]
      BY <2>1, Zenon DEF Inv, TypeOK, ThreadTypes
    <3> QED BY <2>3, <3>1, Zenon DEF KeepsWord
  <2>4. CASE x # t
    BY <2>1, <2>2, <2>4, RemovedWord, WordSame, Zenon
  <2> QED BY <2>3, <2>4, Zenon
<1>4. CASE MsgReplyStale(s, t, c)
  <2>1. /\ Holds(s, t, c) /\ ~lookup_rcvid(s, t, c)
        /\ told' = told \ {<<t, c>>} /\ pulses' = pulses
    BY <1>4, Zenon DEF MsgReplyStale, chanVars
  <2>2. ASSUME Waits(x), x = t, blocked_on[x] = c PROVE FALSE
    <3>1. state[t] = "REPLY" /\ blocked_on[t] = c
      BY <2>2, Zenon DEF Waits
    <3>2. links[c] \in Nat \ {0}
      BY <3>1, BlockedOn, Zenon
    <3>3. cproc[c] # NONE
      BY <3>2 DEF Inv, LinkCount
    <3> QED BY <2>1, <3>1, <3>3, Zenon DEF lookup_rcvid
  <2> QED BY <2>1, <2>2, WordSame, Zenon
<1>5. CASE MsgCurrent(s, t, c)
  <2>1. UNCHANGED <<pulses, told>>
    BY <1>5, Zenon DEF MsgCurrent, chanVars
  <2> QED BY <2>1, WordSame, Zenon
<1> QED BY <1>2, <1>3, <1>4, <1>5, Zenon

\* signals, deaths, exits and the beginnings of the long calls,
LEMMA LifeWord ==
    ASSUME Inv, Inv', LifeStep, NEW x \in Thread
    PROVE  KeepsWord(x)
<1>1. ASSUME NEW t \in Thread, Interrupt(t) \/ ThreadDestroyBlocked(t) PROVE KeepsWord(x)
  <2>1. Forced(t)
    BY <1>1, IsForced, Zenon DEF Interrupt
  <2> QED BY <2>1, ForcedWord, Zenon
<1>2. ASSUME NEW p \in Proc, NEW c \in Conn, ServerDetach(p, c) PROVE KeepsWord(x)
  <2>1. links[c] = 0 /\ told' = {r \in told : r[2] # c} /\ pulses' = pulses
    BY <1>2, Zenon DEF ServerDetach, chanVars
  <2>2. Waits(x) => blocked_on[x] # c
    <3>1. Waits(x) => x \in Waiters(blocked_on[x])
      BY Zenon DEF Waits, Waiters
    <3> QED BY <2>1, <3>1, NoLinks, Zenon
  <2>3. Waits(x) /\ <<x, blocked_on[x]>> \in told => <<x, blocked_on[x]>> \in told'
    BY <2>1, <2>2, Zenon
  <2> QED BY <2>1, <2>3, WordSame, Zenon
<1>3. ASSUME \/ \E t \in Thread : ThreadDestroy(t)
             \/ \E p \in Proc : \/ Exit(p)
                                \/ \E f \in Coid : ConnectDetach(p, f)
                                \/ \E ch \in Chan : ChannelDestroy(p, ch)
      PROVE  KeepsWord(x)
  <2>1. UNCHANGED <<pulses, told>>
    BY <1>3, Zenon DEF ThreadDestroy, Exit, ConnectDetach, ChannelDestroy, chanVars
  <2> QED BY <2>1, WordSame, Zenon
<1> QED BY <1>1, <1>2, <1>3, Zenon DEF LifeStep

\* ChannelDestroy throws pulses away, but those of a channel that is going.
LEMMA LongCallWord ==
    ASSUME Inv, Inv', StayInv, LongCallStep, NEW x \in Thread
    PROVE  KeepsWord(x)
<1>a. pulses \in [Chan -> [PulseKind -> Nat]]
  BY Zenon DEF Inv, TypeOK, ChanTypes
<1>b. ASSUME UNCHANGED <<pulses, told>> PROVE KeepsWord(x)
  BY <1>b, WordSame, Zenon
<1>c. ASSUME NEW t \in Thread, force_ready(t) PROVE KeepsWord(x)
  BY <1>c, IsForced, ForcedWord
<1>d. \A ch \in Chan : sendq[ch] \subseteq Thread /\ recvq[ch] \subseteq Thread /\ replyq[ch] \subseteq Thread
  BY Zenon DEF Inv, TypeOK, ChanTypes
<1>e. ASSUME ker.op \in {"send", "reply", "conns"}
      PROVE  ker.chan \in Chan /\ (Waits(x) => ChanOf(x) \in Chan /\ ChanOf(x) # ker.chan)
  <2>1. ker.chan \in Chan /\ chst[ker.chan] = "DYING"
    BY <1>e, Zenon DEF Inv, LongCallSafe
  <2> QED BY <2>1, WaitsOn, Zenon DEF Waits, StayInv
<1>1. ASSUME NEW t \in Thread, DetachThread(t) PROVE KeepsWord(x)
  BY <1>1, <1>c, Zenon DEF DetachThread
<1>2. CASE DetachFinish
  <2> DEFINE c == fd[ker.slot]
  <2>1. PICK o \in DetachPulse(c) : connect_detach(c, o, pulses)
    BY <1>2, Zenon DEF DetachFinish
  <2>2. told' = told \ (Stale(c) \cup {}) /\ ker.op = "detach"
    BY <1>2, Zenon DEF DetachFinish
  <2>3. c \in Conn
    BY <2>2, DetachLink, Zenon
  <2>4. <<x, blocked_on[x]>> \notin {}
    OBVIOUS
  <2> HIDE DEF c
  <2> QED BY <1>a, <2>1, <2>2, <2>3, <2>4, DetachWord, Zenon
<1>3. CASE DestroySend
  <2>1. ker.op = "send" /\ ker.chan \in Chan
    BY <1>3, <1>e, Zenon DEF DestroySend
  <2>2. ASSUME NEW k \in PulseKind, pulses' = [pulses EXCEPT ![ker.chan][k] = 0], told' = told
        PROVE  KeepsWord(x)
    <3>1. Waits(x) => pulses'[ChanOf(x)] = pulses[ChanOf(x)]
      BY <1>a, <1>e, <2>1, <2>2
    <3> QED BY <2>2, <3>1, WordSame, Zenon
  <2>3. \/ \E t \in Thread : force_ready(t)
        \/ told' = told /\ \E k \in PulseKind : pulses' = [pulses EXCEPT ![ker.chan][k] = 0]
    BY <1>3, <1>d, <2>1, Zenon DEF DestroySend
  <2> QED BY <1>c, <2>2, <2>3, Zenon
<1>4. CASE DestroyReceive
  <2>1. ker.chan \in Chan
    BY <1>4, <1>e, Zenon DEF DestroyReceive
  <2>2. \E t \in Thread : force_ready(t)
    BY <1>4, <1>d, <2>1, Zenon DEF DestroyReceive
  <2> QED BY <1>c, <2>2, Zenon
<1>5. CASE DestroyReply
  <2>1. ker.chan \in Chan /\ ker.op = "reply"
    BY <1>5, <1>e, Zenon DEF DestroyReply
  <2>2. PICK t \in replyq[ker.chan] : force_ready_release(t, "RUN", tflags[t])
    BY <1>5, Zenon DEF DestroyReply
  <2>3. t \in Thread /\ state[t] = "REPLY"
    BY <1>d, <2>1, <2>2, Zenon DEF Inv, QueuesMatch
  <2>4. blocked_on[t] \in Conn
    BY <2>3, BlockedOn, Zenon
  <2>5. PICK o \in DetachPulse(blocked_on[t]) : connect_detach(blocked_on[t], o, pulses)
    BY <2>2, <2>3, Zenon DEF force_ready_release
  <2>6. told' = told \ (Stale(blocked_on[t]) \cup {})
    BY <2>2, <2>3, Zenon DEF force_ready_release
  <2>7. <<x, blocked_on[x]>> \notin {}
    OBVIOUS
  <2> QED BY <1>a, <2>4, <2>5, <2>6, <2>7, DetachWord, Zenon
<1>6. ASSUME NEW c \in Conn, DestroyConn(c) PROVE KeepsWord(x)
  <2>1. /\ cchan' = [cchan EXCEPT ![c] = NONE] /\ pulses' = pulses
        /\ told' = {r \in told : r[2] # c}
    BY <1>6, Zenon DEF DestroyConn, chanVars
  <2>2. Waits(x) => cchan'[blocked_on[x]] # NONE
    BY DEF Waits, Inv, QueuesMatch, ChanOf
  <2>3. cchan'[c] = NONE
    BY <2>1, Zenon DEF Inv, TypeOK, ConnTypes
  <2>4. Waits(x) /\ <<x, blocked_on[x]>> \in told => <<x, blocked_on[x]>> \in told'
    BY <2>1, <2>2, <2>3, Zenon
  <2> QED BY <2>1, <2>4, WordSame, Zenon
<1>7. CASE DestroyFree
  <2>1. ker.op = "conns" /\ pulses' = [pulses EXCEPT ![ker.chan] = NoPulses] /\ told' = told
    BY <1>7, Zenon DEF DestroyFree
  <2>2. Waits(x) => pulses'[ChanOf(x)] = pulses[ChanOf(x)]
    BY <1>a, <1>e, <2>1, Zenon
  <2> QED BY <2>1, <2>2, WordSame, Zenon
<1>8. CASE DestroyReceived \/ DestroyReplied \/ Preempt
  BY <1>b, <1>8, Zenon DEF DestroyReceived, DestroyReplied, Preempt, chanVars
<1> QED BY <1>1, <1>2, <1>3, <1>4, <1>5, <1>6, <1>7, <1>8, Zenon DEF LongCallStep

\* and every step.
LEMMA NextWord ==
    ASSUME Inv, Inv', StayInv, ReplyFault = FALSE, Next, NEW x \in Thread
    PROVE  KeepsWord(x)
<1>1. CASE ServerStep
  <2>1. PICK s \in Thread :
        \/ \E ch \in Chan :
             \/ MsgReceivePulse(s, ch) \/ MsgReceive(s, ch) \/ MsgReceiveDropSender(s, ch)
             \/ MsgReceiveFail(s, ch) \/ MsgReceiveBlock(s, ch, FALSE)
             \/ s \in PulseReceivers /\ MsgReceiveBlock(s, ch, TRUE)
             \/ ChannelCreate(s, ch)
        \/ \E t \in Thread, c \in Conn :
             \/ MsgReply(s, t, c) \/ MsgReplyFault(s, t, c) \/ MsgReplyPreempted(s, t, c)
             \/ MsgReplyStale(s, t, c) \/ MsgError(s, t, c) \/ MsgCurrent(s, t, c)
        \/ MsgCurrentNone(s)
    BY <1>1, Zenon DEF ServerStep
  <2>2. CASE MsgCurrentNone(s)
    <3>1. UNCHANGED <<pulses, told>>
      BY <2>2, Zenon DEF MsgCurrentNone, chanVars
    <3> QED BY <3>1, WordSame, Zenon
  <2> QED BY <2>1, <2>2, ReceiveWord, ReplyWord, Zenon
<1> QED BY <1>1, ClientWord, LifeWord, LongCallWord, Zenon DEF Next

\* The inductive invariant for the flags: a thread that was asked to leave waits
\* for a reply, and as long as its pulse counts as queued, for that of a server
\* that has or will receive it.
AskedInv ==
    \A x \in Thread : Asked(x) =>
        /\ state[x] = "REPLY" /\ "UNBLOCK" \in chflags[ChanOf(x)]
        /\ "UNBLOCK_QUEUED" \in tflags[x] => Heard(x, ChanOf(x), blocked_on[x])

\* Every step keeps AskedInv.
LEMMA AskedStep ==
    ASSUME Inv, Inv', ServedInv, StayInv, AskedInv, ReplyFault = FALSE, [Next]_vars
    PROVE  AskedInv'
<1>1. CASE UNCHANGED vars
  BY <1>1, Zenon DEF vars, AskedInv, Asked, Heard, ChanOf
<1>2. CASE Next
  <2>1. Goes /\ ChannelsKept
    BY <1>2, NextGoes, NextKeepsChannels, Zenon DEF ServedInv
  <2>2. SUFFICES ASSUME NEW x \in Thread, Asked(x)'
                 PROVE  /\ state'[x] = "REPLY" /\ "UNBLOCK" \in chflags[ChanOf(x)']
                        /\ "UNBLOCK_QUEUED" \in tflags'[x] => Heard(x, ChanOf(x), blocked_on[x])'
    BY Zenon DEF AskedInv
  <2>3. Way(x)
    BY <2>1, Zenon DEF Goes
  <2>4. Asked(x) => /\ state[x] = "REPLY" /\ "UNBLOCK" \in chflags[ChanOf(x)]
                    /\ "UNBLOCK_QUEUED" \in tflags[x] => Heard(x, ChanOf(x), blocked_on[x])
                    /\ Protected(x)
    <3>1. Asked(x) => /\ state[x] = "REPLY" /\ "UNBLOCK" \in chflags[ChanOf(x)]
                      /\ "UNBLOCK_QUEUED" \in tflags[x] => Heard(x, ChanOf(x), blocked_on[x])
      BY Zenon DEF AskedInv
    <3>2. state[x] = "REPLY" => ChanOf(x) \in Chan
      BY BlockedOn, Zenon
    <3> QED BY <3>1, <3>2, Zenon DEF StayInv, Protected
  <2>5. /\ state[x] = "REPLY" /\ state'[x] = "REPLY" /\ blocked_on'[x] = blocked_on[x]
        /\ "UNBLOCK" \in chflags[ChanOf(x)]
        /\ "UNBLOCK_QUEUED" \in tflags'[x] =>
             \/ Heard(x, ChanOf(x), blocked_on[x])
             \/ pulses'[ChanOf(x)][Unblock(x, blocked_on[x])] > 0
             \/ <<x, blocked_on[x]>> \in told'
    <3>1. "UNBLOCK_QUEUED" \in tflags[x] => Asked(x)
      BY Zenon DEF Asked
    <3> QED BY <2>2, <2>3, <2>4, <3>1, Zenon DEF Way, Bystander
  <2>6. ChanOf(x)' = ChanOf(x)
    BY <2>1, <2>5, ChannelStays, Zenon
  <2>7. "UNBLOCK_QUEUED" \in tflags'[x] =>
          \/ pulses'[ChanOf(x)][Unblock(x, blocked_on[x])] > 0
          \/ <<x, blocked_on[x]>> \in told'
    BY <1>2, <2>5, NextWord, Zenon DEF KeepsWord, Waits
  <2>8. "UNBLOCK_QUEUED" \in tflags'[x] => Heard(x, ChanOf(x), blocked_on[x])'
    BY <2>5, <2>6, <2>7, Zenon DEF Heard
  <2> QED BY <2>5, <2>6, <2>8, Zenon
<1> QED BY <1>1, <1>2, Zenon

\* So it always holds.
LEMMA AskedAlways ==
    ASSUME ReplyFault = FALSE, ServersStay
    PROVE  Spec => []AskedInv
<1>1. Init => AskedInv
  BY Zenon DEF Init, AskedInv, Asked
<1>2. Inv /\ Inv' /\ ServedInv /\ StayInv /\ AskedInv /\ [Next]_vars => AskedInv'
  BY AskedStep, Zenon
<1> QED BY <1>1, <1>2, Invariance, ServedAlways, StayAlways, PTL DEF Spec

\* force_ready's unblock pulse is not lost: a thread that was asked to leave an
\* UNBLOCK channel and counts as announced waits for a server that has received its
\* pulse or finds it in the queue.  The server stays and no buffer of a server faults;
\* the clients come and go at will.
THEOREM UnblocksAreAnnounced ==
    ASSUME ReplyFault = FALSE, ServersStay
    PROVE  Spec => []UnblockAnnounced
<1>1. AskedInv => UnblockAnnounced
  BY Zenon DEF AskedInv, UnblockAnnounced, Asked, Heard
<1> QED BY <1>1, AskedAlways, PTL

\* UNBLOCK_REQ does not outlive the message it was set for: the replies, and a
\* failed unblock pulse, clear it when they ready the thread.
THEOREM UnblockReqIsFresh ==
    ASSUME ReplyFault = FALSE, ServersStay
    PROVE  Spec => []UnblockReqFresh
<1>1. AskedInv => UnblockReqFresh
  BY Zenon DEF AskedInv, UnblockReqFresh, Asked
<1> QED BY <1>1, AskedAlways, PTL
-----------------------------------------------------------------------------
(***************************************************************************)
(* The contract of UNBLOCK channels                                        *)
(***************************************************************************)
\* A thread that waits for a reply goes on waiting, unless nothing protects it
\* or its rcvid is answered.
Endures(x) ==
    state[x] = "REPLY" =>
        \/ state'[x] = "REPLY" /\ blocked_on'[x] = blocked_on[x]
        \/ ~Protected(x)
        \/ <<x, blocked_on[x]>> \notin owed'

\* A rcvid is new, of a thread that waits, or its connection keeps its channel.
OwedKept ==
    \A r \in owed' : \/ r \in owed /\ cchan'[r[2]] = cchan[r[2]]
                     \/ state'[r[1]] = "REPLY" /\ blocked_on'[r[1]] = r[2]

Holding == (\A x \in Thread : Endures(x)) /\ OwedKept

\* It is enough to look at the thread that a step moves.
LEMMA OthersEndure ==
    ASSUME NEW t, Only(t), t \in Thread => Endures(t)
    PROVE  \A x \in Thread : Endures(x)
BY Zenon DEF Only, Bystander, Endures

\* connect_detach only takes rcvids away.
LEMMA DetachOwed ==
    ASSUME Inv, NEW c \in Conn, NEW o, NEW pl, connect_detach(c, o, pl),
           NEW R, owed' = owed \ (Stale(c) \cup R)
    PROVE  OwedKept
<1>1. SUFFICES ASSUME NEW r \in owed, r \notin Stale(c) PROVE cchan'[r[2]] = cchan[r[2]]
  BY Zenon DEF OwedKept
<1>2. r \in Rcvid /\ r[2] \in Conn
  BY Zenon DEF Inv, TypeOK, KernelTypes, Rcvid
<1>3. r[2] = c => ~(links[c] = 1 /\ ~WantsDisconnect(c))
  BY <1>1, <1>2, Zenon DEF Stale
<1>4. cchan \in [Conn -> Chan \cup {NONE}]
  BY Zenon DEF Inv, TypeOK, ConnTypes
<1>5. cchan' = [cchan EXCEPT ![c] = IF links[c] = 1 /\ ~WantsDisconnect(c) THEN NONE ELSE @]
  BY Zenon DEF connect_detach
<1> QED BY <1>2, <1>3, <1>4, <1>5, Zenon

\* So does a release.
LEMMA ReleaseOwed ==
    ASSUME Inv, NEW t \in Thread, NEW st, NEW fl, force_ready_release(t, st, fl)
    PROVE  OwedKept
<1>1. CASE state[t] = "RECEIVE"
  <2>1. UNCHANGED <<owed, cchan>>
    BY <1>1, Zenon DEF force_ready_release
  <2> QED BY <2>1, Zenon DEF OwedKept
<1>2. CASE state[t] \in {"SEND", "REPLY"}
  <2>1. blocked_on[t] \in Conn
    BY <1>2, BlockedOn, Zenon
  <2>2. PICK o \in DetachPulse(blocked_on[t]) : connect_detach(blocked_on[t], o, pulses)
    BY <1>2, Zenon DEF force_ready_release
  <2>3. owed' = owed \ (Stale(blocked_on[t]) \cup {})
    BY <1>2, Zenon DEF force_ready_release
  <2> QED BY <2>1, <2>2, <2>3, DetachOwed, Zenon
<1> QED BY <1>1, <1>2, ReleaseOnly, Zenon

\* A needed unblock pulse is delivered when a pulse can always be allocated.
LEMMA UnblockSucceeds ==
    ASSUME Inv, FALSE \notin AllocOk, NEW t \in Thread
    PROVE  ~unblock_failed(t)
<1>1. SUFFICES ASSUME unblock_failed(t) PROVE FALSE
  OBVIOUS
<1>2. pst[chproc[ChanOf(t)]] # "TERMING" /\ Dropped \in pulse_deliver(ChanOf(t))
  BY <1>1, Zenon DEF unblock_failed, unblock_needed
<1>3. \A r : Dropped # Woken(r) /\ Dropped # Queued
  BY Zenon DEF Dropped, Woken, Queued
<1>4. \E a \in AllocOk : Dropped = (IF a THEN Queued ELSE Dropped)
  BY <1>2, <1>3, Zenon DEF pulse_deliver
<1>5. \A a \in AllocOk : a = TRUE
  BY IpcAssumption, Zenon
<1> QED BY <1>3, <1>4, <1>5, Zenon

\* A thread that is asked to leave stays when the pulse can be allocated.
LEMMA ForcedHolds ==
    ASSUME Inv, FALSE \notin AllocOk, NEW t \in Thread, Forced(t)
    PROVE  Holding
<1>1. ASSUME NEW kill, force_ready_defer(t, kill) PROVE Holding
  <2>1. Only(t) /\ state'[t] = "REPLY" /\ blocked_on'[t] = blocked_on[t]
    BY <1>1, DeferOnly, Zenon
  <2>2. UNCHANGED <<owed, cchan>>
    BY <1>1, Zenon DEF force_ready_defer
  <2>3. Endures(t) /\ OwedKept
    BY <2>1, <2>2, Zenon DEF Endures, OwedKept
  <2> QED BY <2>1, <2>3, OthersEndure, Zenon DEF Holding
<1>2. ASSUME NEW st, ~unblock_needed(t), force_ready_release(t, st, tflags[t]) PROVE Holding
  <2>1. Only(t)
    BY <1>2, ReleaseOnly, Zenon
  <2>2. state[t] = "REPLY" => ChanOf(t) # NONE
    BY Zenon DEF Inv, QueuesMatch
  <2>3. Endures(t)
    BY <1>2, <2>2, Zenon DEF unblock_needed, Protected, Endures
  <2> QED BY <1>2, <2>1, <2>3, OthersEndure, ReleaseOwed, Zenon DEF Holding
<1> QED BY <1>1, <1>2, UnblockSucceeds, Zenon DEF Forced

\* A step that moves no thread and no connection.
LEMMA StillHolds ==
    ASSUME UNCHANGED <<state, blocked_on, cchan>>, owed' \subseteq owed
    PROVE  Holding
BY DEF Holding, Endures, OwedKept

\* The connection of a rcvid has a channel.
OwedChannels == \A r \in owed : cchan[r[2]] # NONE

\* The calls of clients.
LEMMA ClientHolds ==
    ASSUME Inv, OwedChannels, ClientStep
    PROVE  Holding
<1> USE DEF Inv
<1> PICK t \in Thread, f \in Coid :
        \/ MsgSendDirect(t, f) \/ MsgSendRcvFault(t, f) \/ MsgSendQueue(t, f)
        \/ MsgSendPulse(t, f)
        \/ \E ch \in Chan : ConnectAttachShare(t, f, ch) \/ ConnectAttachNew(t, f, ch)
  BY Zenon DEF ClientStep
<1> DEFINE slot == <<process[t], f>>
           c == fd[slot]
           ch == cchan[c]
<1>0. slot \in Proc \X Coid
  BY IpcAssumption, Zenon
<1>c. ASSUME Connected(t, f)
      PROVE  c \in Conn /\ ch \in Chan /\ state[t] = "RUN"
  BY <1>0, <1>c, Zenon DEF Connected, Running, TypeOK, ConnTypes
<1>d. ASSUME NEW r \in MsgReceivers(ch), ch \in Chan
      PROVE  r \in Thread /\ state[r] = "RECEIVE"
  BY <1>d DEF MsgReceivers, QueuesMatch, TypeOK, ChanTypes
<1>1. CASE MsgSendDirect(t, f)
  <2>1. PICK r \in MsgReceivers(ch) :
            /\ Become(t, "REPLY", tflags[t], r)
            /\ blocked_on' = [blocked_on EXCEPT ![t] = c, ![r] = NONE]
    BY <1>1, Zenon DEF MsgSendDirect
  <2>2. c \in Conn /\ state[t] = "RUN" /\ r \in Thread /\ state[r] = "RECEIVE"
    BY <1>1, <1>c, <1>d, Zenon DEF MsgSendDirect
  <2>3. cchan' = cchan /\ owed' = owed \cup {<<t, c>>}
    BY <1>1, Zenon DEF MsgSendDirect
  <2>4. /\ state'[t] = "REPLY" /\ blocked_on'[t] = c
        /\ \A x \in Thread \ {t, r} : state'[x] = state[x] /\ blocked_on'[x] = blocked_on[x]
    BY <2>1, <2>2, Zenon DEF Become, TypeOK, ThreadTypes
  <2>5. \A x \in Thread : Endures(x)
    BY <2>2, <2>4, Zenon DEF Endures
  <2>6. OwedKept
    BY <2>3, <2>4 DEF OwedKept
  <2> QED BY <2>5, <2>6, Zenon DEF Holding
<1>2. CASE MsgSendRcvFault(t, f)
  <2>1. PICK r \in MsgReceivers(ch) : /\ state' = [state EXCEPT ![r] = "RUN"]
                                      /\ blocked_on' = [blocked_on EXCEPT ![r] = NONE]
    BY <1>2, Zenon DEF MsgSendRcvFault
  <2>2. r \in Thread /\ state[r] = "RECEIVE"
    BY <1>2, <1>c, <1>d, Zenon DEF MsgSendRcvFault
  <2>3. UNCHANGED <<owed, cchan>>
    BY <1>2, Zenon DEF MsgSendRcvFault
  <2> QED BY <2>1, <2>2, <2>3, Zenon DEF Holding, Endures, OwedKept, TypeOK, ThreadTypes
<1>3. CASE MsgSendQueue(t, f)
  <2>1. /\ state' = [state EXCEPT ![t] = "SEND"] /\ blocked_on' = [blocked_on EXCEPT ![t] = c]
        /\ state[t] = "RUN" /\ UNCHANGED <<owed, cchan>>
    BY <1>3, <1>c, Zenon DEF MsgSendQueue
  <2> QED BY <2>1, Zenon DEF Holding, Endures, OwedKept, TypeOK, ThreadTypes
<1>4. CASE MsgSendPulse(t, f)
  <2>1. PICK o \in pulse_deliver(ch) : Become(NONE, "RUN", {}, o.wake) /\ Unblocked({o.wake})
    BY <1>4, Zenon DEF MsgSendPulse
  <2>2. UNCHANGED <<owed, cchan>> /\ ch \in Chan
    BY <1>4, <1>c, Zenon DEF MsgSendPulse, connVars
  <2> HIDE DEF ch
  <2>3. \A x \in Thread : Bystander(x)
    BY <2>1, <2>2, PulseOnly, Zenon
  <2> QED BY <2>2, <2>3, Zenon DEF Holding, Endures, Bystander, OwedKept
<1>5. ASSUME NEW k, ConnectAttachShare(t, f, k) PROVE Holding
  <2>1. UNCHANGED <<state, blocked_on, cchan, owed>>
    BY <1>5, Zenon DEF ConnectAttachShare, threadVars
  <2> QED BY <2>1, StillHolds, Zenon
<1>6. ASSUME NEW k, ConnectAttachNew(t, f, k) PROVE Holding
  <2>1. UNCHANGED <<state, blocked_on, owed>>
    BY <1>6, Zenon DEF ConnectAttachNew, threadVars
  <2>2. PICK d \in Conn : cchan[d] = NONE /\ cchan' = [cchan EXCEPT ![d] = k]
    BY <1>6, Zenon DEF ConnectAttachNew
  <2>3. ASSUME NEW r \in owed PROVE cchan'[r[2]] = cchan[r[2]]
    <3>1. r[2] \in Conn /\ r[2] # d
      BY <2>2, Zenon DEF OwedChannels, TypeOK, KernelTypes, Rcvid
    <3> QED BY <2>2, <3>1, Zenon DEF TypeOK, ConnTypes
  <2> QED BY <2>1, <2>3, Zenon DEF Holding, Endures, OwedKept
<1> QED BY <1>1, <1>2, <1>3, <1>4, <1>5, <1>6, Zenon

\* The calls of servers.
LEMMA ServerHolds ==
    ASSUME Inv, FALSE \notin AllocOk, ServerStep
    PROVE  Holding
<1> USE DEF Inv
<1>1. PICK s \in Thread :
        \/ \E ch \in Chan :
             \/ MsgReceivePulse(s, ch) \/ MsgReceive(s, ch) \/ MsgReceiveDropSender(s, ch)
             \/ MsgReceiveFail(s, ch) \/ MsgReceiveBlock(s, ch, FALSE)
             \/ s \in PulseReceivers /\ MsgReceiveBlock(s, ch, TRUE)
             \/ ChannelCreate(s, ch)
        \/ \E t \in Thread, c \in Conn :
             \/ MsgReply(s, t, c) \/ MsgReplyFault(s, t, c) \/ MsgReplyPreempted(s, t, c)
             \/ MsgReplyStale(s, t, c) \/ MsgError(s, t, c) \/ MsgCurrent(s, t, c)
        \/ MsgCurrentNone(s)
  BY Zenon DEF ServerStep
<1>2. ASSUME NEW ch \in Chan, MsgReceivePulse(s, ch) \/ MsgReceiveFail(s, ch) \/ ChannelCreate(s, ch)
      PROVE  Holding
  <2>1. UNCHANGED <<state, blocked_on, cchan, owed>>
    BY <1>2, Zenon DEF MsgReceivePulse, MsgReceiveFail, ChannelCreate, threadVars, connVars
  <2> QED BY <2>1, StillHolds, Zenon
<1>3. ASSUME NEW ch \in Chan, MsgReceive(s, ch) PROVE Holding
  <2>1. PICK t \in sendq[ch] : /\ state' = [state EXCEPT ![t] = "REPLY"]
                               /\ owed' = owed \cup {<<t, blocked_on[t]>>}
    BY <1>3, Zenon DEF MsgReceive
  <2>2. UNCHANGED <<blocked_on, cchan>>
    BY <1>3, Zenon DEF MsgReceive, connVars
  <2>3. t \in Thread /\ state[t] = "SEND"
    BY <2>1, Zenon DEF TypeOK, ChanTypes, QueuesMatch
  <2>4. state'[t] = "REPLY" /\ \A x \in Thread \ {t} : state'[x] = state[x]
    BY <2>1, <2>3, Zenon DEF TypeOK, ThreadTypes
  <2>5. \A x \in Thread : Endures(x)
    BY <2>2, <2>3, <2>4, Zenon DEF Endures
  <2>6. OwedKept
    BY <2>1, <2>2, <2>4 DEF OwedKept
  <2> QED BY <2>5, <2>6, Zenon DEF Holding
<1>4. ASSUME NEW ch \in Chan, MsgReceiveDropSender(s, ch) PROVE Holding
  <2>1. PICK t \in Thread : force_ready(t)
    BY <1>4, ZenonT(40) DEF MsgReceiveDropSender, TypeOK, ChanTypes
  <2> QED BY <2>1, IsForced, ForcedHolds, Zenon
<1>5. ASSUME NEW ch \in Chan, NEW b \in BOOLEAN, MsgReceiveBlock(s, ch, b) PROVE Holding
  <2>1. /\ state' = [state EXCEPT ![s] = "RECEIVE"] /\ blocked_on' = [blocked_on EXCEPT ![s] = ch]
        /\ state[s] = "RUN" /\ UNCHANGED <<cchan, owed>>
    BY <1>5, Zenon DEF MsgReceiveBlock, CanReceive, Running, connVars
  <2> QED BY <2>1, Zenon DEF Holding, Endures, OwedKept, TypeOK, ThreadTypes
<1>6. ASSUME NEW t \in Thread, NEW c \in Conn,
             MsgReply(s, t, c) \/ MsgReplyFault(s, t, c) \/ MsgError(s, t, c)
      PROVE  Holding
  <2>1. PICK fl : lookup_rcvid(s, t, c) /\ Replied(t, c, fl)
    BY <1>6, Zenon DEF MsgReply, MsgReplyFault, MsgError
  <2>2. blocked_on[t] = c
    BY <2>1, LookupBlocked, Zenon
  <2>3. Only(t)
    BY <2>1, RepliedOnly, Zenon
  <2>4. PICK o : connect_detach(c, o, remove_unblock(t, c))
    BY <2>1, Zenon DEF Replied
  <2>5. owed' = owed \ (Stale(c) \cup {<<t, c>>})
    BY <2>1, Zenon DEF Replied
  <2>6. Endures(t)
    BY <2>2, <2>5, Zenon DEF Endures
  <2> QED BY <2>3, <2>4, <2>5, <2>6, OthersEndure, DetachOwed, Zenon DEF Holding
<1>7. ASSUME NEW t \in Thread, NEW c \in Conn,
             MsgReplyPreempted(s, t, c) \/ MsgReplyStale(s, t, c) \/ MsgCurrent(s, t, c)
      PROVE  Holding
  <2>1. /\ UNCHANGED <<state, blocked_on, cchan>>
        /\ owed' = owed \/ owed' = owed \ {<<t, c>>}
    BY <1>7, Zenon DEF MsgReplyPreempted, MsgReplyStale, MsgCurrent, threadVars, connVars
  <2> QED BY <2>1, StillHolds, Zenon
<1>8. CASE MsgCurrentNone(s)
  <2>1. UNCHANGED <<state, blocked_on, cchan, owed>>
    BY <1>8, Zenon DEF MsgCurrentNone, connVars
  <2> QED BY <2>1, StillHolds, Zenon
<1> QED BY <1>1, <1>2, <1>3, <1>4, <1>5, <1>6, <1>7, <1>8, Zenon

\* Signals, deaths, exits and the beginnings of the long calls.
LEMMA LifeHolds ==
    ASSUME Inv, FALSE \notin AllocOk, LifeStep
    PROVE  Holding
<1> USE DEF Inv
<1>1. ASSUME NEW t \in Thread, Interrupt(t) \/ ThreadDestroyBlocked(t) PROVE Holding
  <2>1. Forced(t)
    BY <1>1, IsForced, Zenon DEF Interrupt
  <2> QED BY <2>1, ForcedHolds, Zenon
<1>2. ASSUME NEW t \in Thread, ThreadDestroy(t) PROVE Holding
  <2>1. /\ state[t] = "RUN" /\ state' = [state EXCEPT ![t] = "DEAD"]
        /\ UNCHANGED <<blocked_on, cchan, owed>>
    BY <1>2, Zenon DEF ThreadDestroy, connVars
  <2> QED BY <2>1, Zenon DEF Holding, Endures, OwedKept, TypeOK, ThreadTypes
<1>3. ASSUME NEW p \in Proc, NEW c \in Conn, ServerDetach(p, c) PROVE Holding
  <2>1. /\ UNCHANGED threadVars /\ cchan' = [cchan EXCEPT ![c] = NONE]
        /\ owed' = {r \in owed : r[2] # c}
    BY <1>3, Zenon DEF ServerDetach
  <2>2. OwedKept
    BY <2>1, Zenon DEF OwedKept, TypeOK, ConnTypes, KernelTypes, Rcvid
  <2> QED BY <2>1, <2>2, Zenon DEF Holding, Endures, threadVars
<1>4. ASSUME NEW p \in Proc,
             \/ Exit(p)
             \/ \E f \in Coid : ConnectDetach(p, f)
             \/ \E ch \in Chan : ChannelDestroy(p, ch)
      PROVE  Holding
  <2>1. UNCHANGED <<state, blocked_on, cchan, owed>>
    BY <1>4, Zenon DEF Exit, ConnectDetach, ChannelDestroy, threadVars, connVars
  <2> QED BY <2>1, StillHolds
<1> QED BY <1>1, <1>2, <1>3, <1>4, Zenon DEF LifeStep

\* The later steps of ConnectDetach and ChannelDestroy.
LEMMA LongCallHolds ==
    ASSUME Inv, FALSE \notin AllocOk, LongCallStep
    PROVE  Holding
<1> USE DEF Inv
<1>c. ASSUME NEW t \in Thread, force_ready(t) PROVE Holding
  BY <1>c, IsForced, ForcedHolds, Zenon
<1>d. \A ch \in Chan : sendq[ch] \subseteq Thread /\ recvq[ch] \subseteq Thread /\ replyq[ch] \subseteq Thread
  BY DEF TypeOK, ChanTypes
<1>1. ASSUME NEW t \in Thread, DetachThread(t) PROVE Holding
  BY <1>1, <1>c, Zenon DEF DetachThread
<1>2. CASE DetachFinish
  <2> DEFINE c == fd[ker.slot]
  <2>1. PICK o \in DetachPulse(c) : /\ Become(NONE, "RUN", {}, o.wake) /\ Unblocked({o.wake})
                                    /\ connect_detach(c, o, pulses)
    BY <1>2, Zenon DEF DetachFinish
  <2>2. owed' = owed \ (Stale(c) \cup {}) /\ ker.op = "detach"
    BY <1>2, Zenon DEF DetachFinish
  <2>3. c \in Conn
    BY <2>2, DetachLink, Zenon
  <2> HIDE DEF c
  <2>4. OwedKept
    BY <2>1, <2>2, <2>3, DetachOwed, Zenon
  <2>5. Only(NONE)
    BY <2>1, <2>3, DetachedReceiver, BecomeOnly, Zenon
  <2> QED BY <2>4, <2>5, IpcAssumption, OthersEndure, Zenon DEF Holding
<1>3. CASE DestroySend \/ DestroyReceive
  <2>1. ker.chan \in Chan
    BY <1>3, Zenon DEF DestroySend, DestroyReceive, LongCallSafe
  <2>2. (\E t \in Thread : force_ready(t)) \/ UNCHANGED <<state, blocked_on, cchan, owed>>
    BY <1>3, <1>d, <2>1, Zenon DEF DestroySend, DestroyReceive, threadVars, connVars
  <2>3. UNCHANGED <<state, blocked_on, cchan, owed>> => Holding
    BY StillHolds, Zenon
  <2> QED BY <1>c, <2>2, <2>3, Zenon
<1>4. CASE DestroyReply
  <2>1. ker.op = "reply" /\ ker.chan \in Chan /\ chst[ker.chan] = "DYING"
    BY <1>4, Zenon DEF DestroyReply, LongCallSafe
  <2>2. PICK t \in replyq[ker.chan] : force_ready_release(t, "RUN", tflags[t])
    BY <1>4, Zenon DEF DestroyReply
  <2>3. t \in Thread /\ ChanOf(t) = ker.chan
    BY <1>d, <2>1, <2>2, Zenon DEF QueuesMatch
  <2>4. Endures(t)
    BY <2>1, <2>3, Zenon DEF Protected, Endures
  <2>5. Only(t) /\ OwedKept
    BY <2>2, <2>3, ReleaseOnly, ReleaseOwed, Zenon
  <2> QED BY <2>4, <2>5, OthersEndure, Zenon DEF Holding
<1>5. ASSUME NEW c \in Conn, DestroyConn(c) PROVE Holding
  <2>1. /\ UNCHANGED threadVars /\ cchan' = [cchan EXCEPT ![c] = NONE]
        /\ owed' = {r \in owed : r[2] # c}
    BY <1>5, Zenon DEF DestroyConn
  <2>2. OwedKept
    BY <2>1, Zenon DEF OwedKept, TypeOK, ConnTypes, KernelTypes, Rcvid
  <2> QED BY <2>1, <2>2, Zenon DEF Holding, Endures, threadVars
<1>6. CASE DestroyReceived \/ DestroyReplied \/ DestroyFree \/ Preempt
  <2>1. UNCHANGED <<state, blocked_on, cchan, owed>>
    BY <1>6, Zenon DEF DestroyReceived, DestroyReplied, DestroyFree, Preempt, threadVars, connVars
  <2> QED BY <2>1, StillHolds, Zenon
<1> QED BY <1>1, <1>2, <1>3, <1>4, <1>5, <1>6, Zenon DEF LongCallStep

\* The inductive invariant for the contract.
ContractInv == UnblockContract /\ OwedChannels

\* Every step keeps the contract.
LEMMA ContractStep ==
    ASSUME FALSE \notin AllocOk, Inv, Inv', ContractInv, [Next]_vars
    PROVE  ContractInv'
<1>1. CASE UNCHANGED vars
  BY <1>1, Zenon DEF vars, ContractInv, UnblockContract, OwedChannels
<1>2. CASE Next
  <2>1. Holding
    BY <1>2, ClientHolds, ServerHolds, LifeHolds, LongCallHolds, Zenon DEF Next, ContractInv
  <2>2. ProcStep /\ ChanStep
    BY <1>2, NextLives, Zenon
  <2>3. SUFFICES ASSUME NEW r \in owed'
                 PROVE  /\ cchan'[r[2]] # NONE
                        /\ (/\ chst'[cchan'[r[2]]] = "LIVE"
                            /\ pst'[chproc[cchan'[r[2]]]] = "LIVE"
                            /\ "UNBLOCK" \in chflags[cchan'[r[2]]])
                              => state'[r[1]] = "REPLY" /\ blocked_on'[r[1]] = r[2]
    BY Zenon DEF ContractInv, UnblockContract, OwedChannels
  <2> DEFINE x == r[1]
             c == r[2]
             ch == cchan[c]
  <2>4. x \in Thread /\ c \in Conn /\ r = <<x, c>>
    BY <2>3 DEF Inv, TypeOK, KernelTypes, Rcvid
  <2> HIDE DEF x, c
  <2>5. CASE state'[x] = "REPLY" /\ blocked_on'[x] = c
    <3>1. cchan'[c] # NONE
      BY <2>4, <2>5, Zenon DEF Inv, QueuesMatch, ChanOf
    <3> QED BY <2>5, <3>1, Zenon DEF x, c
  <2>6. CASE r \in owed /\ cchan'[c] = ch
    <3>1. ch \in Chan /\ chst[ch] # "FREE"
      <4>1. ch # NONE
        BY <2>6 DEF ContractInv, OwedChannels, c
      <4> QED BY <2>4, <4>1 DEF Inv, TypeOK, ConnTypes, QueuesMatch
    <3>2. SUFFICES ASSUME chst'[ch] = "LIVE", pst'[chproc[ch]] = "LIVE", "UNBLOCK" \in chflags[ch]
                   PROVE  state'[x] = "REPLY" /\ blocked_on'[x] = c
      BY <2>6, <3>1, IpcAssumption, Zenon DEF x, c
    <3>3. chst[ch] = "LIVE"
      BY <2>2, <3>1, <3>2, Zenon DEF ChanStep, Inv, TypeOK, ChanTypes
    <3>4. pst[chproc[ch]] = "LIVE"
      <4>1. chproc[ch] \in Proc /\ pst \in [Proc -> {"LIVE", "DESTROYALL", "TERMING"}]
        BY <3>1, IpcAssumption, Zenon DEF Inv, TypeOK, KernelTypes
      <4> QED BY <2>2, <3>2, <4>1, Zenon DEF ProcStep, ProcAfterDeath
    <3>5. state[x] = "REPLY" /\ blocked_on[x] = c
      BY <2>6, <3>1, <3>2, <3>3, <3>4, IpcAssumption, Zenon DEF ContractInv, UnblockContract, x, c
    <3>6. Protected(x)
      BY <3>2, <3>3, <3>4, <3>5, Zenon DEF Protected, ChanOf
    <3> QED BY <2>1, <2>3, <2>4, <3>5, <3>6, Zenon DEF Holding, Endures
  <2> QED BY <2>1, <2>3, <2>5, <2>6, Zenon DEF Holding, OwedKept, x, c
<1> QED BY <1>1, <1>2, Zenon

\* What _NTO_CHF_UNBLOCK promises, for any number of clients, servers, channels
\* and connections: as long as pulses can be allocated, a client whose rcvid a
\* server of a live channel holds stays reply blocked on it, whatever
\* interrupts, kills or detaches it, and however the long calls interleave.
THEOREM UnblockContractHolds ==
    ASSUME FALSE \notin AllocOk
    PROVE  Spec => []UnblockContract
<1>1. Init => ContractInv
  BY Zenon DEF Init, ContractInv, UnblockContract, OwedChannels
<1>2. Inv /\ Inv' /\ ContractInv /\ [Next]_vars => ContractInv'
  BY ContractStep, Zenon
<1>3. ContractInv => UnblockContract
  BY DEF ContractInv
<1> QED BY <1>1, <1>2, <1>3, Invariance, PTL DEF Spec
=============================================================================
