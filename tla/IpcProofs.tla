------------------------------ MODULE IpcProofs ------------------------------
(***************************************************************************)
(* The invariants of Ipc, proved for any number of processes, threads,     *)
(* channels, connections and coids.                                        *)
(***************************************************************************)
EXTENDS IpcTypeProofs

(***************************************************************************)
(* The calls                                                               *)
(***************************************************************************)
\* No long call is in progress after the step.
LEMMA IdleSafe ==
    ASSUME ker' = Idle
    PROVE  LongCallSafe'
BY DEF LongCallSafe, Idle

\* A long call goes on after a step that moved thread t.
LEMMA CallGoesOn ==
    ASSUME Inv, NEW t, Shrinks(t), ker'.op = ker.op, ker'.slot = ker.slot, ker'.chan = ker.chan,
           ker'.todo \subseteq ker.todo, ker.op = "detach" => t \notin ker'.todo
    PROVE  LongCallSafe'
<1> USE DEF Inv
<1>1. ASSUME ker.op = "detach"
      PROVE  \A x \in ker'.todo : state'[x] \in {"SEND", "REPLY"}
  BY <1>1 DEF LongCallSafe, Shrinks, TypeOK, KernelTypes
<1>2. ASSUME ker.op \in {"send", "reply", "conns"}
      PROVE  /\ ker.chan \in Chan /\ chst'[ker.chan] = "DYING"
             /\ ker.op \in {"reply", "conns"} => sendq'[ker.chan] = {} /\ recvq'[ker.chan] = {}
             /\ ker.op = "conns" => replyq'[ker.chan] = {}
  BY <1>2 DEF LongCallSafe, Shrinks
<1> QED BY <1>1, <1>2, Zenon DEF LongCallSafe, Shrinks

\* A connection that a coid names has links and a process; one without links
\* is named by nothing.
LEMMA CoidLink ==
    ASSUME Inv, NEW slot \in Proc \X Coid, fd[slot] \in Conn
    PROVE  links[fd[slot]] \in Nat \ {0} /\ cproc[fd[slot]] # NONE
<1> DEFINE c == fd[slot]
<1>1. slot \in Coids(c)
  BY DEF Coids
<1>2. Cardinality(Coids(c)) \in Nat \ {0} /\ Cardinality(Waiters(c)) \in Nat
  BY <1>1, FiniteLinks, FS_EmptySet, FS_CardinalityType, Zenon
<1> QED BY <1>2 DEF Inv, LinkCount

LEMMA NoLinks ==
    ASSUME Inv, NEW c \in Conn, links[c] = 0
    PROVE  Waiters(c) = {} /\ Coids(c) = {}
<1>1. Cardinality(Coids(c)) \in Nat /\ Cardinality(Waiters(c)) \in Nat
  BY FiniteLinks, FS_CardinalityType
<1>2. Cardinality(Coids(c)) = 0 /\ Cardinality(Waiters(c)) = 0
  BY <1>1 DEF Inv, LinkCount
<1> QED BY <1>2, FiniteLinks, FS_EmptySet

\* A thread that runs joins connection c as a waiter, and c gains a link.
LEMMA JoinsConnection ==
    ASSUME Inv, NEW t \in Thread, state[t] = "RUN", NEW c \in Conn, cproc[c] # NONE,
           state'[t] \in {"SEND", "REPLY"}, blocked_on'[t] = c,
           \A x \in Thread \ {t} : \/ state'[x] = state[x] /\ blocked_on'[x] = blocked_on[x]
                                   \/ state[x] = "RECEIVE" /\ state'[x] = "RUN",
           links' = [links EXCEPT ![c] = @ + 1], UNCHANGED <<cproc, fd>>
    PROVE  LinkCount'
<1>1. \A d \in Conn : Coids(d)' = Coids(d)
  BY DEF Coids
<1>2. t \notin Waiters(c) /\ Waiters(c)' = Waiters(c) \cup {t}
  BY DEF Waiters
<1>3. \A d \in Conn \ {c} : Waiters(d)' = Waiters(d)
  BY DEF Waiters
<1> QED BY <1>1, <1>2, <1>3, LinkGained, Zenon

\* A receiver taken off the queue of its own channel is off all.
LEMMA OffReceive ==
    ASSUME Inv, NEW r \in Thread, state[r] = "RECEIVE", NEW ch \in Chan, blocked_on[r] = ch
    PROVE  \A k \in Chan : /\ [recvq EXCEPT ![ch] = @ \ {r}][k] = recvq[k] \ {r}
                           /\ r \notin sendq[k] /\ r \notin replyq[k]
<1>1. \A k \in Chan : (k # ch => r \notin recvq[k]) /\ r \notin sendq[k] /\ r \notin replyq[k]
  BY DEF Inv, QueuesMatch
<1>2. recvq \in [Chan -> SUBSET Thread]
  BY DEF Inv, TypeOK, ChanTypes
<1> QED BY <1>1, <1>2

\* A running thread t joins the send or the reply queue of channel ch, through
\* connection c; the receiver w, if any, is woken.
LEMMA QueuesJoin ==
    ASSUME Inv, NEW t \in Thread, state[t] = "RUN", NEW c \in Conn, cchan[c] \in Chan,
           NEW w \in Thread \cup {NONE}, w # NONE => state[w] = "RECEIVE" /\ state'[w] = "RUN",
           blocked_on'[t] = c, state'[t] \in {"SEND", "REPLY"},
           \A k \in Chan, x \in Thread :
              /\ x \in sendq'[k] <=> x \in sendq[k] \/ (x = t /\ k = cchan[c] /\ state'[t] = "SEND")
              /\ x \in replyq'[k] <=> x \in replyq[k] \/ (x = t /\ k = cchan[c] /\ state'[t] = "REPLY")
              /\ x \in recvq'[k] <=> x \in recvq[k] /\ x # w,
           \A x \in Thread \ {t, w} : state'[x] = state[x] /\ blocked_on'[x] = blocked_on[x],
           UNCHANGED <<cchan, chst>>
    PROVE  QueuesMatch'
<1> USE DEF Inv
<1>0. \A x \in Thread : InQueues(x)
  BY QueuesByThread, Zenon
<1>1. \A k \in Chan : t \notin sendq[k] /\ t \notin recvq[k] /\ t \notin replyq[k]
  BY DEF QueuesMatch
<1>3. ASSUME NEW k \in Chan, NEW x \in Thread \ {t}
      PROVE  /\ x \in sendq'[k] <=> x \in sendq[k]
             /\ x \in replyq'[k] <=> x \in replyq[k]
             /\ x \in recvq'[k] <=> x \in recvq[k] /\ x # w
  BY <1>3, Zenon
<1>4. /\ cchan[c] # NONE
      /\ state'[t] = "SEND" => \A k \in Chan : t \notin replyq'[k] /\ (t \in sendq'[k] <=> k = cchan[c])
      /\ state'[t] = "REPLY" => \A k \in Chan : t \notin sendq'[k] /\ (t \in replyq'[k] <=> k = cchan[c])
      /\ \A k \in Chan : t \notin recvq'[k]
  BY <1>1, IpcAssumption, ZenonT(40)
<1>5. InQueues(t)'
  BY <1>4, Zenon DEF InQueues, ChanOf
<1>6. ASSUME w # NONE PROVE InQueues(w)'
  <2>1. \A k \in Chan : w \notin sendq[k] /\ w \notin replyq[k]
    BY <1>6 DEF QueuesMatch
  <2>2. w \in Thread \ {t}
    BY <1>6, Zenon
  <2> QED BY <1>3, <1>6, <2>1, <2>2, NotQueued, ZenonT(40)
<1>7. ASSUME NEW x \in Thread \ {t, w} PROVE InQueues(x)'
  <2>1. \A k \in Chan : /\ x \in sendq'[k] <=> x \in sendq[k]
                        /\ x \in replyq'[k] <=> x \in replyq[k]
                        /\ x \in recvq'[k] <=> x \in recvq[k]
    BY <1>3, <1>7, Zenon
  <2> QED BY <1>0, <1>7, <2>1, StaysPut, ZenonT(40)
<1>8. ChannelsThere'
  BY QueuesByThread, Zenon DEF ChannelsThere
<1>9. \A x \in Thread : InQueues(x)'
  BY <1>5, <1>6, <1>7, IpcAssumption, SMTT(30)
<1> QED BY <1>8, <1>9, QueuesByThread, Zenon

\* What client threads do keeps the invariants.
LEMMA ClientInv ==
    ASSUME Inv, ClientStep
    PROVE  QueuesMatch' /\ LinkCount' /\ ServerHasClient' /\ LongCallSafe'
<1> USE DEF Inv
<1> PICK t \in Thread, f \in Coid :
        \/ MsgSendDirect(t, f) \/ MsgSendRcvFault(t, f) \/ MsgSendQueue(t, f)
        \/ MsgSendPulse(t, f)
        \/ \E ch \in Chan : ConnectAttachShare(t, f, ch) \/ ConnectAttachNew(t, f, ch)
  BY DEF ClientStep
<1> DEFINE slot == <<process[t], f>>
           c == fd[slot]
           ch == cchan[c]
<1>0. slot \in Proc \X Coid
  BY IpcAssumption
<1>a. LongCallSafe'
  <2>1. ker' = Idle
    BY Zenon DEF MsgSendDirect, MsgSendRcvFault, MsgSendQueue, MsgSendPulse, ConnectAttachShare,
           ConnectAttachNew, CanAttach, Connected, Running
  <2> QED BY <2>1, IdleSafe, Zenon
<1>c. ASSUME Connected(t, f)
      PROVE  /\ c \in Conn /\ ch \in Chan /\ state[t] = "RUN"
             /\ cproc[c] # NONE /\ chst[ch] # "FREE"
  <2>1. c \in Conn /\ ch \in Chan /\ state[t] = "RUN"
    BY <1>0, <1>c DEF Connected, Running, TypeOK, ConnTypes
  <2> QED BY <1>0, <2>1, CoidLink, IpcAssumption, ZenonT(40) DEF QueuesMatch
<1>d. ASSUME NEW r \in MsgReceivers(ch), ch \in Chan
      PROVE  r \in Thread /\ state[r] = "RECEIVE" /\ blocked_on[r] = ch
  BY <1>d DEF MsgReceivers, QueuesMatch, TypeOK, ChanTypes
<1>e. \A x \in Thread : InQueues(x)
  BY QueuesByThread
<1>1. CASE MsgSendDirect(t, f)
  <2>1. PICK r \in MsgReceivers(ch) :
            /\ Become(t, "REPLY", tflags[t], r)
            /\ blocked_on' = [blocked_on EXCEPT ![t] = c, ![r] = NONE]
            /\ recvq' = [recvq EXCEPT ![ch] = @ \ {r}]
            /\ server' = [server EXCEPT ![t] = r]
            /\ client' = [client EXCEPT ![r] = t]
    BY <1>1, Zenon DEF MsgSendDirect
  <2>2. /\ c \in Conn /\ ch \in Chan /\ state[t] = "RUN" /\ cproc[c] # NONE
        /\ r \in Thread /\ state[r] = "RECEIVE" /\ blocked_on[r] = ch
    BY <1>1, <1>c, <1>d, Zenon DEF MsgSendDirect
  <2>3. /\ replyq' = [replyq EXCEPT ![ch] = @ \cup {t}]
        /\ links' = [links EXCEPT ![c] = @ + 1]
        /\ UNCHANGED <<chst, sendq, cproc, cchan, fd>>
    BY <1>1, Zenon DEF MsgSendDirect
  <2>4. /\ state'[t] = "REPLY" /\ blocked_on'[t] = c
        /\ state'[r] = "RUN"
        /\ \A x \in Thread \ {t, r} : state'[x] = state[x] /\ blocked_on'[x] = blocked_on[x]
    BY <2>1, <2>2, Zenon DEF Become, TypeOK, ThreadTypes
  <2> HIDE DEF slot, c, ch
  <2>5. \A k \in Chan : recvq'[k] = recvq[k] \ {r}
    BY <2>1, <2>2, OffReceive, SMTT(30)
  <2>9. QueuesMatch'
    <3>1. cchan[c] = ch
      BY Zenon DEF ch
    <3>2. \A k \in Chan, x \in Thread :
            /\ x \in sendq'[k] <=> x \in sendq[k] \/ (x = t /\ k = cchan[c] /\ state'[t] = "SEND")
            /\ x \in replyq'[k] <=> x \in replyq[k] \/ (x = t /\ k = cchan[c] /\ state'[t] = "REPLY")
            /\ x \in recvq'[k] <=> x \in recvq[k] /\ x # r
      BY <2>2, <2>3, <2>4, <2>5, <3>1, SMTT(30) DEF TypeOK, ChanTypes
    <3> QED BY <2>2, <2>3, <2>4, <3>1, <3>2, QueuesJoin, SMTT(30)
  <2>10. LinkCount'
    BY <2>2, <2>3, <2>4, JoinsConnection, ZenonT(40)
  <2>11. ServerHasClient'
    BY <2>1, <2>2, <2>4, IpcAssumption, SMTT(30) DEF ServerHasClient, TypeOK, PartnerTypes
  <2> QED BY <1>a, <2>9, <2>10, <2>11
<1>2. CASE MsgSendRcvFault(t, f)
  <2>1. PICK r \in MsgReceivers(ch) :
            /\ state' = [state EXCEPT ![r] = "RUN"]
            /\ blocked_on' = [blocked_on EXCEPT ![r] = NONE]
            /\ recvq' = [recvq EXCEPT ![ch] = @ \ {r}]
    BY <1>2, Zenon DEF MsgSendRcvFault
  <2>2. UNCHANGED <<server, client, chst, sendq, replyq, cproc, cchan, links, fd>>
    BY <1>2, Zenon DEF MsgSendRcvFault
  <2>3. /\ ch \in Chan
        /\ r \in Thread /\ state[r] = "RECEIVE" /\ blocked_on[r] = ch
    BY <1>2, <1>c, <1>d, Zenon DEF MsgSendRcvFault
  <2>4. /\ state'[r] = "RUN"
        /\ \A x \in Thread \ {r} : state'[x] = state[x] /\ blocked_on'[x] = blocked_on[x]
    BY <2>1, <2>3, ZenonT(40) DEF TypeOK, ThreadTypes
  <2>5. \A k \in Chan : /\ recvq'[k] = recvq[k] \ {r}
                        /\ sendq'[k] = sendq[k] \ {r}
                        /\ replyq'[k] = replyq[k] \ {r}
    BY <2>1, <2>2, <2>3, OffReceive, SMTT(30)
  <2>6. QueuesMatch'
    BY <2>2, <2>3, <2>4, <2>5, QueuesLeave, {r} \in SUBSET Thread, ZenonT(40)
  <2>7. \A d \in Conn : Waiters(d)' = Waiters(d)
    BY <2>3, <2>4, Zenon DEF Waiters
  <2>8. LinkCount'
    BY <2>2, <2>7, LinksSame, Zenon
  <2>9. ServerHasClient'
    BY <2>2, <2>4, Zenon DEF ServerHasClient
  <2> QED BY <1>a, <2>6, <2>8, <2>9, Zenon
<1>3. CASE MsgSendQueue(t, f)
  <2>2. c \in Conn /\ ch \in Chan /\ state[t] = "RUN" /\ cproc[c] # NONE
    BY <1>3, <1>c, Zenon DEF MsgSendQueue
  <2>3. /\ state' = [state EXCEPT ![t] = "SEND"]
        /\ blocked_on' = [blocked_on EXCEPT ![t] = c]
        /\ sendq' = [sendq EXCEPT ![ch] = @ \cup {t}]
        /\ links' = [links EXCEPT ![c] = @ + 1]
        /\ UNCHANGED <<server, client, chst, recvq, replyq, cproc, cchan, fd>>
    BY <1>3, Zenon DEF MsgSendQueue
  <2>4. /\ state'[t] = "SEND" /\ blocked_on'[t] = c
        /\ \A x \in Thread \ {t} : state'[x] = state[x] /\ blocked_on'[x] = blocked_on[x]
    BY <2>3, Zenon DEF TypeOK, ThreadTypes
  <2> HIDE DEF slot, c, ch
  <2>9. QueuesMatch'
    <3>1. cchan[c] = ch
      BY DEF ch
    <3>2. PICK w \in Thread \cup {NONE} : w = NONE
      OBVIOUS
    <3>3. \A k \in Chan, x \in Thread :
            /\ x \in sendq'[k] <=> x \in sendq[k] \/ (x = t /\ k = cchan[c] /\ state'[t] = "SEND")
            /\ x \in replyq'[k] <=> x \in replyq[k] \/ (x = t /\ k = cchan[c] /\ state'[t] = "REPLY")
            /\ x \in recvq'[k] <=> x \in recvq[k] /\ x # w
      BY <2>2, <2>3, <2>4, <3>1, <3>2, IpcAssumption, Zenon DEF TypeOK, ChanTypes
    <3>4. \A x \in Thread \ {t, w} : state'[x] = state[x] /\ blocked_on'[x] = blocked_on[x]
      BY <2>4, Zenon
    <3> QED BY <2>2, <2>3, <2>4, <3>1, <3>2, <3>3, <3>4, QueuesJoin, SMTT(30)
  <2>10. LinkCount'
    BY <2>2, <2>3, <2>4, JoinsConnection, ZenonT(40)
  <2>11. ServerHasClient'
    BY <2>3, <2>4 DEF ServerHasClient
  <2> QED BY <1>a, <2>9, <2>10, <2>11, ZenonT(40)
<1>4. CASE MsgSendPulse(t, f)
  <2>1. PICK o \in pulse_deliver(ch) :
            /\ Become(NONE, "RUN", {}, o.wake)
            /\ Unblocked({o.wake})
            /\ recvq' = RecvqAfter(ch, o)
    BY <1>4, Zenon DEF MsgSendPulse
  <2>2. ch \in Chan
    BY <1>4, <1>c, Zenon DEF MsgSendPulse
  <2>3. \A x \in Thread : state'[x] = IF x = o.wake THEN "RUN" ELSE state[x]
    BY <2>1, IpcAssumption, Zenon DEF Become
  <2>4. UNCHANGED <<chst, sendq, replyq, server, client, cproc, cchan, links, fd>>
    BY <1>4, Zenon DEF MsgSendPulse, connVars
  <2> QED BY <1>a, <2>1, <2>2, <2>3, <2>4, PulseEffect, Zenon
<1>5. ASSUME NEW k \in Chan, ConnectAttachShare(t, f, k)
      PROVE  QueuesMatch' /\ LinkCount' /\ ServerHasClient'
  <2>1. PICK d \in Conn :
            /\ cproc[d] = process[t]
            /\ links' = [links EXCEPT ![d] = @ + 1]
            /\ fd' = [fd EXCEPT ![slot] = d]
    BY <1>5, Zenon DEF ConnectAttachShare
  <2>2. UNCHANGED <<state, blocked_on, server, client, chst, sendq, recvq, replyq, cproc, cchan>>
    BY <1>5, Zenon DEF ConnectAttachShare, threadVars, chanVars
  <2>3. fd[slot] = NONE /\ cproc[d] # NONE
    <3>1. process[t] \in Proc
      BY IpcAssumption, Zenon
    <3> QED BY <1>5, <2>1, <3>1, IpcAssumption, Zenon DEF ConnectAttachShare, CanAttach
  <2>4. \A e \in Conn : Waiters(e)' = Waiters(e)
    BY <2>2, Zenon DEF Waiters
  <2>5. slot \notin Coids(d) /\ Coids(d)' = Coids(d) \cup {slot}
    BY <1>0, <2>1, <2>3, IpcAssumption, ZenonT(40) DEF Coids, TypeOK, ConnTypes
  <2>6. \A e \in Conn \ {d} : Coids(e)' = Coids(e)
    BY <1>0, <2>1, <2>3, IpcAssumption, ZenonT(40) DEF Coids, TypeOK, ConnTypes
  <2>7. LinkCount'
    BY <2>1, <2>2, <2>3, <2>4, <2>5, <2>6, LinkGained, Zenon
  <2>8. QueuesMatch' /\ ServerHasClient'
    BY <2>2, ZenonT(40) DEF QueuesMatch, ChanOf, ServerHasClient
  <2> QED BY <2>7, <2>8, ZenonT(40)
<1>6. ASSUME NEW k \in Chan, ConnectAttachNew(t, f, k)
      PROVE  QueuesMatch' /\ LinkCount' /\ ServerHasClient'
  <2>1. PICK d \in Conn :
            /\ links[d] = 0 /\ cchan[d] = NONE
            /\ links' = [links EXCEPT ![d] = 1]
            /\ cproc' = [cproc EXCEPT ![d] = process[t]]
            /\ cchan' = [cchan EXCEPT ![d] = k]
            /\ fd' = [fd EXCEPT ![slot] = d]
    BY <1>6, Zenon DEF ConnectAttachNew
  <2>2. UNCHANGED <<state, blocked_on, server, client, chst, sendq, recvq, replyq>>
    BY <1>6 DEF ConnectAttachNew, threadVars, chanVars
  <2>3. fd[slot] = NONE /\ process[t] # NONE /\ chst[k] = "LIVE"
    BY <1>6, IpcAssumption, Zenon DEF ConnectAttachNew, CanAttach
  <2>4. \A e \in Conn : Waiters(e)' = Waiters(e)
    BY <2>2, Zenon DEF Waiters
  <2>5. slot \notin Coids(d) /\ Coids(d)' = Coids(d) \cup {slot}
    BY <1>0, <2>1, <2>3, IpcAssumption, ZenonT(40) DEF Coids, TypeOK, ConnTypes
  <2>6. \A e \in Conn \ {d} : Coids(e)' = Coids(e)
    BY <1>0, <2>1, <2>3, IpcAssumption, SMTT(30) DEF Coids, TypeOK, ConnTypes
  <2>7. /\ links' = [links EXCEPT ![d] = @ + 1]
        /\ cproc'[d] # NONE /\ \A e \in Conn \ {d} : cproc'[e] = cproc[e]
        /\ cchan'[d] = k /\ \A e \in Conn \ {d} : cchan'[e] = cchan[e]
    BY <2>1, <2>3, SMTT(30) DEF TypeOK, ConnTypes
  <2>8. LinkCount'
    BY <2>4, <2>5, <2>6, <2>7, LinkGained, ZenonT(40)
  <2>9. Waiters(d) = {}
    BY <2>1, NoLinks, Zenon
  <2>10. ASSUME NEW x \in Thread PROVE InQueues(x)'
    <3>1. state[x] \in {"SEND", "REPLY"} => blocked_on[x] \in Conn \ {d}
      BY <1>e, <2>9, ZenonT(40) DEF InQueues, Waiters
    <3>2. state[x] \in {"SEND", "REPLY"} => cchan'[blocked_on[x]] = cchan[blocked_on[x]]
      BY <2>7, <3>1, ZenonT(40)
    <3> QED BY <1>e, <2>2, <3>2, StaysPut, Zenon
  <2>11. ChannelsThere'
    BY <2>2, <2>3, <2>7, QueuesByThread, ZenonT(40) DEF ChannelsThere
  <2>12. QueuesMatch'
    BY <2>10, <2>11, QueuesByThread, ZenonT(40)
  <2>13. ServerHasClient'
    BY <2>2, Zenon DEF ServerHasClient
  <2> QED BY <2>8, <2>12, <2>13, Zenon
<1> QED BY <1>1, <1>2, <1>3, <1>4, <1>5, <1>6, <1>a, Zenon

\* What receiving threads do keeps the invariants.
LEMMA ReceiveInv ==
    ASSUME Inv, NEW s \in Thread, NEW ch \in Chan,
           \/ MsgReceivePulse(s, ch) \/ MsgReceive(s, ch) \/ MsgReceiveDropSender(s, ch)
           \/ MsgReceiveFail(s, ch) \/ MsgReceiveBlock(s, ch, FALSE)
           \/ MsgReceiveBlock(s, ch, TRUE)
           \/ ChannelCreate(s, ch)
    PROVE  QueuesMatch' /\ LinkCount' /\ ServerHasClient' /\ LongCallSafe'
<1> USE DEF Inv
<1>a. state[s] = "RUN" /\ LongCallSafe'
  <2>1. ker' = Idle /\ state[s] = "RUN"
    BY Zenon DEF MsgReceivePulse, MsgReceive, MsgReceiveDropSender, MsgReceiveFail, MsgReceiveBlock,
           ChannelCreate, CanReceive, Running
  <2> QED BY <2>1, IdleSafe, Zenon
<1>1. CASE MsgReceivePulse(s, ch)
  <2>1. /\ UNCHANGED <<state, blocked_on, chst, sendq, recvq, replyq, cproc, cchan, links, fd>>
        /\ server' = ServerWithout(s) /\ client' = [client EXCEPT ![s] = NONE]
    BY <1>1 DEF MsgReceivePulse, connVars
  <2> QED BY <1>a, <2>1, NothingMoves, DropEffect, Zenon
<1>2. CASE MsgReceive(s, ch)
  <2>1. PICK t \in sendq[ch] :
            /\ server' = [ServerWithout(s) EXCEPT ![t] = s]
            /\ client' = [client EXCEPT ![s] = t]
            /\ sendq' = [sendq EXCEPT ![ch] = @ \ {t}]
            /\ replyq' = [replyq EXCEPT ![ch] = @ \cup {t}]
            /\ state' = [state EXCEPT ![t] = "REPLY"]
    BY <1>2, Zenon DEF MsgReceive
  <2>2. UNCHANGED <<blocked_on, chst, recvq, cproc, cchan, links, fd>>
    BY <1>2, Zenon DEF MsgReceive, connVars
  <2>3. t \in Thread /\ state[t] = "SEND" /\ ChanOf(t) = ch /\ blocked_on[t] \in Conn
    BY Zenon DEF TypeOK, ChanTypes, QueuesMatch
  <2>4. state'[t] = "REPLY" /\ \A x \in Thread \ {t} : state'[x] = state[x]
    BY <2>1, <2>3, ZenonT(40) DEF TypeOK, ThreadTypes
  <2>5. ASSUME NEW k \in Chan, NEW x \in Thread
        PROVE  /\ x \in sendq'[k] <=> x \in sendq[k] /\ ~(x = t /\ k = ch)
               /\ x \in replyq'[k] <=> x \in replyq[k] \/ (x = t /\ k = ch)
    BY <2>1, Zenon DEF TypeOK, ChanTypes
  <2>6. \A x \in Thread : InQueues(x)
    BY QueuesByThread, Zenon
  <2>a. ChanOf(t)' = ch /\ blocked_on'[t] \in Conn /\ ch # NONE
    BY <2>2, <2>3, IpcAssumption, Zenon DEF ChanOf
  <2>b. ASSUME NEW k \in Chan
        PROVE  t \notin sendq'[k] /\ t \notin recvq'[k] /\ (t \in replyq'[k] <=> k = ch)
    BY <2>2, <2>3, <2>5, <2>6, ZenonT(40) DEF InQueues
  <2>7. InQueues(t)'
    BY <2>4, <2>a, <2>b, ZenonT(40) DEF InQueues
  <2>8. ASSUME NEW x \in Thread \ {t} PROVE InQueues(x)'
    BY <2>2, <2>4, <2>5, <2>6, <2>8, StaysPut, Zenon
  <2>9. QueuesMatch'
    BY <2>2, <2>7, <2>8, QueuesByThread, Zenon DEF ChannelsThere
  <2>10. \A c \in Conn : Waiters(c)' = Waiters(c)
    BY <2>2, <2>3, <2>4, Zenon DEF Waiters
  <2>11. LinkCount'
    BY <2>2, <2>10, LinksSame, Zenon
  <2>12. \A x \in Thread : server'[x] # NONE => client'[server'[x]] = x
    BY <2>1, <2>3, IpcAssumption, Zenon DEF ServerHasClient, ServerWithout, TypeOK, PartnerTypes
  <2>13. \A x \in Thread : state'[x] = "RECEIVE" => client'[x] = NONE
    BY <1>a, <2>1, <2>3, <2>4, ZenonT(40) DEF ServerHasClient, TypeOK, PartnerTypes
  <2> QED BY <1>a, <2>9, <2>11, <2>12, <2>13, Zenon DEF ServerHasClient
<1>3. CASE MsgReceiveDropSender(s, ch)
  <2>1. PICK t \in Thread : force_ready(t)
    BY <1>3, ZenonT(40) DEF MsgReceiveDropSender, TypeOK, ChanTypes
  <2> QED BY <1>a, <2>1, ForceReadyEffect, Zenon
<1>4. CASE MsgReceiveFail(s, ch)
  <2>1. /\ UNCHANGED <<state, blocked_on, chst, sendq, recvq, replyq, cproc, cchan, links, fd>>
        /\ server' = ServerWithout(s) /\ client' = [client EXCEPT ![s] = NONE]
    BY <1>4, Zenon DEF MsgReceiveFail, chanVars, connVars
  <2> QED BY <1>a, <2>1, NothingMoves, DropEffect, Zenon
<1>5. ASSUME NEW b \in BOOLEAN, MsgReceiveBlock(s, ch, b)
      PROVE  QueuesMatch' /\ LinkCount' /\ ServerHasClient'
  <2>1. /\ server' = ServerWithout(s)
        /\ client' = [client EXCEPT ![s] = NONE]
        /\ state' = [state EXCEPT ![s] = "RECEIVE"]
        /\ blocked_on' = [blocked_on EXCEPT ![s] = ch]
        /\ recvq' = [recvq EXCEPT ![ch] = @ \cup {s}]
        /\ UNCHANGED <<chst, sendq, replyq, cproc, cchan, links, fd>>
    BY <1>5, Zenon DEF MsgReceiveBlock, connVars
  <2>2. /\ state'[s] = "RECEIVE" /\ blocked_on'[s] = ch
        /\ \A x \in Thread \ {s} : state'[x] = state[x] /\ blocked_on'[x] = blocked_on[x]
    BY <2>1, Zenon DEF TypeOK, ThreadTypes
  <2>3. \A k \in Chan, x \in Thread : x \in recvq'[k] <=> x \in recvq[k] \/ (x = s /\ k = ch)
    BY <2>1, Zenon DEF TypeOK, ChanTypes
  <2>4. \A x \in Thread : InQueues(x)
    BY QueuesByThread, ZenonT(40)
  <2>5. \A k \in Chan : s \notin sendq[k] /\ s \notin replyq[k] /\ s \notin recvq[k]
    BY <1>a, <2>4, Zenon DEF InQueues
  <2>6. InQueues(s)'
    BY <2>1, <2>2, <2>3, <2>5, Zenon DEF InQueues, ChanOf
  <2>7. ASSUME NEW x \in Thread \ {s} PROVE InQueues(x)'
    BY <2>1, <2>2, <2>3, <2>4, <2>7, StaysPut, Zenon
  <2>8. QueuesMatch'
    BY <2>1, <2>6, <2>7, QueuesByThread, Zenon DEF ChannelsThere
  <2>9. \A c \in Conn : Waiters(c)' = Waiters(c)
    BY <1>a, <2>2, Zenon DEF Waiters
  <2>10. LinkCount'
    BY <2>1, <2>9, LinksSame, ZenonT(40)
  <2>11. ServerHasClient'
    BY <2>1, <2>2, DropEffect, ZenonT(40)
  <2> QED BY <2>8, <2>10, <2>11, Zenon
<1>6. CASE ChannelCreate(s, ch)
  <2>1. /\ UNCHANGED <<state, blocked_on, server, client, sendq, recvq, replyq>>
        /\ UNCHANGED <<cproc, cchan, links, fd>>
        /\ chst' = [chst EXCEPT ![ch] = "LIVE"]
    BY <1>6, ZenonT(40) DEF ChannelCreate, threadVars, connVars
  <2>2. QueuesMatch'
    BY <2>1, SMTT(30) DEF QueuesMatch, ChanOf, TypeOK, ChanTypes, ConnTypes
  <2>3. \A c \in Conn : Waiters(c)' = Waiters(c)
    BY <2>1, Zenon DEF Waiters
  <2>4. LinkCount'
    BY <2>1, <2>3, LinksSame, Zenon
  <2> QED BY <1>a, <2>1, <2>2, <2>4, Zenon DEF ServerHasClient
<1> QED BY <1>1, <1>2, <1>3, <1>4, <1>5, <1>6, <1>a, Zenon

\* What replying threads do keeps the invariants.
LEMMA ReplyInv ==
    ASSUME Inv, NEW s \in Thread, NEW t \in Thread, NEW c \in Conn,
           \/ MsgReply(s, t, c) \/ MsgReplyFault(s, t, c) \/ MsgReplyPreempted(s, t, c)
           \/ MsgReplyStale(s, t, c) \/ MsgError(s, t, c) \/ MsgCurrent(s, t, c)
    PROVE  QueuesMatch' /\ LinkCount' /\ ServerHasClient' /\ LongCallSafe'
<1> USE DEF Inv
<1>a. state[s] = "RUN" /\ LongCallSafe'
  <2>1. ker' = Idle /\ state[s] = "RUN"
    BY Zenon DEF MsgReply, MsgReplyFault, MsgReplyPreempted, MsgReplyStale, MsgError, MsgCurrent,
           lookup_rcvid, Holds, Running, Replied
  <2> QED BY <2>1, IdleSafe, Zenon
<1>1. CASE MsgReply(s, t, c) \/ MsgError(s, t, c)
  <2>1. /\ lookup_rcvid(s, t, c)
        /\ Replied(t, c, tflags[t] \ {"UNBLOCK_QUEUED", "UNBLOCK_REQ"})
        /\ client' = ClientWithout(t) /\ server' = [server EXCEPT ![t] = NONE]
    BY <1>1, Zenon DEF MsgReply, MsgError
  <2>2. /\ QueuesMatch' /\ LinkCount'
        /\ \A x \in Thread : state'[x] = "RECEIVE" => state[x] = "RECEIVE"
    BY <2>1, RepliedEffect, Zenon
  <2> QED BY <1>a, <2>1, <2>2, PartEffect, Zenon
<1>2. CASE MsgReplyFault(s, t, c)
  <2>1. /\ lookup_rcvid(s, t, c)
        /\ Replied(t, c, tflags[t] \ {"UNBLOCK_QUEUED"})
        /\ UNCHANGED <<client, server>>
    BY <1>2, Zenon DEF MsgReplyFault
  <2>2. /\ QueuesMatch' /\ LinkCount'
        /\ \A x \in Thread : state'[x] = "RECEIVE" => state[x] = "RECEIVE"
    BY <2>1, RepliedEffect, Zenon
  <2> QED BY <1>a, <2>1, <2>2, Zenon DEF ServerHasClient
<1>3. CASE MsgReplyPreempted(s, t, c) \/ MsgReplyStale(s, t, c)
  <2>1. /\ UNCHANGED <<state, blocked_on, chst, sendq, recvq, replyq, cproc, cchan, links, fd>>
        /\ UNCHANGED <<server, client>>
    BY <1>3, Zenon DEF MsgReplyPreempted, MsgReplyStale, threadVars, chanVars, connVars
  <2> QED BY <1>a, <2>1, NothingMoves, ZenonT(40) DEF ServerHasClient
<1>4. CASE MsgCurrent(s, t, c)
  <2>1. /\ UNCHANGED <<state, blocked_on, chst, sendq, recvq, replyq, cproc, cchan, links, fd>>
        /\ server' = [ServerWithout(s) EXCEPT ![t] = s]
        /\ client' = [x \in Thread |-> IF x = s THEN t
                                       ELSE IF x = ServerWithout(s)[t] THEN NONE
                                       ELSE [client EXCEPT ![s] = NONE][x]]
    BY <1>4, Zenon DEF MsgCurrent, chanVars, connVars
  <2>2. /\ server \in [Thread -> Thread \cup {NONE}] /\ client \in [Thread -> Thread \cup {NONE}]
        /\ NONE \notin Thread
    BY IpcAssumption, Zenon DEF TypeOK, PartnerTypes
  <2>3. \A x \in Thread : server'[x] # NONE => client'[server'[x]] = x
    BY <2>1, <2>2, Zenon DEF ServerHasClient, ServerWithout
  <2>4. \A x \in Thread : x # s => client'[x] = NONE \/ client'[x] = client[x]
    BY <2>1, <2>2, Zenon
  <2>5. ServerHasClient'
    BY <1>a, <2>1, <2>3, <2>4, Zenon DEF ServerHasClient
  <2> QED BY <1>a, <2>1, <2>5, NothingMoves, Zenon
<1> QED BY <1>1, <1>2, <1>3, <1>4, Zenon

-----------------------------------------------------------------------------

\* A connection nobody waits on loses its channel.
LEMMA QueuesDetach ==
    ASSUME Inv, NEW c \in Conn, Waiters(c) = {}, cchan' = [cchan EXCEPT ![c] = NONE],
           UNCHANGED <<state, blocked_on, chst, sendq, recvq, replyq>>
    PROVE  QueuesMatch'
<1> USE DEF Inv
<1>0. \A x \in Thread : InQueues(x)
  BY QueuesByThread
<1>1. cchan'[c] = NONE /\ \A d \in Conn \ {c} : cchan'[d] = cchan[d]
  BY Zenon DEF TypeOK, ConnTypes
<1>2. ASSUME NEW x \in Thread PROVE InQueues(x)'
  <2>1. state[x] \in {"SEND", "REPLY"} => blocked_on[x] \in Conn \ {c}
    BY <1>0, Zenon DEF InQueues, Waiters
  <2>2. state[x] \in {"SEND", "REPLY"} => cchan'[blocked_on[x]] = cchan[blocked_on[x]]
    BY <1>1, <2>1, Zenon
  <2> QED BY <1>0, <2>2, StaysPut, Zenon
<1>3. ChannelsThere'
  BY <1>1, QueuesByThread DEF ChannelsThere
<1> QED BY <1>2, <1>3, QueuesByThread

\* Interrupts, deaths and the start of long calls keep the invariants.
LEMMA LifeInv ==
    ASSUME Inv, LifeStep
    PROVE  QueuesMatch' /\ LinkCount' /\ ServerHasClient' /\ LongCallSafe'
<1> USE DEF Inv
<1>1. ASSUME NEW t \in Thread, Interrupt(t)
      PROVE  QueuesMatch' /\ LinkCount' /\ ServerHasClient' /\ LongCallSafe'
  BY <1>1, ForceReadyEffect, IdleSafe DEF Interrupt
<1>2. ASSUME NEW t \in Thread, ThreadDestroy(t)
      PROVE  QueuesMatch' /\ LinkCount' /\ ServerHasClient' /\ LongCallSafe'
  <2>1. /\ ker' = Idle /\ state[t] = "RUN"
        /\ state' = [state EXCEPT ![t] = "DEAD"]
        /\ server' = ServerWithout(t) /\ client' = [client EXCEPT ![t] = NONE]
        /\ UNCHANGED <<blocked_on, chst, sendq, recvq, replyq, cproc, cchan, links, fd>>
    BY <1>2 DEF ThreadDestroy, MayDestroy, chanVars, connVars
  <2>2. state'[t] = "DEAD" /\ \A x \in Thread \ {t} : state'[x] = state[x]
    BY <2>1 DEF TypeOK, ThreadTypes
  <2>3. \A x \in Thread : InQueues(x)
    BY QueuesByThread, Zenon
  <2>4. \A k \in Chan : t \notin sendq[k] /\ t \notin replyq[k] /\ t \notin recvq[k]
    BY <2>1, <2>3 DEF InQueues
  <2>5. InQueues(t)'
    BY <2>1, <2>2, <2>4, NotQueued, Zenon
  <2>6. ASSUME NEW x \in Thread \ {t} PROVE InQueues(x)'
    BY <2>1, <2>2, <2>3, <2>6, StaysPut, ZenonT(40)
  <2>7. QueuesMatch'
    BY <2>1, <2>5, <2>6, QueuesByThread, ZenonT(40) DEF ChannelsThere
  <2>8. \A c \in Conn : Waiters(c)' = Waiters(c)
    BY <2>1, <2>2 DEF Waiters
  <2>9. LinkCount'
    BY <2>1, <2>8, LinksSame, Zenon
  <2>10. ServerHasClient'
    BY <2>1, <2>2, DropEffect, Zenon
  <2> QED BY <2>1, <2>7, <2>9, <2>10, IdleSafe, Zenon
<1>3. ASSUME NEW t \in Thread, ThreadDestroyBlocked(t)
      PROVE  QueuesMatch' /\ LinkCount' /\ ServerHasClient' /\ LongCallSafe'
  BY <1>3, DeferEffect, ReleaseEffect, IdleSafe, Zenon DEF ThreadDestroyBlocked, MayDestroy
<1>4. ASSUME NEW p \in Proc, Exit(p)
      PROVE  QueuesMatch' /\ LinkCount' /\ ServerHasClient' /\ LongCallSafe'
  <2>1. /\ UNCHANGED <<state, blocked_on, chst, sendq, recvq, replyq, cproc, cchan, links, fd>>
        /\ UNCHANGED <<server, client>> /\ ker' = Idle
    BY <1>4, ZenonT(40) DEF Exit, Running, chanVars, connVars
  <2> QED BY <2>1, NothingMoves, IdleSafe, Zenon DEF ServerHasClient
<1>5. ASSUME NEW p \in Proc, NEW f \in Coid, ConnectDetach(p, f)
      PROVE  QueuesMatch' /\ LinkCount' /\ ServerHasClient' /\ LongCallSafe'
  <2>1. /\ UNCHANGED <<state, blocked_on, chst, sendq, recvq, replyq, cproc, cchan, links, fd>>
        /\ UNCHANGED <<server, client>>
        /\ fd[<<p, f>>] # NONE
        /\ ker' = [op |-> "detach", slot |-> <<p, f>>, chan |-> NONE,
                   todo |-> {t \in Thread : /\ process[t] = p /\ coid[t] = f
                                            /\ state[t] \in {"SEND", "REPLY"}},
                   ran |-> TRUE]
    BY <1>5, ZenonT(40) DEF ConnectDetach, threadVars, chanVars, connVars
  <2>2. /\ ker'.op = "detach" /\ ker'.slot = <<p, f>>
        /\ \A t \in ker'.todo : state'[t] \in {"SEND", "REPLY"}
    BY <2>1, ZenonT(40)
  <2>3. LongCallSafe'
    BY <2>1, <2>2, ZenonT(40) DEF LongCallSafe
  <2> QED BY <2>1, <2>3, NothingMoves, ZenonT(40) DEF ServerHasClient
<1>6. ASSUME NEW p \in Proc, NEW c \in Conn, ServerDetach(p, c)
      PROVE  QueuesMatch' /\ LinkCount' /\ ServerHasClient' /\ LongCallSafe'
  <2>1. /\ UNCHANGED <<state, blocked_on, server, client, chst, sendq, recvq, replyq, cproc, links, fd>>
        /\ cchan' = [cchan EXCEPT ![c] = NONE] /\ ker' = Idle /\ links[c] = 0
    BY <1>6 DEF ServerDetach, Active, threadVars, chanVars
  <2>2. QueuesMatch'
    BY <2>1, NoLinks, QueuesDetach, Zenon
  <2>3. \A d \in Conn : Waiters(d)' = Waiters(d)
    BY <2>1, Zenon DEF Waiters
  <2> QED BY <2>1, <2>2, <2>3, LinksSame, IdleSafe, ZenonT(40) DEF ServerHasClient
<1>7. ASSUME NEW p \in Proc, NEW ch \in Chan, ChannelDestroy(p, ch)
      PROVE  QueuesMatch' /\ LinkCount' /\ ServerHasClient' /\ LongCallSafe'
  <2>1. /\ UNCHANGED <<state, blocked_on, server, client, sendq, recvq, replyq>>
        /\ UNCHANGED <<cproc, cchan, links, fd>>
        /\ chst' = [chst EXCEPT ![ch] = "DYING"]
        /\ ker' = [op |-> "send", slot |-> NONE, chan |-> ch, todo |-> {}, ran |-> FALSE]
    BY <1>7, Zenon DEF ChannelDestroy, threadVars, connVars
  <2>2. QueuesMatch'
    BY <2>1, SMTT(30) DEF QueuesMatch, ChanOf, TypeOK, ChanTypes, ConnTypes
  <2>3. \A c \in Conn : Waiters(c)' = Waiters(c)
    BY <2>1, Zenon DEF Waiters
  <2>4. LinkCount'
    BY <2>1, <2>3, LinksSame, Zenon
  <2>5. ker'.op = "send" /\ ker'.chan = ch /\ chst'[ch] = "DYING"
    BY <2>1, Zenon DEF TypeOK, ChanTypes
  <2>6. LongCallSafe'
    BY <2>5, Zenon DEF LongCallSafe
  <2> QED BY <2>1, <2>2, <2>4, <2>6, Zenon DEF ServerHasClient
<1> QED BY <1>1, <1>2, <1>3, <1>4, <1>5, <1>6, <1>7, ZenonT(40) DEF LifeStep

\* The end of ConnectDetach: the coid goes, its connection loses a link.
LEMMA DetachFinishInv ==
    ASSUME Inv, DetachFinish
    PROVE  QueuesMatch' /\ LinkCount' /\ ServerHasClient' /\ LongCallSafe'
<1> USE DEF Inv
<1>0. ker.slot \in Proc \X Coid /\ fd[ker.slot] \in Conn
  BY DetachLink DEF DetachFinish
<1>a. PICK slot \in Proc \X Coid : slot = ker.slot
  BY <1>0
<1>b. PICK c \in Conn : c = fd[slot]
  BY <1>0, <1>a, Zenon
<1>2. PICK o \in DetachPulse(c) :
            /\ Become(NONE, "RUN", {}, o.wake)
            /\ Unblocked({o.wake})
            /\ connect_detach(c, o, pulses)
  BY <1>a, <1>b, Zenon DEF DetachFinish
<1>3. /\ fd' = [fd EXCEPT ![slot] = NONE]
      /\ ker' = Idle
      /\ UNCHANGED <<server, client, chst, sendq, replyq>>
  BY <1>a, Zenon DEF DetachFinish
<1> DEFINE w == o.wake
           L == {w} \ {NONE}
<1>4. w = NONE \/ (WantsDisconnect(c) /\ cchan[c] \in Chan /\ w \in recvq[cchan[c]])
  BY DetachDelivery, Zenon
<1>5. w # NONE => w \in Thread /\ state[w] = "RECEIVE" /\ blocked_on[w] = cchan[c]
  BY <1>4 DEF TypeOK, ChanTypes, QueuesMatch
<1>6. L \in SUBSET Thread
  BY <1>5, Zenon
<1>7. /\ \A x \in L : state'[x] \in {"RUN", "DEAD"}
      /\ \A x \in Thread \ L : state'[x] = state[x] /\ blocked_on'[x] = blocked_on[x]
  BY <1>2, <1>5, IpcAssumption, ZenonT(40) DEF Become, Unblocked
<1>8. ASSUME NEW k \in Chan
      PROVE  sendq'[k] = sendq[k] \ L /\ replyq'[k] = replyq[k] \ L /\ recvq'[k] = recvq[k] \ L
  <2>1. recvq \in [Chan -> SUBSET Thread] /\ NONE \notin recvq[k]
    BY IpcAssumption, ZenonT(40) DEF TypeOK, ChanTypes
  <2>2. CASE w = NONE
    <3>1. recvq' = recvq \/ recvq' = [recvq EXCEPT ![cchan[c]] = recvq[cchan[c]] \ {w}]
      BY <1>2 DEF connect_detach, RecvqAfter
    <3>2. recvq[k] \ {w} = recvq[k]
      BY <2>1, <2>2, Zenon
    <3>3. recvq'[k] = recvq[k]
      BY <2>1, <3>1, <3>2, Zenon
    <3> QED BY <1>3, <2>2, <3>3, ZenonT(40)
  <2>3. CASE w # NONE
    <3>1. recvq' = [recvq EXCEPT ![cchan[c]] = @ \ {w}]
      BY <1>2, <1>4, <2>3, Zenon DEF connect_detach, RecvqAfter
    <3>2. recvq'[k] = recvq[k] \ {w} /\ w \notin sendq[k] /\ w \notin replyq[k]
      BY <1>4, <1>5, <2>3, <3>1, OffReceive, SMTT(30)
    <3> QED BY <1>3, <2>3, <3>2, Zenon
  <2> QED BY <2>2, <2>3, ZenonT(40)
<1>9. \A d \in Conn : Waiters(d)' = Waiters(d)
  BY <1>5, <1>7, SMTT(30) DEF Waiters
<1>10. slot \in Coids(c) /\ Coids(c)' = Coids(c) \ {slot}
  BY <1>b, <1>3, IpcAssumption, Zenon DEF Coids, TypeOK, ConnTypes
<1>11. \A d \in Conn \ {c} : Coids(d)' = Coids(d)
  BY <1>b, <1>3, IpcAssumption, ZenonT(40) DEF Coids, TypeOK, ConnTypes
<1> HIDE DEF L, w
<1>12. /\ LinkCount'
       /\ \A d \in Conn : cchan'[d] = cchan[d] \/ (cchan'[d] = NONE /\ Waiters(d)' = {})
  BY <1>2, <1>9, <1>10, <1>11, LinkDropped, ZenonT(40)
<1>13. QueuesMatch'
  BY <1>3, <1>6, <1>7, <1>8, <1>12, QueuesLeave, ZenonT(40)
<1>14. \A x \in Thread : state'[x] = "RECEIVE" => state[x] = "RECEIVE"
  BY <1>7, ZenonT(40)
<1>15. ServerHasClient'
  BY <1>3, <1>14, ZenonT(40) DEF ServerHasClient
<1> QED BY <1>3, <1>12, <1>13, <1>15, IdleSafe, Zenon

\* The steps of the long calls keep the invariants.
LEMMA LongCallInv ==
    ASSUME Inv, LongCallStep
    PROVE  QueuesMatch' /\ LinkCount' /\ ServerHasClient' /\ LongCallSafe'
<1> USE DEF Inv
<1>0. ker \in [op : {"idle", "detach", "send", "reply", "conns"},
               slot : (Proc \X Coid) \cup {NONE}, chan : Chan \cup {NONE},
               todo : SUBSET Thread, ran : BOOLEAN]
  BY DEF TypeOK, KernelTypes
<1>1. ASSUME NEW t \in Thread, DetachThread(t)
      PROVE  QueuesMatch' /\ LinkCount' /\ ServerHasClient' /\ LongCallSafe'
  <2>1. force_ready(t) /\ ker' = [ker EXCEPT !.todo = @ \ {t}]
    BY <1>1 DEF DetachThread
  <2>2. /\ ker'.op = ker.op /\ ker'.slot = ker.slot /\ ker'.chan = ker.chan
        /\ ker'.todo \subseteq ker.todo /\ t \notin ker'.todo
    BY <1>0, <2>1
  <2>3. QueuesMatch' /\ LinkCount' /\ ServerHasClient' /\ Shrinks(t)
    BY <2>1, ForceReadyEffect, Zenon
  <2>4. LongCallSafe'
    BY <2>2, <2>3, CallGoesOn, ZenonT(40)
  <2> QED BY <2>3, <2>4
<1>2. ASSUME NEW t, ker.op \in {"send", "reply"}, Shrinks(t), ker' = [ker EXCEPT !.ran = TRUE]
      PROVE  LongCallSafe'
  <2>1. /\ ker'.op = ker.op /\ ker'.slot = ker.slot /\ ker'.chan = ker.chan
        /\ ker'.todo = ker.todo
    BY <1>0, <1>2, ZenonT(40)
  <2> QED BY <1>2, <2>1, CallGoesOn, ZenonT(40)
<1>3. CASE DestroySend
  <2>1. CASE \E t \in sendq[ker.chan] : force_ready(t)
    <3>1. PICK t \in Thread : force_ready(t)
      BY <1>3, <2>1, Zenon DEF DestroySend, LongCallSafe, TypeOK, ChanTypes
    <3>2. QueuesMatch' /\ LinkCount' /\ ServerHasClient' /\ Shrinks(t)
      BY <3>1, ForceReadyEffect, Zenon
    <3> QED BY <1>2, <1>3, <3>2, SMTT(30) DEF DestroySend
  <2>2. CASE UNCHANGED <<threadVars, chst, sendq, recvq, replyq, connVars, owed, told>>
    <3>1. /\ UNCHANGED <<state, blocked_on, chst, sendq, recvq, replyq, cproc, cchan, links, fd>>
          /\ UNCHANGED <<server, client>>
      BY <2>2, Zenon DEF threadVars, connVars
    <3>2. QueuesMatch' /\ LinkCount' /\ Shrinks(NONE)
      BY <3>1, NothingMoves
    <3> QED BY <1>2, <1>3, <3>1, <3>2, SMTT(30) DEF DestroySend, ServerHasClient
  <2> QED BY <1>3, <2>1, <2>2, Zenon DEF DestroySend
<1>4. CASE DestroyReceive
  <2>1. PICK t \in Thread : force_ready(t)
    BY <1>4, Zenon DEF DestroyReceive, LongCallSafe, TypeOK, ChanTypes
  <2>2. QueuesMatch' /\ LinkCount' /\ ServerHasClient' /\ Shrinks(t)
    BY <2>1, ForceReadyEffect
  <2> QED BY <1>2, <1>4, <2>2, SMTT(30) DEF DestroyReceive
<1>5. CASE DestroyReply
  <2>1. PICK t \in Thread : force_ready_release(t, "RUN", tflags[t])
    BY <1>5, Zenon DEF DestroyReply, LongCallSafe, TypeOK, ChanTypes
  <2>2. QueuesMatch' /\ LinkCount' /\ ServerHasClient' /\ Shrinks(t)
    BY <2>1, ReleaseEffect
  <2> QED BY <1>2, <1>5, <2>2 DEF DestroyReply
<1>6. CASE DestroyReceived \/ DestroyReplied \/ Preempt
  <2>1. /\ UNCHANGED <<state, blocked_on, chst, sendq, recvq, replyq, cproc, cchan, links, fd>>
        /\ UNCHANGED <<server, client>>
    BY <1>6, Zenon DEF DestroyReceived, DestroyReplied, Preempt, threadVars, chanVars, connVars
  <2>2. QueuesMatch' /\ LinkCount' /\ ServerHasClient'
    BY <2>1, NothingMoves, Zenon DEF ServerHasClient
  <2>3. ASSUME DestroyReceived PROVE LongCallSafe'
    <3>1. ker'.op = "reply" /\ ker'.chan = ker.chan
      BY <1>0, <2>3, Zenon DEF DestroyReceived
    <3> QED BY <2>1, <2>3, <3>1, Zenon DEF DestroyReceived, LongCallSafe
  <2>4. ASSUME DestroyReplied PROVE LongCallSafe'
    <3>1. ker'.op = "conns" /\ ker'.chan = ker.chan
      BY <1>0, <2>4 DEF DestroyReplied
    <3> QED BY <2>1, <2>4, <3>1, ZenonT(40) DEF DestroyReplied, LongCallSafe
  <2>5. ASSUME Preempt PROVE LongCallSafe'
    BY <2>5, IdleSafe, ZenonT(40) DEF Preempt
  <2> QED BY <1>6, <2>2, <2>3, <2>4, <2>5, ZenonT(40)
<1>7. ASSUME NEW c \in Conn, DestroyConn(c)
      PROVE  QueuesMatch' /\ LinkCount' /\ ServerHasClient' /\ LongCallSafe'
  <2>1. /\ UNCHANGED <<state, blocked_on, server, client, chst, sendq, recvq, replyq, cproc, links, fd>>
        /\ cchan' = [cchan EXCEPT ![c] = NONE] /\ ker' = ker /\ ker.op = "conns"
        /\ cchan[c] = ker.chan
    BY <1>7, ZenonT(40) DEF DestroyConn, threadVars, chanVars
  <2>2. ker.chan \in Chan /\ sendq[ker.chan] = {} /\ replyq[ker.chan] = {}
    BY <2>1, ZenonT(40) DEF LongCallSafe
  <2>3. Waiters(c) = {}
    BY <2>1, <2>2, ZenonT(40) DEF Waiters, QueuesMatch, ChanOf
  <2>4. QueuesMatch'
    BY <2>1, <2>3, QueuesDetach, Zenon
  <2>5. \A d \in Conn : Waiters(d)' = Waiters(d)
    BY <2>1, Zenon DEF Waiters
  <2>6. LinkCount'
    BY <2>1, <2>5, LinksSame, Zenon
  <2>7. LongCallSafe'
    BY <2>1, Zenon DEF LongCallSafe
  <2> QED BY <2>1, <2>4, <2>6, <2>7, ZenonT(40) DEF ServerHasClient
<1>8. CASE DestroyFree
  <2>1. /\ UNCHANGED <<state, blocked_on, server, client, sendq, recvq, replyq>>
        /\ UNCHANGED <<cproc, cchan, links, fd>>
        /\ chst' = [chst EXCEPT ![ker.chan] = "FREE"]
        /\ \A c \in Conn : cchan[c] # ker.chan
        /\ ker' = Idle
    BY <1>8, ZenonT(40) DEF DestroyFree, threadVars, connVars
  <2>2. QueuesMatch'
    BY <2>1, SMTT(30) DEF QueuesMatch, ChanOf, TypeOK, ChanTypes, ConnTypes
  <2>3. \A c \in Conn : Waiters(c)' = Waiters(c)
    BY <2>1, Zenon DEF Waiters
  <2>4. LinkCount'
    BY <2>1, <2>3, LinksSame, Zenon
  <2> QED BY <2>1, <2>2, <2>4, IdleSafe, Zenon DEF ServerHasClient
<1> QED BY <1>1, <1>3, <1>4, <1>5, <1>6, <1>7, <1>8, DetachFinishInv, ZenonT(40) DEF LongCallStep
-----------------------------------------------------------------------------
(***************************************************************************)
(* The theorems                                                            *)
(***************************************************************************)
\* The invariant holds when the system starts.
LEMMA InitInv ==
    ASSUME Init
    PROVE  Inv
<1>1. TypeOK
  BY Kinds, Zenon DEF Init, Idle, TypeOK, ThreadTypes, PartnerTypes, ChanTypes, ConnTypes, KernelTypes
<1>2. QueuesMatch /\ ServerHasClient
  BY Zenon DEF Init, QueuesMatch, ServerHasClient
<1>3. ASSUME NEW c \in Conn
      PROVE  links[c] = Cardinality(Coids(c)) + Cardinality(Waiters(c)) /\ links[c] = 0
  <2>1. Coids(c) = {} /\ Waiters(c) = {}
    BY IpcAssumption, Zenon DEF Init, Coids, Waiters
  <2> QED BY <2>1, FS_EmptySet DEF Init
<1>4. LinkCount
  BY <1>3 DEF LinkCount
<1>5. LongCallSafe
  BY DEF Init, Idle, LongCallSafe
<1> QED BY <1>1, <1>2, <1>4, <1>5, Zenon DEF Inv

\* Every step keeps the invariant.
LEMMA StepInv ==
    ASSUME Inv, [Next]_vars
    PROVE  Inv'
<1>1. CASE Next
  <2>1. TypeOK'
    BY <1>1, TypeStep, Zenon
  <2>2. ASSUME ServerStep
        PROVE  QueuesMatch' /\ LinkCount' /\ ServerHasClient' /\ LongCallSafe'
    <3>1. PICK s \in Thread :
          \/ \E ch \in Chan :
               \/ MsgReceivePulse(s, ch) \/ MsgReceive(s, ch) \/ MsgReceiveDropSender(s, ch)
               \/ MsgReceiveFail(s, ch) \/ MsgReceiveBlock(s, ch, FALSE)
               \/ MsgReceiveBlock(s, ch, TRUE)
               \/ ChannelCreate(s, ch)
          \/ \E t \in Thread, c \in Conn :
               \/ MsgReply(s, t, c) \/ MsgReplyFault(s, t, c) \/ MsgReplyPreempted(s, t, c)
               \/ MsgReplyStale(s, t, c) \/ MsgError(s, t, c) \/ MsgCurrent(s, t, c)
          \/ MsgCurrentNone(s)
      BY <2>2, Zenon DEF ServerStep
    <3>2. ASSUME MsgCurrentNone(s)
          PROVE  QueuesMatch' /\ LinkCount' /\ ServerHasClient' /\ LongCallSafe'
      <4>1. /\ UNCHANGED <<state, blocked_on, chst, sendq, recvq, replyq, cproc, cchan, links, fd>>
            /\ server' = ServerWithout(s) /\ client' = [client EXCEPT ![s] = NONE]
            /\ ker' = Idle
        BY <3>2, Zenon DEF MsgCurrentNone, Running, chanVars, connVars
      <4> QED BY <4>1, NothingMoves, DropEffect, IdleSafe, Zenon
    <3> QED BY <3>1, <3>2, ReceiveInv, ReplyInv, Zenon
  <2>3. QueuesMatch' /\ LinkCount' /\ ServerHasClient' /\ LongCallSafe'
    BY <1>1, <2>2, ClientInv, LifeInv, LongCallInv, ZenonT(40) DEF Next
  <2> QED BY <2>1, <2>3, Zenon DEF Inv
<1>2. CASE UNCHANGED vars
  <2>1. TypeOK'
    <3>1. ThreadTypes' /\ PartnerTypes'
      BY <1>2, Frames, Zenon DEF Inv, TypeOK, vars
    <3>2. ChanTypes' /\ ConnTypes'
      BY <1>2, Frames, ZenonT(40) DEF Inv, TypeOK, vars
    <3>3. KernelTypes'
      BY <1>2, Frames, Zenon DEF Inv, TypeOK, vars
    <3> QED BY <3>1, <3>2, <3>3, ZenonT(40) DEF TypeOK
  <2>2. /\ UNCHANGED <<state, blocked_on, chst, sendq, recvq, replyq, cproc, cchan, links, fd>>
        /\ UNCHANGED <<server, client, ker>>
    BY <1>2, Zenon DEF vars
  <2>3. QueuesMatch' /\ LinkCount'
    BY <2>2, NothingMoves, ZenonT(40)
  <2>4. ServerHasClient' /\ LongCallSafe'
    BY <2>2, Zenon DEF Inv, ServerHasClient, LongCallSafe
  <2> QED BY <2>1, <2>3, <2>4, Zenon DEF Inv
<1> QED BY <1>1, <1>2, Zenon

\* The inductive invariant holds in every reachable state.
THEOREM Invariance == Spec => []Inv
<1>1. Init => Inv
  BY InitInv, Zenon
<1>2. Inv /\ [Next]_vars => Inv'
  BY StepInv, Zenon
<1> QED BY <1>1, <1>2, PTL DEF Spec

\* Every field of the thread, channel, connection and process entries keeps its
\* type; in particular cop->links and the pulse counts never go below zero.
THEOREM TypeCorrect == Spec => []TypeOK
<1>1. Inv => TypeOK
  BY Zenon DEF Inv
<1> QED BY <1>1, Invariance, PTL

\* Threads are in exactly the channel queues that their state and blocked_on
\* name, so force_ready and the receive and reply calls unlink a thread from the
\* queue it is in.
THEOREM QueuesAlwaysMatch == Spec => []QueuesMatch
<1>1. Inv => QueuesMatch
  BY Zenon DEF Inv
<1> QED BY <1>1, Invariance, PTL

\* cop->links is the number of coids and blocked threads that refer to the
\* connection: connect_detach frees it neither early nor never.
THEOREM LinksAlwaysCounted == Spec => []LinkCount
<1>1. Inv => LinkCount
  BY Zenon DEF Inv
<1> QED BY <1>1, Invariance, PTL

\* The server of a blocked thread names that thread as its client, so the
\* crash() in force_ready is never reached.
THEOREM ServersHaveClients == Spec => []ServerHasClient
<1>1. Inv => ServerHasClient
  BY Zenon DEF Inv
<1> QED BY <1>1, Invariance, PTL

\* ConnectDetach and ChannelDestroy can rely, after each iteration of their
\* loops, on what the earlier ones established.
THEOREM LongCallsSafe == Spec => []LongCallSafe
<1>1. Inv => LongCallSafe
  BY DEF Inv
<1> QED BY <1>1, Invariance, PTL
=============================================================================
