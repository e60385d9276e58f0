---------------------------- MODULE IpcTypeProofs ----------------------------
(***************************************************************************)
(* Every step of Ipc keeps the types, for any number of processes,         *)
(* threads, channels, connections and coids; then what the pieces the      *)
(* calls share do to the queues and the link counts.                       *)
(***************************************************************************)
EXTENDS Ipc, FiniteSetTheorems, TLAPS

\* The inductive invariant: types, queues, link counts, client and server
\* links, and what a long call relies on.
Inv ==
    /\ TypeOK
    /\ QueuesMatch
    /\ LinkCount
    /\ ServerHasClient
    /\ LongCallSafe
-----------------------------------------------------------------------------
\* The kinds of pulses the kernel sends are pulse kinds.
LEMMA Kinds ==
    /\ User \in PulseKind
    /\ \A c \in Conn : Disconnect(c) \in PulseKind
    /\ \A t \in Thread, c \in Conn : Unblock(t, c) \in PulseKind
    /\ NoPulses \in [PulseKind -> Nat]
BY DEF PulseKind, User, Disconnect, Unblock, NoPulses

\* What pulse_deliver can return: it wakes only a thread of the receive queue.
LEMMA Delivery ==
    ASSUME TypeOK, NEW ch \in Chan, NEW o \in pulse_deliver(ch)
    PROVE  /\ o.add \in {0, 1}
           /\ o.wake = NONE \/ o.wake \in recvq[ch]
BY IpcAssumption DEF pulse_deliver, Woken, Queued, Dropped, MsgReceivers, TypeOK, ChanTypes

\* What connect_detach sends when a link goes.
LEMMA DetachDelivery ==
    ASSUME TypeOK, NEW c \in Conn, NEW o \in DetachPulse(c)
    PROVE  /\ o.add \in {0, 1}
           /\ \/ o.wake = NONE
              \/ WantsDisconnect(c) /\ cchan[c] \in Chan /\ o.wake \in recvq[cchan[c]]
<1>1. CASE WantsDisconnect(c)
  <2>1. cchan[c] \in Chan
    BY <1>1 DEF WantsDisconnect, TypeOK, ConnTypes
  <2> QED BY <1>1, <2>1, Delivery DEF DetachPulse
<1>2. CASE ~WantsDisconnect(c)
  BY <1>2 DEF DetachPulse, Dropped
<1> QED BY <1>1, <1>2

\* The sets that links counts are finite.
LEMMA FiniteLinks ==
    ASSUME NEW c \in Conn
    PROVE  IsFiniteSet(Coids(c)) /\ IsFiniteSet(Waiters(c))
<1>1. IsFiniteSet(Proc \X Coid)
  BY IpcAssumption, FS_Product
<1>2. Coids(c) \subseteq Proc \X Coid /\ Waiters(c) \subseteq Thread
  BY DEF Coids, Waiters
<1> QED BY <1>1, <1>2, IpcAssumption, FS_Subset
-----------------------------------------------------------------------------
(***************************************************************************)
(* What the common parts of the calls do                                   *)
(***************************************************************************)
\* A blocked thread's connection and channel.
LEMMA BlockedOn ==
    ASSUME Inv, NEW t \in Thread, state[t] \in {"SEND", "REPLY"}
    PROVE  /\ blocked_on[t] \in Conn
           /\ ChanOf(t) \in Chan
           /\ cchan[blocked_on[t]] = ChanOf(t)
           /\ links[blocked_on[t]] \in Nat \ {0}
<1> DEFINE c == blocked_on[t]
<1>1. c \in Conn /\ ChanOf(t) \in Chan
  BY DEF Inv, QueuesMatch, ChanOf, TypeOK, ConnTypes
<1>2. t \in Waiters(c)
  BY DEF Waiters
<1>3. Cardinality(Waiters(c)) \in Nat \ {0} /\ Cardinality(Coids(c)) \in Nat
  BY <1>1, <1>2, FiniteLinks, FS_EmptySet, FS_CardinalityType
<1>4. links[c] = Cardinality(Coids(c)) + Cardinality(Waiters(c))
  BY <1>1 DEF Inv, LinkCount
<1> QED BY <1>1, <1>3, <1>4 DEF ChanOf

\* Dropping a link keeps the types of the connections and channels.
LEMMA DetachTypes ==
    ASSUME Inv, NEW c \in Conn, links[c] # 0, NEW o \in DetachPulse(c),
           NEW pl \in [Chan -> [PulseKind -> Nat]],
           connect_detach(c, o, pl)
    PROVE  /\ cproc' \in [Conn -> Proc \cup {NONE}]
           /\ cchan' \in [Conn -> Chan \cup {NONE}]
           /\ links' \in [Conn -> Nat]
           /\ recvq' \in [Chan -> SUBSET Thread]
           /\ pulses' \in [Chan -> [PulseKind -> Nat]]
<1> USE DEF Inv, TypeOK
<1>1. o.add \in Nat
  BY DetachDelivery
<1>a. cproc' \in [Conn -> Proc \cup {NONE}]
  BY DEF connect_detach, ConnTypes
<1>b. cchan' \in [Conn -> Chan \cup {NONE}]
  BY DEF connect_detach, ConnTypes
<1>c. links' \in [Conn -> Nat]
  <2>1. links[c] - 1 \in Nat
    BY DEF ConnTypes
  <2>2. links' = [links EXCEPT ![c] = links[c] - 1]
    BY DEF connect_detach
  <2> QED BY <2>1, <2>2 DEF ConnTypes
<1>2. /\ cproc' \in [Conn -> Proc \cup {NONE}]
      /\ cchan' \in [Conn -> Chan \cup {NONE}]
      /\ links' \in [Conn -> Nat]
  BY <1>a, <1>b, <1>c
<1>3. CASE WantsDisconnect(c)
  <2>1. cchan[c] \in Chan
    BY <1>3 DEF WantsDisconnect, ConnTypes
  <2>2. recvq' \in [Chan -> SUBSET Thread]
    BY <1>3, <2>1 DEF connect_detach, RecvqAfter, ChanTypes
  <2>3. Disconnect(c) \in PulseKind
    BY Kinds
  <2>4. pulses' = [pl EXCEPT ![cchan[c]][Disconnect(c)] = @ + o.add]
    BY <1>3 DEF connect_detach, PulseAdded
  <2>5. pulses' \in [Chan -> [PulseKind -> Nat]]
    BY <1>1, <2>1, <2>3, <2>4
  <2> QED BY <1>2, <2>2, <2>5
<1>4. CASE ~WantsDisconnect(c)
  BY <1>2, <1>4 DEF connect_detach, ChanTypes
<1> QED BY <1>3, <1>4

\* Becoming ready or dead, and waking a receiver, keep the types of threads.
LEMMA BecomeTypes ==
    ASSUME TypeOK, NEW t, NEW w, NEW st \in {"RUN", "REPLY", "DEAD"}, NEW fl \in SUBSET Flags,
           NEW S, Become(t, st, fl, w), Unblocked(S)
    PROVE  ThreadTypes'
<1>1. /\ state' \in [Thread -> {"RUN", "SEND", "RECEIVE", "REPLY", "DEAD"}]
      /\ tflags' \in [Thread -> SUBSET Flags]
  BY DEF Become, TypeOK, ThreadTypes
<1>2. /\ blocked_on' \in [Thread -> Conn \cup Chan \cup {NONE}]
      /\ coid' \in [Thread -> Coid \cup {NONE}]
  BY DEF Unblocked, TypeOK, ThreadTypes
<1> QED BY <1>1, <1>2 DEF ThreadTypes
-----------------------------------------------------------------------------
(***************************************************************************)
(* Types                                                                   *)
(***************************************************************************)
\* force_ready keeps the types when it releases a thread.
LEMMA ReleaseTypes ==
    ASSUME Inv, NEW t \in Thread, NEW st \in {"RUN", "DEAD"}, NEW fl \in SUBSET Flags,
           force_ready_release(t, st, fl)
    PROVE  /\ ThreadTypes' /\ PartnerTypes' /\ ChanTypes' /\ ConnTypes'
           /\ owed' \subseteq Rcvid /\ told' \subseteq Rcvid
<1> USE DEF Inv, TypeOK
<1>1. PartnerTypes'
  BY DEF force_ready_release, ReleaseLinks, ClientWithout, PartnerTypes
<1>2. CASE state[t] = "RECEIVE"
  <2>1. /\ Become(t, st, fl \ {"RCVPULSE"}, NONE)
        /\ Unblocked({t})
        /\ recvq' = [recvq EXCEPT ![blocked_on[t]] = @ \ {t}]
        /\ UNCHANGED <<sendq, replyq, pulses, cproc, cchan, links, owed, told, chst, fd>>
    BY <1>2 DEF force_ready_release
  <2>2. ThreadTypes'
    BY <2>1, BecomeTypes DEF Flags
  <2> QED BY <1>1, <2>1, <2>2, ZenonT(40) DEF ChanTypes, ConnTypes, KernelTypes
<1>3. CASE state[t] \in {"SEND", "REPLY"}
  <2> DEFINE c == blocked_on[t]
  <2>1. c \in Conn /\ ChanOf(t) \in Chan /\ links[c] # 0
    BY <1>3, BlockedOn, Zenon
  <2>2. PICK o \in DetachPulse(c) :
            /\ Become(t, st, fl, o.wake)
            /\ Unblocked({t, o.wake})
            /\ connect_detach(c, o, pulses)
    BY <1>3, Zenon DEF force_ready_release
  <2>3. /\ sendq' = [sendq EXCEPT ![ChanOf(t)] = @ \ {t}]
        /\ replyq' = [replyq EXCEPT ![ChanOf(t)] = @ \ {t}]
        /\ owed' = owed \ Stale(c)
        /\ told' = told \ Stale(c)
        /\ UNCHANGED <<chst, fd>>
    BY <1>3 DEF force_ready_release
  <2>4. pulses \in [Chan -> [PulseKind -> Nat]]
    BY Zenon DEF ChanTypes
  <2>5. /\ cproc' \in [Conn -> Proc \cup {NONE}]
        /\ cchan' \in [Conn -> Chan \cup {NONE}]
        /\ links' \in [Conn -> Nat]
        /\ recvq' \in [Chan -> SUBSET Thread]
        /\ pulses' \in [Chan -> [PulseKind -> Nat]]
    BY <2>1, <2>2, <2>4, DetachTypes, Zenon
  <2>6. ThreadTypes'
    BY <2>2, BecomeTypes
  <2>7. ChanTypes' /\ ConnTypes'
    BY <2>1, <2>3, <2>5, Zenon DEF ChanTypes, ConnTypes
  <2> QED BY <1>1, <2>3, <2>6, <2>7 DEF KernelTypes
<1> QED BY <1>2, <1>3, Zenon DEF force_ready_release

\* Adding a pulse keeps the type of the pulse counts.
LEMMA PulseTypes ==
    ASSUME TypeOK, NEW ch \in Chan, NEW k \in PulseKind, NEW o \in pulse_deliver(ch)
    PROVE  /\ PulseAdded(pulses, ch, k, o) \in [Chan -> [PulseKind -> Nat]]
           /\ RecvqAfter(ch, o) \in [Chan -> SUBSET Thread]
<1>1. o.add \in Nat
  BY Delivery
<1>2. pulses \in [Chan -> [PulseKind -> Nat]] /\ recvq \in [Chan -> SUBSET Thread]
  BY DEF TypeOK, ChanTypes
<1> QED BY <1>1, <1>2, SMTT(30) DEF PulseAdded, RecvqAfter

\* So does it when it defers the wake-up.
LEMMA DeferTypes ==
    ASSUME Inv, NEW t \in Thread, NEW kill, force_ready_defer(t, kill)
    PROVE  /\ ThreadTypes' /\ PartnerTypes' /\ ChanTypes' /\ ConnTypes'
           /\ owed' \subseteq Rcvid /\ told' \subseteq Rcvid
<1> USE DEF Inv, TypeOK
<1> DEFINE fl == tflags[t] \cup {"UNBLOCK_REQ", "UNBLOCK_QUEUED"}
                        \cup (IF kill THEN {"KILLSELF"} ELSE {})
           c == blocked_on[t]
           ch == ChanOf(t)
<1>1. fl \in SUBSET Flags
  BY DEF Flags, ThreadTypes
<1>2. state[t] = "REPLY"
  BY DEF force_ready_defer, unblock_needed
<1>3. c \in Conn /\ ch \in Chan
  BY <1>2, BlockedOn, Zenon
<1>4. PartnerTypes' /\ ConnTypes' /\ owed' \subseteq Rcvid
  BY DEF force_ready_defer, PartnerTypes, ConnTypes, KernelTypes
<1>5. UNCHANGED <<chst, sendq, replyq>>
  BY SMTT(30) DEF force_ready_defer
<1>6. CASE /\ tflags' = [tflags EXCEPT ![t] = fl]
           /\ UNCHANGED <<state, blocked_on, coid, pulses, recvq, told>>
  BY <1>1, <1>4, <1>5, <1>6 DEF ThreadTypes, ChanTypes, KernelTypes
<1>7. CASE \E o \in pulse_deliver(ch) :
                  /\ o.ok
                  /\ Become(t, "REPLY", fl, o.wake)
                  /\ Unblocked({o.wake})
                  /\ pulses' = PulseAdded(pulses, ch, Unblock(t, c), o)
                  /\ recvq' = RecvqAfter(ch, o)
                  /\ told' = IF o.wake # NONE THEN told \cup {<<t, c>>} ELSE told
  <2>1. PICK o \in pulse_deliver(ch) :
                  /\ Become(t, "REPLY", fl, o.wake)
                  /\ Unblocked({o.wake})
                  /\ pulses' = PulseAdded(pulses, ch, Unblock(t, c), o)
                  /\ recvq' = RecvqAfter(ch, o)
                  /\ told' = IF o.wake # NONE THEN told \cup {<<t, c>>} ELSE told
    BY <1>7, ZenonT(40)
  <2>2. ThreadTypes'
    BY <1>1, <2>1, BecomeTypes
  <2>3. Unblock(t, c) \in PulseKind
    BY <1>3, Kinds, Zenon
  <2>4. ChanTypes'
    BY <1>3, <1>5, <2>1, <2>3, PulseTypes, ZenonT(40) DEF ChanTypes
  <2>5. told' \subseteq Rcvid
    BY <1>3, <2>1 DEF KernelTypes, Rcvid
  <2> QED BY <1>4, <2>2, <2>4, <2>5, Zenon
<1> QED BY <1>6, <1>7, Zenon DEF force_ready_defer

\* Hence force_ready keeps the types.
LEMMA ForceReadyTypes ==
    ASSUME Inv, NEW t \in Thread, force_ready(t)
    PROVE  /\ ThreadTypes' /\ PartnerTypes' /\ ChanTypes' /\ ConnTypes'
           /\ owed' \subseteq Rcvid /\ told' \subseteq Rcvid
<1>1. tflags[t] \in SUBSET Flags
  BY Zenon DEF Inv, TypeOK, ThreadTypes
<1>2. tflags[t] \ {"UNBLOCK_REQ"} \in SUBSET Flags
  BY <1>1
<1>3. CASE force_ready_defer(t, FALSE)
  BY <1>3, DeferTypes, Zenon
<1>4. CASE force_ready_release(t, "RUN", tflags[t] \ {"UNBLOCK_REQ"})
  BY <1>2, <1>4, ReleaseTypes
<1>5. CASE force_ready_release(t, "RUN", tflags[t])
  BY <1>1, <1>5, ReleaseTypes
<1> QED BY <1>3, <1>4, <1>5, Zenon DEF force_ready

\* A reply to <<t, c>> finds t blocked on c.
LEMMA LookupBlocked ==
    ASSUME Inv, NEW s \in Thread, NEW t \in Thread, NEW c \in Conn, lookup_rcvid(s, t, c)
    PROVE  /\ state[t] = "REPLY" /\ blocked_on[t] = c
           /\ cchan[c] \in Chan /\ ChanOf(t) = cchan[c] /\ links[c] \in Nat \ {0}
<1>1. state[t] = "REPLY" /\ blocked_on[t] = c
  BY DEF lookup_rcvid
<1> QED BY <1>1, BlockedOn

\* Removing the queued unblock pulse keeps the type of the pulse counts.
LEMMA RemoveTypes ==
    ASSUME TypeOK, NEW t \in Thread, NEW c \in Conn, cchan[c] \in Chan
    PROVE  remove_unblock(t, c) \in [Chan -> [PulseKind -> Nat]]
<1>1. Unblock(t, c) \in PulseKind
  BY Kinds
<1>2. pulses \in [Chan -> [PulseKind -> Nat]]
  BY DEF TypeOK, ChanTypes
<1> QED BY <1>1, <1>2 DEF remove_unblock

\* A reply keeps the types.
LEMMA RepliedTypes ==
    ASSUME Inv, NEW s \in Thread, NEW t \in Thread, NEW c \in Conn, lookup_rcvid(s, t, c),
           NEW fl \in SUBSET Flags, Replied(t, c, fl)
    PROVE  ThreadTypes' /\ ChanTypes' /\ ConnTypes' /\ KernelTypes'
<1> USE DEF Inv, TypeOK
<1>1. cchan[c] \in Chan /\ links[c] # 0
  BY LookupBlocked
<1> DEFINE pl == remove_unblock(t, c)
<1>2. pl \in [Chan -> [PulseKind -> Nat]]
  BY <1>1, RemoveTypes
<1> HIDE DEF pl
<1>3. PICK o \in DetachPulse(c) :
            /\ Become(t, "RUN", fl, o.wake)
            /\ Unblocked({t, o.wake})
            /\ connect_detach(c, o, pl)
  BY Zenon DEF Replied, pl
<1>4. ThreadTypes'
  BY <1>3, BecomeTypes, Zenon
<1>5. /\ cproc' \in [Conn -> Proc \cup {NONE}]
      /\ cchan' \in [Conn -> Chan \cup {NONE}]
      /\ links' \in [Conn -> Nat]
      /\ recvq' \in [Chan -> SUBSET Thread]
      /\ pulses' \in [Chan -> [PulseKind -> Nat]]
  BY <1>1, <1>2, <1>3, DetachTypes, ZenonT(40)
<1>6. /\ replyq' = [replyq EXCEPT ![cchan[c]] = @ \ {t}]
      /\ owed' \subseteq owed /\ told' \subseteq told
      /\ UNCHANGED <<chst, sendq, fd, pst, ker, leaked>>
  BY Zenon DEF Replied
<1>7. ChanTypes' /\ ConnTypes'
  BY <1>1, <1>5, <1>6, ZenonT(40) DEF ChanTypes, ConnTypes
<1> QED BY <1>4, <1>6, <1>7, Zenon DEF KernelTypes

\* What a step leaves alone keeps its type.
LEMMA Frames ==
    /\ ThreadTypes /\ UNCHANGED <<state, blocked_on, coid, tflags>> => ThreadTypes'
    /\ PartnerTypes /\ UNCHANGED <<server, client>> => PartnerTypes'
    /\ ChanTypes /\ UNCHANGED <<chst, sendq, recvq, replyq, pulses>> => ChanTypes'
    /\ ConnTypes /\ UNCHANGED <<cproc, cchan, links, fd>> => ConnTypes'
    /\ KernelTypes /\ UNCHANGED <<pst, ker, leaked>> /\ owed' \subseteq Rcvid /\ told' \subseteq Rcvid
         => KernelTypes'
    /\ KernelTypes /\ UNCHANGED <<pst, ker, owed, told, leaked>> => KernelTypes'
<1>1. ThreadTypes /\ UNCHANGED <<state, blocked_on, coid, tflags>> => ThreadTypes'
  BY DEF ThreadTypes
<1>2. PartnerTypes /\ UNCHANGED <<server, client>> => PartnerTypes'
  BY DEF PartnerTypes
<1>3. ChanTypes /\ UNCHANGED <<chst, sendq, recvq, replyq, pulses>> => ChanTypes'
  BY DEF ChanTypes
<1>4. ConnTypes /\ UNCHANGED <<cproc, cchan, links, fd>> => ConnTypes'
  BY DEF ConnTypes
<1>5. KernelTypes /\ UNCHANGED <<pst, ker, leaked>> /\ owed' \subseteq Rcvid /\ told' \subseteq Rcvid
         => KernelTypes'
  BY DEF KernelTypes
<1>6. KernelTypes /\ UNCHANGED <<pst, ker, owed, told, leaked>> => KernelTypes'
  BY DEF KernelTypes
<1> QED BY <1>1, <1>2, <1>3, <1>4, <1>5, <1>6, ZenonT(40)

\* One more link keeps the type of the link counts.
LEMMA LinkAdded ==
    ASSUME ConnTypes, NEW c \in Conn, links' = [links EXCEPT ![c] = @ + 1]
    PROVE  links' \in [Conn -> Nat]
<1>1. links[c] + 1 \in Nat
  BY DEF ConnTypes
<1> QED BY <1>1 DEF ConnTypes

\* The types are preserved by what client threads do.
LEMMA ClientTypes ==
    ASSUME Inv, ClientStep
    PROVE  TypeOK'
<1> USE DEF Inv
<1> PICK t \in Thread, f \in Coid :
        \/ MsgSendDirect(t, f) \/ MsgSendRcvFault(t, f) \/ MsgSendQueue(t, f)
        \/ MsgSendPulse(t, f)
        \/ \E ch \in Chan : ConnectAttachShare(t, f, ch) \/ ConnectAttachNew(t, f, ch)
  BY DEF ClientStep
<1> DEFINE slot == <<process[t], f>>
           c == fd[slot]
           ch == cchan[c]
<1>0. process[t] \in Proc /\ slot \in Proc \X Coid
  BY IpcAssumption
<1>c. Connected(t, f) => c \in Conn /\ ch \in Chan
  BY <1>0, Zenon DEF Connected, TypeOK, ConnTypes
<1>1. CASE MsgSendDirect(t, f)
  <2>1. PICK r \in MsgReceivers(ch) :
            /\ Become(t, "REPLY", tflags[t], r)
            /\ blocked_on' = [blocked_on EXCEPT ![t] = c, ![r] = NONE]
            /\ recvq' = [recvq EXCEPT ![ch] = @ \ {r}]
            /\ server' = [server EXCEPT ![t] = r]
            /\ client' = [client EXCEPT ![r] = t]
    BY <1>1, Zenon DEF MsgSendDirect
  <2>2. c \in Conn /\ ch \in Chan
    BY <1>1, <1>c, Zenon DEF MsgSendDirect
  <2>3. r \in Thread
    BY <2>2, <2>1, Zenon DEF MsgReceivers, TypeOK, ChanTypes
  <2>4. ThreadTypes'
    BY <1>1, <2>1, <2>2, Zenon DEF MsgSendDirect, Become, TypeOK, ThreadTypes
  <2>5. PartnerTypes'
    BY <2>1, <2>3, Zenon DEF TypeOK, PartnerTypes
  <2>6. ChanTypes'
    BY <1>1, <2>1, <2>2, ZenonT(40) DEF MsgSendDirect, TypeOK, ChanTypes
  <2>a. links' = [links EXCEPT ![c] = @ + 1] /\ UNCHANGED <<cproc, cchan, fd>>
    BY <1>1, Zenon DEF MsgSendDirect
  <2>7. ConnTypes'
    BY <2>2, <2>a, LinkAdded DEF TypeOK, ConnTypes
  <2>b. <<t, c>> \in Rcvid
    BY <2>2 DEF Rcvid
  <2>c. /\ owed' = owed \cup {<<t, c>>} /\ told' = told \ {<<t, c>>}
        /\ UNCHANGED <<pst, ker, leaked>>
    BY <1>1, Zenon DEF MsgSendDirect
  <2>d. owed' \subseteq Rcvid /\ told' \subseteq Rcvid
    BY <2>b, <2>c, ZenonT(40) DEF TypeOK, KernelTypes
  <2>8. KernelTypes'
    BY <2>c, <2>d, Frames, Zenon DEF TypeOK
  <2> QED BY <2>4, <2>5, <2>6, <2>7, <2>8, Zenon DEF TypeOK
<1>2. CASE MsgSendRcvFault(t, f)
  <2>1. ThreadTypes' /\ PartnerTypes'
    BY <1>2, Zenon DEF MsgSendRcvFault, TypeOK, ThreadTypes, PartnerTypes
  <2>2. ChanTypes'
    <3>1. PICK r : recvq' = [recvq EXCEPT ![ch] = @ \ {r}]
      BY <1>2, Zenon DEF MsgSendRcvFault
    <3>2. UNCHANGED <<chst, sendq, replyq, pulses>>
      BY <1>2, Zenon DEF MsgSendRcvFault
    <3> QED BY <3>1, <3>2, Zenon DEF TypeOK, ChanTypes
  <2>3. ConnTypes' /\ KernelTypes'
    BY <1>2, Frames, Zenon DEF MsgSendRcvFault, TypeOK
  <2> QED BY <2>1, <2>2, <2>3 DEF TypeOK
<1>3. CASE MsgSendQueue(t, f)
  <2>2. c \in Conn /\ ch \in Chan
    BY <1>3, <1>c, Zenon DEF MsgSendQueue
  <2>3. ThreadTypes' /\ PartnerTypes'
    BY <1>3, <2>2, Zenon DEF MsgSendQueue, TypeOK, ThreadTypes, PartnerTypes
  <2>4. ChanTypes'
    BY <1>3, <2>2, Zenon DEF MsgSendQueue, TypeOK, ChanTypes
  <2>a. links' = [links EXCEPT ![c] = @ + 1] /\ UNCHANGED <<cproc, cchan, fd>>
    BY <1>3, ZenonT(40) DEF MsgSendQueue
  <2>5. ConnTypes'
    BY <2>2, <2>a, LinkAdded DEF TypeOK, ConnTypes
  <2>6. KernelTypes'
    BY <1>3, Frames, Zenon DEF MsgSendQueue, TypeOK
  <2> QED BY <2>3, <2>4, <2>5, <2>6 DEF TypeOK
<1>4. CASE MsgSendPulse(t, f)
  <2>1. PICK o \in pulse_deliver(ch) :
            /\ Become(NONE, "RUN", {}, o.wake)
            /\ Unblocked({o.wake})
            /\ pulses' = PulseAdded(pulses, ch, User, o)
            /\ recvq' = RecvqAfter(ch, o)
    BY <1>4, Zenon DEF MsgSendPulse
  <2>2. ch \in Chan /\ User \in PulseKind
    BY <1>4, <1>c, Kinds, Zenon DEF MsgSendPulse
  <2>3. ThreadTypes'
    BY <2>1, BecomeTypes, Zenon
  <2>4. PartnerTypes' /\ ChanTypes' /\ ConnTypes' /\ KernelTypes'
    BY <1>4, <2>1, <2>2, PulseTypes, ZenonT(40)
       DEF MsgSendPulse, connVars, TypeOK, PartnerTypes, ChanTypes, ConnTypes, KernelTypes
  <2> QED BY <2>3, <2>4, Zenon DEF TypeOK
<1>5. ASSUME NEW k \in Chan, ConnectAttachShare(t, f, k)
      PROVE  TypeOK'
  <2>1. ThreadTypes' /\ PartnerTypes' /\ ChanTypes' /\ KernelTypes'
    BY <1>5, Frames, ZenonT(40) DEF ConnectAttachShare, threadVars, chanVars, TypeOK
  <2>2. ConnTypes'
    BY <1>0, <1>5, SMTT(30) DEF ConnectAttachShare, TypeOK, ConnTypes
  <2> QED BY <2>1, <2>2 DEF TypeOK
<1>6. ASSUME NEW k \in Chan, ConnectAttachNew(t, f, k)
      PROVE  TypeOK'
  <2>1. ThreadTypes' /\ PartnerTypes' /\ ChanTypes' /\ KernelTypes'
    BY <1>6, Frames, Zenon DEF ConnectAttachNew, threadVars, chanVars, TypeOK
  <2>2. ConnTypes'
    BY <1>0, <1>6, SMTT(30) DEF ConnectAttachNew, TypeOK, ConnTypes
  <2> QED BY <2>1, <2>2 DEF TypeOK
<1> QED BY <1>1, <1>2, <1>3, <1>4, <1>5, <1>6, Zenon

\* The client and server links keep their types when s drops its client.
LEMMA DropTypes ==
    ASSUME TypeOK, NEW s \in Thread
    PROVE  /\ ServerWithout(s) \in [Thread -> Thread \cup {NONE}]
           /\ [client EXCEPT ![s] = NONE] \in [Thread -> Thread \cup {NONE}]
           /\ ClientWithout(s) \in [Thread -> Thread \cup {NONE}]
           /\ [server EXCEPT ![s] = NONE] \in [Thread -> Thread \cup {NONE}]
BY DEF TypeOK, PartnerTypes, ServerWithout, ClientWithout

\* The types are preserved by what receiving threads do.
LEMMA ReceiveTypes ==
    ASSUME Inv, NEW s \in Thread, NEW ch \in Chan,
           \/ MsgReceivePulse(s, ch) \/ MsgReceive(s, ch) \/ MsgReceiveDropSender(s, ch)
           \/ MsgReceiveFail(s, ch) \/ MsgReceiveBlock(s, ch, FALSE)
           \/ MsgReceiveBlock(s, ch, TRUE)
           \/ ChannelCreate(s, ch)
    PROVE  TypeOK'
<1> USE DEF Inv
<1>1. CASE MsgReceivePulse(s, ch)
  <2>1. PICK k \in PulseKind :
            /\ pulses[ch][k] > 0
            /\ pulses' = [pulses EXCEPT ![ch][k] = @ - 1]
            /\ \/ told' = told \cup {r \in Rcvid : k = Unblock(r[1], r[2])}
               \/ told' = told
    BY <1>1, Zenon DEF MsgReceivePulse
  <2>2. pulses[ch][k] - 1 \in Nat /\ pulses \in [Chan -> [PulseKind -> Nat]]
    BY <2>1 DEF TypeOK, ChanTypes
  <2>3. pulses' \in [Chan -> [PulseKind -> Nat]]
    BY <2>1, <2>2, Zenon
  <2>4. ChanTypes'
    BY <1>1, <2>3, Zenon DEF MsgReceivePulse, TypeOK, ChanTypes
  <2>5. PartnerTypes'
    BY <1>1, DropTypes, Zenon DEF MsgReceivePulse, PartnerTypes
  <2>6. owed' \subseteq Rcvid /\ told' \subseteq Rcvid
    BY <1>1, <2>1, ZenonT(40) DEF MsgReceivePulse, TypeOK, KernelTypes
  <2>7. ThreadTypes' /\ ConnTypes' /\ KernelTypes'
    BY <1>1, <2>6, Frames DEF MsgReceivePulse, connVars, TypeOK
  <2> QED BY <2>4, <2>5, <2>7 DEF TypeOK
<1>2. CASE MsgReceive(s, ch)
  <2>1. PICK t \in sendq[ch] :
            /\ server' = [ServerWithout(s) EXCEPT ![t] = s]
            /\ client' = [client EXCEPT ![s] = t]
            /\ sendq' = [sendq EXCEPT ![ch] = @ \ {t}]
            /\ replyq' = [replyq EXCEPT ![ch] = @ \cup {t}]
            /\ state' = [state EXCEPT ![t] = "REPLY"]
            /\ owed' = owed \cup {<<t, blocked_on[t]>>}
            /\ told' = told \ {<<t, blocked_on[t]>>}
    BY <1>2, Zenon DEF MsgReceive
  <2>2. /\ UNCHANGED <<blocked_on, coid, tflags, chst, recvq, pulses, pst, ker, leaked>>
        /\ UNCHANGED connVars
    BY <1>2, Zenon DEF MsgReceive
  <2>3. t \in Thread /\ state[t] = "SEND"
    BY ZenonT(40) DEF TypeOK, ChanTypes, QueuesMatch
  <2>4. <<t, blocked_on[t]>> \in Rcvid
    BY <2>3, BlockedOn, Zenon DEF Rcvid
  <2>5. ThreadTypes'
    BY <2>1, <2>2, Zenon DEF TypeOK, ThreadTypes
  <2>6. PartnerTypes'
    BY <2>1, <2>3, DropTypes, Zenon DEF TypeOK, PartnerTypes
  <2>7. ChanTypes'
    BY <2>1, <2>2, <2>3 DEF TypeOK, ChanTypes
  <2>8. owed' \subseteq Rcvid /\ told' \subseteq Rcvid
    BY <2>1, <2>4, ZenonT(40) DEF TypeOK, KernelTypes
  <2>9. ConnTypes' /\ KernelTypes'
    BY <2>2, <2>8, Frames, Zenon DEF connVars, TypeOK
  <2> QED BY <2>5, <2>6, <2>7, <2>9, Zenon DEF TypeOK
<1>3. CASE MsgReceiveDropSender(s, ch)
  <2>1. PICK t \in Thread : force_ready(t)
    BY <1>3 DEF MsgReceiveDropSender, TypeOK, ChanTypes
  <2>2. /\ ThreadTypes' /\ PartnerTypes' /\ ChanTypes' /\ ConnTypes'
        /\ owed' \subseteq Rcvid /\ told' \subseteq Rcvid
    BY <2>1, ForceReadyTypes
  <2>3. KernelTypes'
    BY <1>3, <2>2, Frames, ZenonT(40) DEF MsgReceiveDropSender, TypeOK
  <2> QED BY <2>2, <2>3, Zenon DEF TypeOK
<1>4. CASE MsgReceiveFail(s, ch)
  <2>1. PartnerTypes'
    BY <1>4, DropTypes DEF MsgReceiveFail, PartnerTypes
  <2> QED BY <1>4, <2>1, Frames, ZenonT(40) DEF MsgReceiveFail, chanVars, connVars, TypeOK
<1>5. ASSUME NEW b \in BOOLEAN, MsgReceiveBlock(s, ch, b)
      PROVE  TypeOK'
  <2>1. PartnerTypes'
    BY <1>5, DropTypes, Zenon DEF MsgReceiveBlock, PartnerTypes
  <2>2. tflags[s] \cup (IF b THEN {"RCVPULSE"} ELSE {}) \in SUBSET Flags
    BY DEF TypeOK, ThreadTypes, Flags
  <2>3. tflags' = [tflags EXCEPT ![s] = tflags[s] \cup (IF b THEN {"RCVPULSE"} ELSE {})]
    BY <1>5, Zenon DEF MsgReceiveBlock
  <2>4. tflags' \in [Thread -> SUBSET Flags]
    BY <2>2, <2>3 DEF TypeOK, ThreadTypes
  <2>5. ThreadTypes'
    BY <1>5, <2>4, ZenonT(40) DEF MsgReceiveBlock, TypeOK, ThreadTypes
  <2>6. ChanTypes'
    BY <1>5 DEF MsgReceiveBlock, TypeOK, ChanTypes
  <2>7. ConnTypes' /\ KernelTypes'
    BY <1>5, Frames, Zenon DEF MsgReceiveBlock, connVars, TypeOK
  <2> QED BY <2>1, <2>5, <2>6, <2>7 DEF TypeOK
<1>6. CASE ChannelCreate(s, ch)
  <2>1. ChanTypes'
    BY <1>6, Zenon DEF ChannelCreate, TypeOK, ChanTypes
  <2> QED BY <1>6, <2>1, Frames, Zenon DEF ChannelCreate, threadVars, connVars, TypeOK
<1> QED BY <1>1, <1>2, <1>3, <1>4, <1>5, <1>6, Zenon

\* The types are preserved by what replying threads do.
LEMMA ReplyTypes ==
    ASSUME Inv, NEW s \in Thread, NEW t \in Thread, NEW c \in Conn,
           \/ MsgReply(s, t, c) \/ MsgReplyFault(s, t, c) \/ MsgReplyPreempted(s, t, c)
           \/ MsgReplyStale(s, t, c) \/ MsgError(s, t, c) \/ MsgCurrent(s, t, c)
    PROVE  TypeOK'
<1> USE DEF Inv
<1>0. tflags[t] \in SUBSET Flags
  BY DEF TypeOK, ThreadTypes
<1>1. CASE MsgReply(s, t, c) \/ MsgError(s, t, c)
  <2>a. client' = ClientWithout(t) /\ server' = [server EXCEPT ![t] = NONE]
    BY <1>1, Zenon DEF MsgReply, MsgError
  <2>1. PartnerTypes'
    BY <2>a, DropTypes DEF PartnerTypes
  <2>2. tflags[t] \ {"UNBLOCK_QUEUED", "UNBLOCK_REQ"} \in SUBSET Flags
    BY <1>0, Zenon
  <2>3. ThreadTypes' /\ ChanTypes' /\ ConnTypes' /\ KernelTypes'
    BY <1>1, <2>2, RepliedTypes, Zenon DEF MsgReply, MsgError
  <2> QED BY <2>1, <2>3 DEF TypeOK
<1>2. CASE MsgReplyFault(s, t, c)
  <2>1. PartnerTypes'
    BY <1>2, Frames, ZenonT(40) DEF MsgReplyFault, TypeOK
  <2>2. tflags[t] \ {"UNBLOCK_QUEUED"} \in SUBSET Flags
    BY <1>0, Zenon
  <2>3. ThreadTypes' /\ ChanTypes' /\ ConnTypes' /\ KernelTypes'
    BY <1>2, <2>2, RepliedTypes, Zenon DEF MsgReplyFault
  <2> QED BY <2>1, <2>3 DEF TypeOK
<1>3. CASE MsgReplyPreempted(s, t, c)
  <2>1. pulses' \in [Chan -> [PulseKind -> Nat]]
    BY <1>3, LookupBlocked, RemoveTypes, ZenonT(40) DEF MsgReplyPreempted
  <2>2. ChanTypes'
    BY <1>3, <2>1, Zenon DEF MsgReplyPreempted, TypeOK, ChanTypes
  <2>3. ThreadTypes'
    BY <1>0, <1>3, Zenon DEF MsgReplyPreempted, TypeOK, ThreadTypes
  <2>4. owed' \subseteq Rcvid /\ told' \subseteq Rcvid
    BY <1>3, SMTT(30) DEF MsgReplyPreempted, TypeOK, KernelTypes, Rcvid
  <2>5. PartnerTypes' /\ ConnTypes' /\ KernelTypes'
    BY <1>3, <2>4, Frames, SMTT(30) DEF MsgReplyPreempted, connVars, TypeOK
  <2> QED BY <2>2, <2>3, <2>5 DEF TypeOK
<1>4. CASE MsgReplyStale(s, t, c)
  <2>1. owed' \subseteq Rcvid /\ told' \subseteq Rcvid
    BY <1>4, Zenon DEF MsgReplyStale, TypeOK, KernelTypes
  <2> QED BY <1>4, <2>1, Frames, Zenon DEF MsgReplyStale, threadVars, chanVars, connVars, TypeOK
<1>5. CASE MsgCurrent(s, t, c)
  <2>1. server' \in [Thread -> Thread \cup {NONE}]
    BY <1>5, DropTypes, Zenon DEF MsgCurrent
  <2>2. client' \in [Thread -> Thread \cup {NONE}]
    BY <1>5, DropTypes, SMTT(30) DEF MsgCurrent
  <2>3. PartnerTypes'
    BY <2>1, <2>2, SMTT(30) DEF PartnerTypes
  <2> QED BY <1>5, <2>3, Frames, Zenon DEF MsgCurrent, chanVars, connVars, TypeOK
<1> QED BY <1>1, <1>2, <1>3, <1>4, <1>5, Zenon

\* The types are preserved by interrupts, deaths and the start of long calls.
LEMMA LifeTypes ==
    ASSUME Inv, LifeStep
    PROVE  TypeOK'
<1> USE DEF Inv
<1>1. ASSUME NEW t \in Thread, Interrupt(t) PROVE TypeOK'
  <2>1. /\ ThreadTypes' /\ PartnerTypes' /\ ChanTypes' /\ ConnTypes'
        /\ owed' \subseteq Rcvid /\ told' \subseteq Rcvid
    BY <1>1, ForceReadyTypes, SMTT(30) DEF Interrupt
  <2>2. KernelTypes'
    BY <1>1, <2>1, Frames, Zenon DEF Interrupt, TypeOK
  <2> QED BY <2>1, <2>2 DEF TypeOK
<1>2. ASSUME NEW t \in Thread
      PROVE  ProcAfterDeath(t) \in [Proc -> {"LIVE", "DESTROYALL", "TERMING"}]
  BY Zenon DEF ProcAfterDeath, TypeOK, KernelTypes
<1>3. ASSUME NEW t \in Thread, ThreadDestroy(t) PROVE TypeOK'
  <2>1. PartnerTypes'
    BY <1>3, DropTypes, Zenon DEF ThreadDestroy, PartnerTypes
  <2>2. ThreadTypes'
    BY <1>3, Zenon DEF ThreadDestroy, TypeOK, ThreadTypes
  <2>3. ChanTypes' /\ ConnTypes'
    BY <1>3, Frames, Zenon DEF ThreadDestroy, chanVars, connVars, TypeOK
  <2>4. KernelTypes'
    BY <1>2, <1>3, ZenonT(40) DEF ThreadDestroy, TypeOK, KernelTypes
  <2> QED BY <2>1, <2>2, <2>3, <2>4, SMTT(30) DEF TypeOK
<1>4. ASSUME NEW t \in Thread, ThreadDestroyBlocked(t) PROVE TypeOK'
  <2>1. tflags[t] \in SUBSET Flags /\ tflags[t] \ {"UNBLOCK_REQ"} \in SUBSET Flags
    BY Zenon DEF TypeOK, ThreadTypes
  <2>2. \/ force_ready_defer(t, TRUE)
        \/ force_ready_release(t, "DEAD", tflags[t] \ {"UNBLOCK_REQ"})
        \/ force_ready_release(t, "DEAD", tflags[t])
    BY <1>4, Zenon DEF ThreadDestroyBlocked
  <2>3. /\ ThreadTypes' /\ PartnerTypes' /\ ChanTypes' /\ ConnTypes'
        /\ owed' \subseteq Rcvid /\ told' \subseteq Rcvid
    BY <2>1, <2>2, DeferTypes, ReleaseTypes, Zenon
  <2>4. pst' = pst \/ pst' = ProcAfterDeath(t)
    BY <1>4, Zenon DEF ThreadDestroyBlocked
  <2>5. pst' \in [Proc -> {"LIVE", "DESTROYALL", "TERMING"}]
    BY <1>2, <2>4, Zenon DEF TypeOK, KernelTypes
  <2>6. UNCHANGED <<ker, leaked>>
    BY <1>4, Zenon DEF ThreadDestroyBlocked
  <2>7. KernelTypes'
    BY <2>3, <2>5, <2>6 DEF TypeOK, KernelTypes
  <2> QED BY <2>3, <2>7 DEF TypeOK
<1>5. ASSUME NEW p \in Proc, Exit(p) PROVE TypeOK'
  <2>1. ThreadTypes'
    BY <1>5 DEF Exit, TypeOK, ThreadTypes, Flags
  <2>2. PartnerTypes' /\ ChanTypes' /\ ConnTypes'
    BY <1>5, Frames, Zenon DEF Exit, chanVars, connVars, TypeOK
  <2>3. KernelTypes'
    BY <1>5, Zenon DEF Exit, TypeOK, KernelTypes
  <2> QED BY <2>1, <2>2, <2>3, ZenonT(40) DEF TypeOK
<1>6. ASSUME NEW p \in Proc, NEW f \in Coid, ConnectDetach(p, f) PROVE TypeOK'
  <2>1. ThreadTypes' /\ PartnerTypes' /\ ChanTypes' /\ ConnTypes'
    BY <1>6, Frames, Zenon DEF ConnectDetach, threadVars, chanVars, connVars, TypeOK
  <2>2. KernelTypes'
    BY <1>6, ZenonT(40) DEF ConnectDetach, TypeOK, KernelTypes
  <2> QED BY <2>1, <2>2 DEF TypeOK
<1>7. ASSUME NEW p \in Proc, NEW c \in Conn, ServerDetach(p, c) PROVE TypeOK'
  <2>1. owed' \subseteq Rcvid /\ told' \subseteq Rcvid
    BY <1>7, ZenonT(40) DEF ServerDetach, TypeOK, KernelTypes
  <2>2. ConnTypes'
    BY <1>7, Zenon DEF ServerDetach, TypeOK, ConnTypes
  <2> QED BY <1>7, <2>1, <2>2, Frames, Zenon DEF ServerDetach, threadVars, chanVars, TypeOK
<1>8. ASSUME NEW p \in Proc, NEW ch \in Chan, ChannelDestroy(p, ch) PROVE TypeOK'
  <2>1. ThreadTypes' /\ PartnerTypes' /\ ConnTypes'
    BY <1>8, Frames, Zenon DEF ChannelDestroy, threadVars, connVars, TypeOK
  <2>2. ChanTypes'
    BY <1>8, Zenon DEF ChannelDestroy, TypeOK, ChanTypes
  <2>3. KernelTypes'
    BY <1>8, ZenonT(40) DEF ChannelDestroy, TypeOK, KernelTypes
  <2> QED BY <2>1, <2>2, <2>3 DEF TypeOK
<1> QED BY <1>1, <1>3, <1>4, <1>5, <1>6, <1>7, <1>8, Zenon DEF LifeStep

\* The coid ConnectDetach works on has a link.
LEMMA DetachLink ==
    ASSUME Inv, ker.op = "detach"
    PROVE  /\ ker.slot \in Proc \X Coid
           /\ fd[ker.slot] \in Conn
           /\ links[fd[ker.slot]] \in Nat \ {0}
<1> DEFINE c == fd[ker.slot]
<1>1. ker.slot \in Proc \X Coid /\ c \in Conn
  BY DEF Inv, LongCallSafe, TypeOK, ConnTypes
<1>2. ker.slot \in Coids(c)
  BY <1>1, Zenon DEF Coids
<1>3. Cardinality(Coids(c)) \in Nat \ {0} /\ Cardinality(Waiters(c)) \in Nat
  BY <1>1, <1>2, FiniteLinks, FS_EmptySet, FS_CardinalityType, ZenonT(40)
<1>4. links[c] = Cardinality(Coids(c)) + Cardinality(Waiters(c))
  BY <1>1 DEF Inv, LinkCount
<1> QED BY <1>1, <1>3, <1>4, SMTT(30)

\* The types are preserved by the steps of the long calls.
LEMMA LongCallTypes ==
    ASSUME Inv, LongCallStep
    PROVE  TypeOK'
<1> USE DEF Inv
<1>1. ASSUME NEW t \in Thread, force_ready(t), UNCHANGED <<pst, leaked>>,
             \/ ker' = [ker EXCEPT !.todo = @ \ {t}]
             \/ ker' = [ker EXCEPT !.ran = TRUE]
      PROVE  TypeOK'
  <2>1. /\ ThreadTypes' /\ PartnerTypes' /\ ChanTypes' /\ ConnTypes'
        /\ owed' \subseteq Rcvid /\ told' \subseteq Rcvid
    BY <1>1, ForceReadyTypes
  <2>2. KernelTypes'
    BY <1>1, <2>1, ZenonT(40) DEF TypeOK, KernelTypes
  <2> QED BY <2>1, <2>2 DEF TypeOK
<1>2. ASSUME NEW t \in Thread, DetachThread(t) PROVE TypeOK'
  BY <1>1, <1>2 DEF DetachThread
<1>3. CASE DetachFinish
  <2> DEFINE c == fd[ker.slot]
  <2>1. ker.slot \in Proc \X Coid /\ c \in Conn /\ links[c] # 0
    BY <1>3, DetachLink, Zenon DEF DetachFinish
  <2>2. PICK o \in DetachPulse(c) :
            /\ Become(NONE, "RUN", {}, o.wake)
            /\ Unblocked({o.wake})
            /\ connect_detach(c, o, pulses)
    BY <1>3, Zenon DEF DetachFinish
  <2>3. pulses \in [Chan -> [PulseKind -> Nat]] /\ {} \in SUBSET Flags
    BY DEF TypeOK, ChanTypes
  <2>4. ThreadTypes'
    BY <2>2, <2>3, BecomeTypes, Zenon
  <2>5. /\ cproc' \in [Conn -> Proc \cup {NONE}]
        /\ cchan' \in [Conn -> Chan \cup {NONE}]
        /\ links' \in [Conn -> Nat]
        /\ recvq' \in [Chan -> SUBSET Thread]
        /\ pulses' \in [Chan -> [PulseKind -> Nat]]
    BY <2>1, <2>2, <2>3, DetachTypes, Zenon
  <2>6. ChanTypes'
    BY <1>3, <2>5, Zenon DEF DetachFinish, TypeOK, ChanTypes
  <2>7. fd' = [fd EXCEPT ![ker.slot] = NONE]
    BY <1>3, ZenonT(40) DEF DetachFinish
  <2>8. ConnTypes'
    BY <2>1, <2>5, <2>7 DEF TypeOK, ConnTypes
  <2>9. PartnerTypes'
    BY <1>3, Frames, Zenon DEF DetachFinish, TypeOK
  <2>10. KernelTypes'
    BY <1>3, Zenon DEF DetachFinish, TypeOK, KernelTypes, Idle
  <2> QED BY <2>4, <2>6, <2>8, <2>9, <2>10 DEF TypeOK
<1>4. CASE DestroySend
  <2>1. CASE \E t \in sendq[ker.chan] : force_ready(t)
    <3>1. PICK t \in Thread : force_ready(t)
      BY <1>4, <2>1, Zenon DEF DestroySend, LongCallSafe, TypeOK, ChanTypes
    <3> QED BY <1>1, <1>4, <3>1 DEF DestroySend
  <2>2. ASSUME NEW k \in PulseKind, pulses' = [pulses EXCEPT ![ker.chan][k] = 0],
               UNCHANGED <<threadVars, chst, sendq, recvq, replyq, connVars, owed, told>>
        PROVE  TypeOK'
    <3>1. pulses \in [Chan -> [PulseKind -> Nat]]
      BY DEF TypeOK, ChanTypes
    <3>2. pulses' \in [Chan -> [PulseKind -> Nat]]
      BY <2>2, <3>1, ZenonT(40)
    <3>3. ChanTypes'
      BY <2>2, <3>2 DEF TypeOK, ChanTypes
    <3>4. KernelTypes'
      BY <1>4, <2>2, Zenon DEF DestroySend, TypeOK, KernelTypes
    <3> QED BY <2>2, <3>3, <3>4, Frames, Zenon DEF threadVars, connVars, TypeOK
  <2> QED BY <1>4, <2>1, <2>2, Zenon DEF DestroySend
<1>5. CASE DestroyReceive
  <2>1. PICK t \in Thread : force_ready(t)
    BY <1>5 DEF DestroyReceive, LongCallSafe, TypeOK, ChanTypes
  <2> QED BY <1>1, <1>5, <2>1 DEF DestroyReceive
<1>6. CASE DestroyReceived \/ DestroyReplied \/ Preempt
  <2>1. ThreadTypes' /\ PartnerTypes' /\ ChanTypes' /\ ConnTypes'
    BY <1>6, Frames
       DEF DestroyReceived, DestroyReplied, Preempt, threadVars, chanVars, connVars, TypeOK
  <2>a. ASSUME DestroyReceived PROVE KernelTypes'
    BY <2>a DEF DestroyReceived, TypeOK, KernelTypes
  <2>b. ASSUME DestroyReplied PROVE KernelTypes'
    BY <2>b, ZenonT(40) DEF DestroyReplied, TypeOK, KernelTypes
  <2>c. ASSUME Preempt PROVE KernelTypes'
    BY <2>c DEF Preempt, Idle, TypeOK, KernelTypes
  <2>2. KernelTypes'
    BY <1>6, <2>a, <2>b, <2>c, Zenon
  <2> QED BY <2>1, <2>2, Zenon DEF TypeOK
<1>7. CASE DestroyReply
  <2>1. PICK t \in Thread : force_ready_release(t, "RUN", tflags[t])
    BY <1>7, Zenon DEF DestroyReply, LongCallSafe, TypeOK, ChanTypes
  <2>2. tflags[t] \in SUBSET Flags
    BY Zenon DEF TypeOK, ThreadTypes
  <2>3. /\ ThreadTypes' /\ PartnerTypes' /\ ChanTypes' /\ ConnTypes'
        /\ owed' \subseteq Rcvid /\ told' \subseteq Rcvid
    BY <2>1, <2>2, ReleaseTypes
  <2>4. KernelTypes'
    BY <1>7, <2>3, ZenonT(40) DEF DestroyReply, TypeOK, KernelTypes
  <2> QED BY <2>3, <2>4 DEF TypeOK
<1>8. ASSUME NEW c \in Conn, DestroyConn(c) PROVE TypeOK'
  <2>1. owed' \subseteq Rcvid /\ told' \subseteq Rcvid
    BY <1>8, ZenonT(40) DEF DestroyConn, TypeOK, KernelTypes
  <2>2. ConnTypes'
    BY <1>8, Zenon DEF DestroyConn, TypeOK, ConnTypes
  <2> QED BY <1>8, <2>1, <2>2, Frames, Zenon DEF DestroyConn, threadVars, chanVars, TypeOK
<1>9. CASE DestroyFree
  <2>1. ThreadTypes' /\ PartnerTypes' /\ ConnTypes'
    BY <1>9, Frames DEF DestroyFree, threadVars, connVars, TypeOK
  <2>2. ChanTypes'
    BY <1>9, Kinds, ZenonT(40) DEF DestroyFree, TypeOK, ChanTypes
  <2>3. leaked' \in BOOLEAN
    BY <1>9 DEF DestroyFree
  <2>4. KernelTypes'
    BY <1>9, <2>3, Zenon DEF DestroyFree, Idle, TypeOK, KernelTypes
  <2> QED BY <2>1, <2>2, <2>4, ZenonT(40) DEF TypeOK
<1> QED BY <1>2, <1>3, <1>4, <1>5, <1>6, <1>7, <1>8, <1>9, ZenonT(40) DEF LongCallStep

\* Every step preserves the types.
LEMMA TypeStep ==
    ASSUME Inv, Next
    PROVE  TypeOK'
<1>1. ASSUME ServerStep PROVE TypeOK'
  <2>1. PICK s \in Thread :
        \/ \E ch \in Chan :
             \/ MsgReceivePulse(s, ch) \/ MsgReceive(s, ch) \/ MsgReceiveDropSender(s, ch)
             \/ MsgReceiveFail(s, ch) \/ MsgReceiveBlock(s, ch, FALSE)
             \/ MsgReceiveBlock(s, ch, TRUE)
             \/ ChannelCreate(s, ch)
        \/ \E t \in Thread, c \in Conn :
             \/ MsgReply(s, t, c) \/ MsgReplyFault(s, t, c) \/ MsgReplyPreempted(s, t, c)
             \/ MsgReplyStale(s, t, c) \/ MsgError(s, t, c) \/ MsgCurrent(s, t, c)
        \/ MsgCurrentNone(s)
    BY <1>1, ZenonT(40) DEF ServerStep
  <2>2. CASE MsgCurrentNone(s)
    <3>1. PartnerTypes'
      BY <2>2, DropTypes, Zenon DEF Inv, MsgCurrentNone, PartnerTypes
    <3> QED BY <2>2, <3>1, Frames, ZenonT(40) DEF Inv, MsgCurrentNone, chanVars, connVars, TypeOK
  <2> QED BY <2>1, <2>2, ReceiveTypes, ReplyTypes, Zenon
<1> QED BY <1>1, ClientTypes, LifeTypes, LongCallTypes, Zenon DEF Next
-----------------------------------------------------------------------------
(***************************************************************************)
(* What the pieces the calls share do to the queues and the link counts:   *)
(* a thread leaves its queue, a link is gained or dropped, a pulse is      *)
(* delivered, force_ready.                                                 *)
(***************************************************************************)

\* QueuesMatch, seen from one thread.
InQueues(x) ==
    /\ state[x] \in {"SEND", "REPLY"} => blocked_on[x] \in Conn /\ ChanOf(x) # NONE
    /\ state[x] = "RECEIVE" => blocked_on[x] \in Chan
    /\ \A ch \in Chan :
         /\ x \in sendq[ch] <=> state[x] = "SEND" /\ ChanOf(x) = ch
         /\ x \in replyq[ch] <=> state[x] = "REPLY" /\ ChanOf(x) = ch
         /\ x \in recvq[ch] <=> state[x] = "RECEIVE" /\ blocked_on[x] = ch
\* A connected channel exists.
ChannelsThere == \A c \in Conn : cchan[c] # NONE => chst[cchan[c]] # "FREE"

\* QueuesMatch, thread by thread.
LEMMA QueuesByThread ==
    /\ QueuesMatch <=> (\A x \in Thread : InQueues(x)) /\ ChannelsThere
    /\ QueuesMatch' <=> (\A x \in Thread : InQueues(x)') /\ ChannelsThere'
BY Zenon DEF QueuesMatch, InQueues, ChannelsThere

\* A thread the step leaves alone, on a connection that keeps its channel, is
\* where it was.
LEMMA StaysPut ==
    ASSUME NEW x \in Thread, InQueues(x),
           state'[x] = state[x], blocked_on'[x] = blocked_on[x],
           state[x] \in {"SEND", "REPLY"} => cchan'[blocked_on[x]] = cchan[blocked_on[x]],
           \A ch \in Chan : /\ x \in sendq'[ch] <=> x \in sendq[ch]
                            /\ x \in replyq'[ch] <=> x \in replyq[ch]
                            /\ x \in recvq'[ch] <=> x \in recvq[ch]
    PROVE  InQueues(x)'
BY DEF InQueues, ChanOf

\* A thread that is ready or dead is in no queue.
LEMMA NotQueued ==
    ASSUME NEW x \in Thread, state'[x] \in {"RUN", "DEAD"},
           \A ch \in Chan : x \notin sendq'[ch] /\ x \notin replyq'[ch] /\ x \notin recvq'[ch]
    PROVE  InQueues(x)'
BY Zenon DEF InQueues, ChanOf

\* The threads L leave their queues; a connection loses its channel only when
\* nobody is left waiting on it.
LEMMA QueuesLeave ==
    ASSUME Inv, NEW L \in SUBSET Thread,
           \A x \in L : state'[x] \in {"RUN", "DEAD"},
           \A x \in Thread \ L : state'[x] = state[x] /\ blocked_on'[x] = blocked_on[x],
           \A ch \in Chan : /\ sendq'[ch] = sendq[ch] \ L
                            /\ replyq'[ch] = replyq[ch] \ L
                            /\ recvq'[ch] = recvq[ch] \ L,
           \A c \in Conn : cchan'[c] = cchan[c] \/ (cchan'[c] = NONE /\ Waiters(c)' = {}),
           chst' = chst
    PROVE  QueuesMatch'
<1>0. \A x \in Thread : InQueues(x)
  BY QueuesByThread, Zenon DEF Inv
<1>1. ASSUME NEW x \in L PROVE InQueues(x)'
  BY <1>1, NotQueued
<1>2. ASSUME NEW x \in Thread \ L PROVE InQueues(x)'
  <2>1. state[x] \in {"SEND", "REPLY"} => blocked_on[x] \in Conn /\ x \in Waiters(blocked_on[x])'
    BY <1>0, <1>2, Zenon DEF InQueues, Waiters
  <2>2. state[x] \in {"SEND", "REPLY"} => cchan'[blocked_on[x]] = cchan[blocked_on[x]]
    BY <2>1, Zenon
  <2>3. \A ch \in Chan : /\ x \in sendq'[ch] <=> x \in sendq[ch]
                         /\ x \in replyq'[ch] <=> x \in replyq[ch]
                         /\ x \in recvq'[ch] <=> x \in recvq[ch]
    BY <1>2, Zenon
  <2> QED BY <1>0, <1>2, <2>2, <2>3, StaysPut, Zenon
<1>3. ChannelsThere'
  BY QueuesByThread, Zenon DEF Inv, ChannelsThere
<1> QED BY <1>1, <1>2, <1>3, QueuesByThread, Zenon
-----------------------------------------------------------------------------
(***************************************************************************)
(* Link counts                                                             *)
(***************************************************************************)
\* Nothing that the link counts depend on changes.
LEMMA LinksSame ==
    ASSUME Inv, UNCHANGED <<cproc, links, fd>>, \A c \in Conn : Waiters(c)' = Waiters(c)
    PROVE  LinkCount'
<1>1. \A c \in Conn : Coids(c)' = Coids(c)
  BY Zenon DEF Coids
<1> QED BY <1>1, Zenon DEF Inv, LinkCount

\* One coid or one waiting thread leaves connection c, and its link goes.
LEMMA LinkDropped ==
    ASSUME Inv, NEW c \in Conn, NEW o, NEW pl, connect_detach(c, o, pl),
           \A d \in Conn \ {c} : Waiters(d)' = Waiters(d) /\ Coids(d)' = Coids(d),
           \/ \E t \in Waiters(c) : Waiters(c)' = Waiters(c) \ {t} /\ Coids(c)' = Coids(c)
           \/ \E s \in Coids(c) : Coids(c)' = Coids(c) \ {s} /\ Waiters(c)' = Waiters(c)
    PROVE  /\ LinkCount'
           /\ \A d \in Conn : cchan'[d] = cchan[d] \/ (cchan'[d] = NONE /\ Waiters(d)' = {})
<1> USE DEF Inv
<1> DEFINE n == Cardinality(Coids(c))
           m == Cardinality(Waiters(c))
           n1 == Cardinality(Coids(c)')
           m1 == Cardinality(Waiters(c)')
<1>1. IsFiniteSet(Coids(c)) /\ IsFiniteSet(Waiters(c)) /\ n \in Nat /\ m \in Nat
  BY FiniteLinks, FS_CardinalityType, Zenon
<1>2. links[c] = n + m /\ links[c] \in Nat
  BY <1>1 DEF LinkCount
<1>3. /\ IsFiniteSet(Waiters(c)') /\ n1 \in Nat /\ m1 \in Nat
      /\ n1 + m1 = links[c] - 1
  <2>1. CASE \E t \in Waiters(c) : Waiters(c)' = Waiters(c) \ {t} /\ Coids(c)' = Coids(c)
    <3>1. PICK t \in Waiters(c) : Waiters(c)' = Waiters(c) \ {t}
      BY <2>1, Zenon
    <3>2. IsFiniteSet(Waiters(c)') /\ m1 = m - 1 /\ n1 = n
      BY <1>1, <2>1, <3>1, FS_RemoveElement, SMTT(30)
    <3>3. m1 \in Nat
      BY <3>2, FS_CardinalityType, Zenon
    <3> QED BY <1>1, <1>2, <3>2, <3>3
  <2>2. CASE \E s \in Coids(c) : Coids(c)' = Coids(c) \ {s} /\ Waiters(c)' = Waiters(c)
    <3>1. PICK s \in Coids(c) : Coids(c)' = Coids(c) \ {s}
      BY <2>2, Zenon
    <3>2. IsFiniteSet(Coids(c)') /\ n1 = n - 1 /\ m1 = m /\ IsFiniteSet(Waiters(c)')
      BY <1>1, <2>2, <3>1, FS_RemoveElement, SMTT(30)
    <3>3. n1 \in Nat
      BY <3>2, FS_CardinalityType, Zenon
    <3> QED BY <1>1, <1>2, <3>2, <3>3, SMTT(30)
  <2> QED BY <2>1, <2>2, Zenon
<1>4. /\ links' = [links EXCEPT ![c] = links[c] - 1]
      /\ cproc' = [cproc EXCEPT ![c] = IF links[c] = 1 THEN NONE ELSE cproc[c]]
      /\ cchan' = [cchan EXCEPT ![c] = IF links[c] = 1 /\ ~WantsDisconnect(c) THEN NONE ELSE cchan[c]]
  BY DEF connect_detach
<1>5. /\ links \in [Conn -> Nat] /\ cproc \in [Conn -> Proc \cup {NONE}]
      /\ cchan \in [Conn -> Chan \cup {NONE}]
  BY Zenon DEF TypeOK, ConnTypes
<1>6. links'[c] = n1 + m1 /\ (links'[c] > 0 => cproc'[c] # NONE)
  BY <1>2, <1>3, <1>4, <1>5, SMTT(30) DEF LinkCount
<1>7. LinkCount'
  <2>1. ASSUME NEW d \in Conn \ {c}
        PROVE  links'[d] = links[d] /\ cproc'[d] = cproc[d]
    BY <1>4, <1>5, Zenon
  <2> QED BY <1>6, <2>1, Zenon DEF LinkCount
<1>8. links[c] = 1 => Waiters(c)' = {}
  <2>1. links[c] = 1 => m1 = 0
    BY <1>3
  <2> QED BY <1>3, <2>1, FS_EmptySet, Zenon
<1> QED BY <1>4, <1>5, <1>7, <1>8, Zenon

\* One coid or one waiting thread joins connection c, and so does a link.
LEMMA LinkGained ==
    ASSUME Inv, NEW c \in Conn, links' = [links EXCEPT ![c] = @ + 1],
           cproc'[c] # NONE, \A d \in Conn \ {c} : cproc'[d] = cproc[d],
           \A d \in Conn \ {c} : Waiters(d)' = Waiters(d) /\ Coids(d)' = Coids(d),
           \/ \E t : t \notin Waiters(c) /\ Waiters(c)' = Waiters(c) \cup {t} /\ Coids(c)' = Coids(c)
           \/ \E s : s \notin Coids(c) /\ Coids(c)' = Coids(c) \cup {s} /\ Waiters(c)' = Waiters(c)
    PROVE  LinkCount'
<1> USE DEF Inv
<1> DEFINE n == Cardinality(Coids(c))
           m == Cardinality(Waiters(c))
           n1 == Cardinality(Coids(c)')
           m1 == Cardinality(Waiters(c)')
<1>1. IsFiniteSet(Coids(c)) /\ IsFiniteSet(Waiters(c)) /\ n \in Nat /\ m \in Nat
  BY FiniteLinks, FS_CardinalityType, Zenon
<1>2. links[c] = n + m
  BY DEF LinkCount
<1>3. n1 + m1 = links[c] + 1
  <2>1. ASSUME NEW t, t \notin Waiters(c), Waiters(c)' = Waiters(c) \cup {t}, Coids(c)' = Coids(c)
        PROVE  n1 + m1 = links[c] + 1
    <3>1. m1 = m + 1 /\ n1 = n
      BY <1>1, <2>1, FS_AddElement, Zenon
    <3> QED BY <1>1, <1>2, <3>1, SMTT(30)
  <2>2. ASSUME NEW s, s \notin Coids(c), Coids(c)' = Coids(c) \cup {s}, Waiters(c)' = Waiters(c)
        PROVE  n1 + m1 = links[c] + 1
    <3>1. n1 = n + 1 /\ m1 = m
      BY <1>1, <2>2, FS_AddElement, Zenon
    <3> QED BY <1>1, <1>2, <3>1
  <2> QED BY <2>1, <2>2, Zenon
<1>4. links \in [Conn -> Nat]
  BY Zenon DEF TypeOK, ConnTypes
<1>5. links'[c] = n1 + m1
  BY <1>3, <1>4, Zenon
<1>6. ASSUME NEW d \in Conn \ {c} PROVE links'[d] = links[d]
  BY <1>4
<1> QED BY <1>5, <1>6 DEF LinkCount
-----------------------------------------------------------------------------
(***************************************************************************)
(* Leaving a queue, and waking a receiver                                  *)
(***************************************************************************)
\* What connects a step to a long call in progress: queues only shrink, coids
\* and channels stay, and blocked threads other than t stay blocked.
Shrinks(t) ==
    /\ chst' = chst /\ fd' = fd
    /\ \A ch \in Chan : /\ sendq'[ch] \subseteq sendq[ch]
                        /\ replyq'[ch] \subseteq replyq[ch]
                        /\ recvq'[ch] \subseteq recvq[ch]
    /\ \A x \in Thread \ {t} : state[x] \in {"SEND", "REPLY"} => state'[x] = state[x]

\* Thread t leaves connection c, which loses a link; a receiver may be woken by
\* the disconnect pulse.
LEMMA LeavesConnection ==
    ASSUME Inv, NEW t \in Thread, state[t] \in {"SEND", "REPLY"}, NEW c, c = blocked_on[t],
           NEW st \in {"RUN", "DEAD"}, NEW fl, NEW o \in DetachPulse(c), NEW pl,
           Become(t, st, fl, o.wake), Unblocked({t, o.wake}), connect_detach(c, o, pl),
           \A ch \in Chan : sendq'[ch] = sendq[ch] \ {t} /\ replyq'[ch] = replyq[ch] \ {t},
           UNCHANGED <<chst, fd>>
    PROVE  /\ QueuesMatch' /\ LinkCount' /\ Shrinks(t)
           /\ \A x \in Thread : state'[x] = "RECEIVE" => state[x] = "RECEIVE"
<1> USE DEF Inv
<1> DEFINE w == o.wake
           L == {t, w} \ {NONE}
<1>1. c \in Conn /\ cchan[c] \in Chan /\ t \in Waiters(c)
  BY BlockedOn, Zenon DEF Waiters
<1>2. w = NONE \/ (WantsDisconnect(c) /\ w \in recvq[cchan[c]])
  BY <1>1, DetachDelivery, Zenon
<1>3. w # NONE => w \in Thread /\ state[w] = "RECEIVE" /\ blocked_on[w] = cchan[c]
  BY <1>1, <1>2, Zenon DEF TypeOK, ChanTypes, QueuesMatch
<1>4. L \in SUBSET Thread /\ t \in L
  BY <1>3, IpcAssumption, Zenon
<1>5. \A x \in L : state'[x] \in {"RUN", "DEAD"}
  BY <1>4, Zenon DEF Become
<1>6. \A x \in Thread \ L : state'[x] = state[x] /\ blocked_on'[x] = blocked_on[x]
  BY IpcAssumption, Zenon DEF Become, Unblocked
<1>7. ASSUME NEW ch \in Chan
      PROVE  /\ recvq'[ch] = recvq[ch] \ L
             /\ sendq'[ch] = sendq[ch] \ L
             /\ replyq'[ch] = replyq[ch] \ L
  <2>1. NONE \notin recvq[ch] /\ NONE \notin sendq[ch] /\ NONE \notin replyq[ch]
    BY IpcAssumption, Zenon DEF TypeOK, ChanTypes
  <2>2. t \notin recvq[ch]
    BY Zenon DEF QueuesMatch
  <2>3. w # NONE => w \notin sendq[ch] /\ w \notin replyq[ch]
    BY <1>3, Zenon DEF QueuesMatch
  <2>4. w # NONE /\ ch # cchan[c] => w \notin recvq[ch]
    BY <1>3, Zenon DEF QueuesMatch
  <2>5. recvq \in [Chan -> SUBSET Thread]
    BY DEF TypeOK, ChanTypes
  <2>6. CASE w = NONE
    <3>1. recvq' = recvq \/ recvq' = [recvq EXCEPT ![cchan[c]] = recvq[cchan[c]] \ {w}]
      BY Zenon DEF connect_detach, RecvqAfter
    <3>2. recvq[ch] \ {w} = recvq[ch]
      BY <2>1, <2>6, Zenon
    <3>3. recvq'[ch] = recvq[ch]
      BY <2>5, <3>1, <3>2, Zenon
    <3> QED BY <2>1, <2>2, <2>6, <3>3, ZenonT(40)
  <2>7. CASE w # NONE
    <3>1. recvq' = [recvq EXCEPT ![cchan[c]] = @ \ {w}]
      BY <1>2, <2>7, Zenon DEF connect_detach, RecvqAfter
    <3>2. recvq'[ch] = recvq[ch] \ {w}
      BY <1>1, <2>4, <2>5, <2>7, <3>1, Zenon
    <3> QED BY <2>1, <2>2, <2>3, <2>7, <3>2
  <2> QED BY <2>6, <2>7, Zenon
<1>a. ASSUME NEW x \in Thread, NEW d
      PROVE  state'[x] \in {"SEND", "REPLY"} /\ blocked_on'[x] = d
               <=> x # t /\ state[x] \in {"SEND", "REPLY"} /\ blocked_on[x] = d
  <2>1. CASE x = t
    BY <1>4, <1>5, <2>1, Zenon
  <2>2. CASE x = w
    BY <1>3, <1>5, <2>2, IpcAssumption, Zenon
  <2>3. CASE x # t /\ x # w
    BY <1>6, <2>3, Zenon
  <2> QED BY <2>1, <2>2, <2>3, Zenon
<1>b. \A d : Waiters(d)' = Waiters(d) \ {t}
  BY <1>a, Zenon DEF Waiters
<1>c. \A d : Coids(d)' = Coids(d)
  BY Zenon DEF Coids
<1>8. Waiters(c)' = Waiters(c) \ {t} /\ Coids(c)' = Coids(c)
  BY <1>b, <1>c, Zenon
<1>9. \A d \in Conn \ {c} : Waiters(d)' = Waiters(d) /\ Coids(d)' = Coids(d)
  <2>1. \A d \in Conn \ {c} : t \notin Waiters(d)
    BY Zenon DEF Waiters
  <2> QED BY <1>b, <1>c, <2>1, Zenon
<1>10. /\ LinkCount'
       /\ \A d \in Conn : cchan'[d] = cchan[d] \/ (cchan'[d] = NONE /\ Waiters(d)' = {})
  BY <1>1, <1>8, <1>9, LinkDropped, Zenon
<1>11. QueuesMatch'
  BY <1>4, <1>5, <1>6, <1>7, <1>10, QueuesLeave, Zenon
<1>12. \A x \in Thread \ {t} : state[x] \in {"SEND", "REPLY"} => state'[x] = state[x]
  BY <1>3, <1>6, Zenon
<1>13. Shrinks(t)
  BY <1>7, <1>12, Zenon DEF Shrinks
<1>14. \A x \in Thread : state'[x] = "RECEIVE" => state[x] = "RECEIVE"
  BY <1>5, <1>6, Zenon
<1> QED BY <1>10, <1>11, <1>13, <1>14, Zenon

\* Taking a blocked thread off the queue of its own channel takes it off all.
LEMMA OffQueues ==
    ASSUME Inv, NEW t \in Thread, state[t] \in {"SEND", "REPLY"}
    PROVE  /\ \A ch \in Chan : [sendq EXCEPT ![ChanOf(t)] = @ \ {t}][ch] = sendq[ch] \ {t}
           /\ \A ch \in Chan : [replyq EXCEPT ![ChanOf(t)] = @ \ {t}][ch] = replyq[ch] \ {t}
           /\ state[t] = "REPLY" => \A ch \in Chan : sendq[ch] = sendq[ch] \ {t}
<1>1. \A ch \in Chan : ch # ChanOf(t) => t \notin sendq[ch] /\ t \notin replyq[ch]
  BY DEF Inv, QueuesMatch
<1>2. sendq \in [Chan -> SUBSET Thread] /\ replyq \in [Chan -> SUBSET Thread]
  BY Zenon DEF Inv, TypeOK, ChanTypes
<1>3. state[t] = "REPLY" => \A ch \in Chan : t \notin sendq[ch]
  BY ZenonT(40) DEF Inv, QueuesMatch
<1> QED BY <1>1, <1>2, <1>3, ZenonT(40)

\* force_ready releases a thread.
LEMMA ReleaseEffect ==
    ASSUME Inv, NEW t \in Thread, NEW st \in {"RUN", "DEAD"}, NEW fl,
           force_ready_release(t, st, fl)
    PROVE  QueuesMatch' /\ LinkCount' /\ ServerHasClient' /\ Shrinks(t)
<1> USE DEF Inv
<1>1. CASE state[t] = "RECEIVE"
  <2>1. /\ Become(t, st, fl \ {"RCVPULSE"}, NONE)
        /\ Unblocked({t})
        /\ recvq' = [recvq EXCEPT ![blocked_on[t]] = @ \ {t}]
        /\ UNCHANGED <<sendq, replyq, pulses, cproc, cchan, links, owed, told, chst, fd>>
        /\ ReleaseLinks(t, st)
    BY <1>1, Zenon DEF force_ready_release
  <2>2. /\ state'[t] = st
        /\ \A x \in Thread \ {t} : state'[x] = state[x] /\ blocked_on'[x] = blocked_on[x]
    BY <2>1, IpcAssumption, ZenonT(40) DEF Become, Unblocked
  <2>3. \A ch \in Chan : /\ recvq'[ch] = recvq[ch] \ {t}
                         /\ t \notin sendq[ch] /\ t \notin replyq[ch]
    <3>1. recvq \in [Chan -> SUBSET Thread]
      BY Zenon DEF TypeOK, ChanTypes
    <3>2. \A ch \in Chan : /\ ch # blocked_on[t] => t \notin recvq[ch]
                           /\ t \notin sendq[ch] /\ t \notin replyq[ch]
      BY <1>1, Zenon DEF QueuesMatch
    <3> QED BY <2>1, <3>1, <3>2, Zenon
  <2>4. QueuesMatch'
    <3>1. \A ch \in Chan : /\ recvq'[ch] = recvq[ch] \ {t}
                           /\ sendq'[ch] = sendq[ch] \ {t}
                           /\ replyq'[ch] = replyq[ch] \ {t}
      BY <2>1, <2>3, Zenon
    <3> QED BY <2>1, <2>2, <3>1, QueuesLeave, {t} \in SUBSET Thread, Zenon
  <2>5. \A c \in Conn : Waiters(c)' = Waiters(c)
    BY <1>1, <2>2, Zenon DEF Waiters
  <2>6. LinkCount'
    BY <2>1, <2>5, LinksSame, Zenon
  <2>7. client[t] = NONE
    BY <1>1, Zenon DEF ServerHasClient
  <2>8. client' = client /\ server' = server
    BY <1>1, <2>1, <2>7, Zenon DEF ReleaseLinks, TypeOK, PartnerTypes
  <2>9. ServerHasClient'
    BY <2>2, <2>8, Zenon DEF ServerHasClient
  <2>10. Shrinks(t)
    BY <2>1, <2>2, <2>3, Zenon DEF Shrinks
  <2> QED BY <2>4, <2>6, <2>9, <2>10, ZenonT(40)
<1>2. CASE state[t] \in {"SEND", "REPLY"}
  <2>1. PICK o \in DetachPulse(blocked_on[t]) :
            /\ Become(t, st, fl, o.wake)
            /\ Unblocked({t, o.wake})
            /\ connect_detach(blocked_on[t], o, pulses)
    BY <1>2, Zenon DEF force_ready_release
  <2>2. /\ sendq' = [sendq EXCEPT ![ChanOf(t)] = @ \ {t}]
        /\ replyq' = [replyq EXCEPT ![ChanOf(t)] = @ \ {t}]
        /\ UNCHANGED <<chst, fd>>
        /\ ReleaseLinks(t, st)
    BY <1>2, Zenon DEF force_ready_release
  <2>3. \A ch \in Chan : sendq'[ch] = sendq[ch] \ {t} /\ replyq'[ch] = replyq[ch] \ {t}
    BY <1>2, <2>2, OffQueues, ZenonT(40)
  <2>4. /\ QueuesMatch' /\ LinkCount' /\ Shrinks(t)
        /\ \A x \in Thread : state'[x] = "RECEIVE" => state[x] = "RECEIVE"
    BY <1>2, <2>1, <2>2, <2>3, LeavesConnection, Zenon
  <2>5. /\ server \in [Thread -> Thread \cup {NONE}] /\ client \in [Thread -> Thread \cup {NONE}]
        /\ NONE \notin Thread
    BY IpcAssumption, Zenon DEF TypeOK, PartnerTypes
  <2> DEFINE cl == IF state[t] = "REPLY" THEN ClientWithout(t) ELSE client
             sv == IF state[t] = "REPLY" THEN [server EXCEPT ![t] = NONE] ELSE server
  <2>6. /\ client' = IF st = "DEAD" THEN [cl EXCEPT ![t] = NONE] ELSE cl
        /\ server' = IF st = "DEAD" /\ cl[t] # NONE THEN [sv EXCEPT ![cl[t]] = NONE] ELSE sv
    BY <2>2, Zenon DEF ReleaseLinks
  <2>7. /\ cl \in [Thread -> Thread \cup {NONE}] /\ sv \in [Thread -> Thread \cup {NONE}]
        /\ \A x \in Thread : cl[x] = client[x] \/ cl[x] = NONE
        /\ \A x \in Thread : sv[x] # NONE => cl[sv[x]] = x
    BY <2>5, Zenon DEF ClientWithout, ServerHasClient
  <2> HIDE DEF cl, sv
  <2>8. \A x \in Thread : server'[x] # NONE => client'[server'[x]] = x
    BY <2>5, <2>6, <2>7, Zenon
  <2>9. \A x \in Thread : client'[x] = client[x] \/ client'[x] = NONE
    BY <2>5, <2>6, <2>7, Zenon
  <2>10. ServerHasClient'
    BY <2>4, <2>8, <2>9, Zenon DEF ServerHasClient
  <2> QED BY <2>4, <2>10, Zenon
<1> QED BY <1>1, <1>2, Zenon DEF force_ready_release

\* A pulse is delivered to channel ch: at most a receiver of ch is woken.
LEMMA PulseEffect ==
    ASSUME Inv, NEW ch \in Chan, NEW o \in pulse_deliver(ch),
           \A x \in Thread : state'[x] = IF x = o.wake THEN "RUN" ELSE state[x],
           Unblocked({o.wake}), recvq' = RecvqAfter(ch, o),
           UNCHANGED <<chst, sendq, replyq, server, client, cproc, cchan, links, fd>>
    PROVE  /\ QueuesMatch' /\ LinkCount' /\ ServerHasClient'
           /\ \A t : Shrinks(t)
<1> USE DEF Inv
<1> DEFINE w == o.wake
           L == {w} \ {NONE}
<1>1. w = NONE \/ w \in recvq[ch]
  BY Delivery, Zenon
<1>2. w # NONE => w \in Thread /\ state[w] = "RECEIVE" /\ blocked_on[w] = ch
  BY <1>1, ZenonT(40) DEF TypeOK, ChanTypes, QueuesMatch
<1>3. L \in SUBSET Thread
  BY <1>2, Zenon
<1>4. /\ \A x \in L : state'[x] \in {"RUN", "DEAD"}
      /\ \A x \in Thread \ L : state'[x] = state[x] /\ blocked_on'[x] = blocked_on[x]
  BY <1>2, IpcAssumption, Zenon DEF Unblocked
<1>5. ASSUME NEW k \in Chan
      PROVE  sendq'[k] = sendq[k] \ L /\ replyq'[k] = replyq[k] \ L /\ recvq'[k] = recvq[k] \ L
  <2>1. w # NONE => w \notin sendq[k] /\ w \notin replyq[k] /\ (k # ch => w \notin recvq[k])
    BY <1>2, Zenon DEF QueuesMatch
  <2>2. recvq \in [Chan -> SUBSET Thread] /\ NONE \notin recvq[k]
    BY IpcAssumption, Zenon DEF TypeOK, ChanTypes
  <2>3. recvq'[k] = IF k = ch THEN recvq[k] \ {w} ELSE recvq[k]
    BY <2>2, Zenon DEF RecvqAfter
  <2> QED BY <2>1, <2>2, <2>3, Zenon
<1>6. QueuesMatch'
  <2>1. \A c \in Conn : cchan'[c] = cchan[c]
    OBVIOUS
  <2> HIDE DEF L
  <2> QED BY <1>3, <1>4, <1>5, <2>1, QueuesLeave, Zenon
<1>7. \A c \in Conn : Waiters(c)' = Waiters(c)
  BY <1>2, <1>4, ZenonT(40) DEF Waiters
<1>8. LinkCount'
  <2>1. UNCHANGED <<cproc, links, fd>>
    BY Zenon
  <2> QED BY <1>7, <2>1, LinksSame, Zenon
<1>9. ServerHasClient'
  BY Zenon DEF ServerHasClient
<1>a. \A k \in Chan : /\ sendq'[k] \subseteq sendq[k]
                     /\ replyq'[k] \subseteq replyq[k]
                     /\ recvq'[k] \subseteq recvq[k]
  <2> HIDE DEF L
  <2> QED BY <1>5, ZenonT(40)
<1>b. \A x \in Thread : state[x] \in {"SEND", "REPLY"} => state'[x] = state[x]
  BY <1>2, IpcAssumption, ZenonT(40)
<1>10. ASSUME NEW t PROVE Shrinks(t)
  BY <1>a, <1>b, Zenon DEF Shrinks
<1> QED BY <1>6, <1>8, <1>9, <1>10, ZenonT(40)

\* Nothing moves: no thread, queue, link or coid changes.
LEMMA NothingMoves ==
    ASSUME Inv,
           UNCHANGED <<state, blocked_on, chst, sendq, recvq, replyq, cproc, cchan, links, fd>>
    PROVE  QueuesMatch' /\ LinkCount' /\ \A t : Shrinks(t)
<1> USE DEF Inv
<1>1. QueuesMatch'
  BY Zenon DEF QueuesMatch, ChanOf
<1>2. \A c \in Conn : Waiters(c)' = Waiters(c)
  BY DEF Waiters
<1>3. LinkCount'
  BY <1>2, LinksSame, ZenonT(40)
<1> QED BY <1>1, <1>3, ZenonT(40) DEF Shrinks

\* force_ready defers the wake-up: t stays reply blocked.
LEMMA DeferEffect ==
    ASSUME Inv, NEW t \in Thread, NEW kill, force_ready_defer(t, kill)
    PROVE  QueuesMatch' /\ LinkCount' /\ ServerHasClient' /\ Shrinks(t) /\ state'[t] = "REPLY"
<1> USE DEF Inv
<1>0. /\ UNCHANGED <<server, client, chst, sendq, replyq, cproc, cchan, links, fd>>
      /\ state[t] = "REPLY" /\ ChanOf(t) \in Chan
  <2>1. state[t] = "REPLY"
    BY Zenon DEF force_ready_defer, unblock_needed
  <2> QED BY <2>1, BlockedOn, Zenon DEF force_ready_defer
<1>1. CASE UNCHANGED <<state, blocked_on, coid, pulses, recvq, told>>
  BY <1>0, <1>1, NothingMoves, ZenonT(40) DEF ServerHasClient
<1>2. ASSUME NEW fl, NEW o \in pulse_deliver(ChanOf(t)), Become(t, "REPLY", fl, o.wake),
             Unblocked({o.wake}), recvq' = RecvqAfter(ChanOf(t), o)
      PROVE  QueuesMatch' /\ LinkCount' /\ ServerHasClient' /\ Shrinks(t) /\ state'[t] = "REPLY"
  <2>1. o.wake # t
    <3>1. o.wake = NONE \/ o.wake \in recvq[ChanOf(t)]
      BY <1>0, <1>2, Delivery, Zenon
    <3>2. t # NONE
      BY IpcAssumption, Zenon
    <3>3. t \notin recvq[ChanOf(t)]
      <4>1. t \in recvq[ChanOf(t)] => state[t] = "RECEIVE"
        BY <1>0, Zenon DEF QueuesMatch
      <4> QED BY <1>0, <4>1, Zenon
    <3> QED BY <3>1, <3>2, <3>3, Zenon
  <2>2. \A x \in Thread : state'[x] = IF x = o.wake THEN "RUN" ELSE state[x]
    BY <1>0, <1>2, <2>1, Zenon DEF Become
  <2> QED BY <1>0, <1>2, <2>1, <2>2, PulseEffect, ZenonT(40)
<1> QED BY <1>1, <1>2, Zenon DEF force_ready_defer

\* So force_ready keeps the invariants, and lets a long call go on.
LEMMA ForceReadyEffect ==
    ASSUME Inv, NEW t \in Thread, force_ready(t)
    PROVE  QueuesMatch' /\ LinkCount' /\ ServerHasClient' /\ Shrinks(t)
BY DeferEffect, ReleaseEffect, Zenon DEF force_ready

\* A reply takes the sender off the reply queue.
LEMMA RepliedEffect ==
    ASSUME Inv, NEW s \in Thread, NEW t \in Thread, NEW c \in Conn, lookup_rcvid(s, t, c),
           NEW fl, Replied(t, c, fl)
    PROVE  /\ QueuesMatch' /\ LinkCount'
           /\ \A x \in Thread : state'[x] = "RECEIVE" => state[x] = "RECEIVE"
<1>1. state[t] = "REPLY" /\ blocked_on[t] = c /\ ChanOf(t) = cchan[c]
  BY LookupBlocked, ZenonT(40)
<1>2. PICK o \in DetachPulse(c) :
            /\ Become(t, "RUN", fl, o.wake)
            /\ Unblocked({t, o.wake})
            /\ connect_detach(c, o, remove_unblock(t, c))
  BY Zenon DEF Replied
<1>3. /\ replyq' = [replyq EXCEPT ![ChanOf(t)] = @ \ {t}]
      /\ UNCHANGED <<sendq, chst, fd>>
  BY <1>1 DEF Replied
<1>4. \A ch \in Chan : sendq'[ch] = sendq[ch] \ {t} /\ replyq'[ch] = replyq[ch] \ {t}
  BY <1>1, <1>3, OffQueues, ZenonT(40)
<1> QED BY <1>1, <1>2, <1>3, <1>4, LeavesConnection, Zenon
-----------------------------------------------------------------------------
(***************************************************************************)
(* Client and server links                                                 *)
(***************************************************************************)
\* Server s drops its client.
LEMMA DropEffect ==
    ASSUME Inv, NEW s \in Thread, server' = ServerWithout(s), client' = [client EXCEPT ![s] = NONE],
           \A x \in Thread \ {s} : state'[x] = "RECEIVE" => state[x] = "RECEIVE"
    PROVE  ServerHasClient'
BY IpcAssumption, ZenonT(40) DEF Inv, ServerHasClient, ServerWithout, TypeOK, PartnerTypes

\* Client t and its server part.
LEMMA PartEffect ==
    ASSUME Inv, NEW t \in Thread, client' = ClientWithout(t), server' = [server EXCEPT ![t] = NONE],
           \A x \in Thread : state'[x] = "RECEIVE" => state[x] = "RECEIVE"
    PROVE  ServerHasClient'
BY IpcAssumption DEF Inv, ServerHasClient, ClientWithout, TypeOK, PartnerTypes
=============================================================================
