-------------------------- MODULE IpcUnblockProofs --------------------------
(***************************************************************************)
(* What Ipc promises servers: the client of a server waits for it, a       *)
(* client of an UNBLOCK channel does not leave behind the server's back,   *)
(* and one that was asked to leave has been announced.                     *)
(*                                                                         *)
(* A step moves one thread at most, apart from a receiver that it wakes;   *)
(* what it does to the others is said once (Bystander).                    *)
(***************************************************************************)
EXTENDS IpcProofs

\* The thread was asked to leave.
Asked(x) == "UNBLOCK_REQ" \in tflags[x] \/ "UNBLOCK_QUEUED" \in tflags[x]

\* A step moves thread t; any other stays as it is or is a receiver that wakes.
Bystander(x) ==
    /\ Asked(x)' <=> Asked(x)
    /\ "UNBLOCK_QUEUED" \in tflags'[x] => "UNBLOCK_QUEUED" \in tflags[x]
    /\ \/ state'[x] = state[x] /\ blocked_on'[x] = blocked_on[x]
       \/ state[x] = "RECEIVE" /\ state'[x] = "RUN"
Only(t) == \A x \in Thread \ {t} : Bystander(x)

\* Become moves its thread and the receiver it wakes.
LEMMA BecomeOnly ==
    ASSUME NEW t, NEW st, NEW fl, NEW w, w = NONE \/ state[w] = "RECEIVE",
           Become(t, st, fl, w), Unblocked({w}) \/ Unblocked({t, w})
    PROVE  Only(t)
<1>1. SUFFICES ASSUME NEW x \in Thread \ {t} PROVE Bystander(x)
  BY DEF Only
<1>2. CASE x = w
  <2>1. x # NONE
    BY IpcAssumption
  <2> QED BY <1>2, <2>1 DEF Become, Bystander, Asked
<1>3. CASE x # w
  BY <1>3 DEF Become, Unblocked, Bystander, Asked
<1> QED BY <1>2, <1>3

\* The thread that a pulse wakes is a receiver.
LEMMA WokenReceiver ==
    ASSUME Inv, NEW ch \in Chan, NEW o \in pulse_deliver(ch)
    PROVE  o.wake = NONE \/ state[o.wake] = "RECEIVE"
<1>1. o.wake = NONE \/ o.wake \in recvq[ch]
  BY Delivery DEF Inv
<1>2. \A x \in Thread : x \in recvq[ch] => state[x] = "RECEIVE"
  BY DEF Inv, QueuesMatch
<1>3. recvq[ch] \subseteq Thread
  BY DEF Inv, TypeOK, ChanTypes
<1> QED BY <1>1, <1>2, <1>3

\* So is the one that a disconnect pulse wakes.
LEMMA DetachedReceiver ==
    ASSUME Inv, NEW c \in Conn, NEW o \in DetachPulse(c)
    PROVE  o.wake = NONE \/ state[o.wake] = "RECEIVE"
<1>1. o.wake = NONE \/ (cchan[c] \in Chan /\ o.wake \in recvq[cchan[c]])
  BY DetachDelivery DEF Inv
<1>2. \A ch \in Chan : \A x \in Thread : x \in recvq[ch] => state[x] = "RECEIVE"
  BY DEF Inv, QueuesMatch
<1>3. \A ch \in Chan : recvq[ch] \subseteq Thread
  BY DEF Inv, TypeOK, ChanTypes
<1> QED BY <1>1, <1>2, <1>3

\* force_ready releases t ...
LEMMA ReleaseOnly ==
    ASSUME Inv, NEW t \in Thread, NEW st, NEW fl, force_ready_release(t, st, fl)
    PROVE  /\ Only(t) /\ state'[t] = st /\ (tflags'[t] = fl \/ tflags'[t] = fl \ {"RCVPULSE"})
           /\ state[t] \in {"SEND", "REPLY", "RECEIVE"}
<1>1. CASE state[t] = "RECEIVE"
  <2>1. Become(t, st, fl \ {"RCVPULSE"}, NONE) /\ Unblocked({t})
    BY <1>1 DEF force_ready_release
  <2>2. Unblocked({t, NONE})
    BY <2>1, IpcAssumption DEF Unblocked
  <2>3. Only(t)
    BY <2>1, <2>2, BecomeOnly, Zenon
  <2> QED BY <1>1, <2>1, <2>3 DEF Become
<1>2. CASE state[t] \in {"SEND", "REPLY"}
  <2>1. PICK o \in DetachPulse(blocked_on[t]) : Become(t, st, fl, o.wake) /\ Unblocked({t, o.wake})
    BY <1>2 DEF force_ready_release
  <2>2. blocked_on[t] \in Conn
    BY <1>2, BlockedOn
  <2>3. Only(t)
    BY <2>1, <2>2, DetachedReceiver, BecomeOnly, Zenon
  <2> QED BY <1>2, <2>1, <2>3 DEF Become
<1> QED BY <1>1, <1>2 DEF force_ready_release

\* ... or leaves it reply blocked, ...
LEMMA DeferOnly ==
    ASSUME Inv, NEW t \in Thread, NEW kill, force_ready_defer(t, kill)
    PROVE  /\ Only(t) /\ state[t] = "REPLY" /\ state'[t] = "REPLY" /\ blocked_on'[t] = blocked_on[t]
           /\ tflags'[t] = tflags[t] \cup {"UNBLOCK_REQ", "UNBLOCK_QUEUED"} \cup (IF kill THEN {"KILLSELF"} ELSE {})
<1> DEFINE fl == tflags[t] \cup {"UNBLOCK_REQ", "UNBLOCK_QUEUED"} \cup (IF kill THEN {"KILLSELF"} ELSE {})
<1>1. state[t] = "REPLY" /\ ChanOf(t) \in Chan
  <2>1. state[t] = "REPLY"
    BY DEF force_ready_defer, unblock_needed
  <2> QED BY <2>1, BlockedOn
<1>2. CASE /\ tflags' = [tflags EXCEPT ![t] = fl]
           /\ UNCHANGED <<state, blocked_on>>
  <2>1. tflags'[t] = fl /\ \A x \in Thread \ {t} : tflags'[x] = tflags[x]
    BY <1>2, Zenon DEF Inv, TypeOK, ThreadTypes
  <2>2. Only(t)
    BY <1>2, <2>1, Zenon DEF Only, Bystander, Asked
  <2> QED BY <1>1, <1>2, <2>1, <2>2, Zenon
<1>3. ASSUME NEW o \in pulse_deliver(ChanOf(t)), Become(t, "REPLY", fl, o.wake), Unblocked({o.wake})
      PROVE  /\ Only(t) /\ state'[t] = "REPLY" /\ blocked_on'[t] = blocked_on[t]
             /\ tflags'[t] = fl
  <2>1. o.wake = NONE \/ state[o.wake] = "RECEIVE"
    BY <1>1, <1>3, WokenReceiver, Zenon
  <2>2. Only(t)
    BY <1>3, <2>1, BecomeOnly, Zenon
  <2>3. t # o.wake
    BY <1>1, <2>1, IpcAssumption
  <2> QED BY <1>3, <2>2, <2>3, Zenon DEF Become, Unblocked
<1>4. \/ tflags' = [tflags EXCEPT ![t] = fl] /\ UNCHANGED <<state, blocked_on>>
      \/ \E o \in pulse_deliver(ChanOf(t)) : Become(t, "REPLY", fl, o.wake) /\ Unblocked({o.wake})
  BY Zenon DEF force_ready_defer
<1> QED BY <1>1, <1>2, <1>3, <1>4, Zenon

\* ... and a reply readies it.
LEMMA RepliedOnly ==
    ASSUME Inv, NEW s \in Thread, NEW t \in Thread, NEW c \in Conn, lookup_rcvid(s, t, c),
           NEW fl, Replied(t, c, fl)
    PROVE  Only(t) /\ state'[t] = "RUN" /\ tflags'[t] = fl
<1>1. PICK o \in DetachPulse(c) : Become(t, "RUN", fl, o.wake) /\ Unblocked({t, o.wake})
  BY Zenon DEF Replied
<1>2. Only(t)
  BY <1>1, DetachedReceiver, BecomeOnly, Zenon
<1> QED BY <1>1, <1>2 DEF Become

\* A pulse moves nobody else.
LEMMA PulseOnly ==
    ASSUME Inv, NEW ch \in Chan, NEW o \in pulse_deliver(ch),
           Become(NONE, "RUN", {}, o.wake), Unblocked({o.wake})
    PROVE  \A x \in Thread : Bystander(x)
<1>1. Only(NONE)
  BY WokenReceiver, BecomeOnly, Zenon
<1> QED BY <1>1, IpcAssumption DEF Only
-----------------------------------------------------------------------------
(***************************************************************************)
(* The client of a server                                                  *)
(***************************************************************************)
\* What a step may do to the client of s: s has none, or keeps it where it is,
\* or gets one that waits for it.
Serves(s) ==
    \/ client'[s] = NONE
    \/ /\ client[s] # NONE /\ client'[s] = client[s] /\ server'[client[s]] = server[client[s]]
       /\ state'[client[s]] = state[client[s]] /\ blocked_on'[client[s]] = blocked_on[client[s]]
    \/ /\ client'[s] \in Thread
       /\ state'[client'[s]] = "REPLY" /\ server'[client'[s]] = s
       /\ chproc[cchan'[blocked_on'[client'[s]]]] = process[s]

\* A connection may lose its channel, and only one without a channel gets one.
ChannelsKept == \A c \in Conn : cchan'[c] \in {cchan[c], NONE} \/ cchan[c] = NONE

\* A thread that stays blocked on a connection stays on its channel.
LEMMA ChannelStays ==
    ASSUME Inv, Inv', ChannelsKept, NEW x \in Thread, state[x] = "REPLY", state'[x] = "REPLY",
           blocked_on'[x] = blocked_on[x]
    PROVE  /\ blocked_on[x] \in Conn /\ ChanOf(x) \in Chan
           /\ ChanOf(x)' = ChanOf(x)
           /\ cchan'[blocked_on[x]] = cchan[blocked_on[x]]
<1>1. blocked_on[x] \in Conn /\ ChanOf(x) \in Chan
  BY BlockedOn, Zenon
<1>2. ChanOf(x)' # NONE
  BY Zenon DEF Inv, QueuesMatch
<1> QED BY <1>1, <1>2, IpcAssumption DEF ChannelsKept, ChanOf

\* Serves(s) for every thread is enough to keep ClientIsServed.
LEMMA ServedKept ==
    ASSUME Inv, Inv', ClientIsServed, ChannelsKept, \A s \in Thread : Serves(s)
    PROVE  ClientIsServed'
<1>1. SUFFICES ASSUME NEW s \in Thread, client'[s] # NONE
               PROVE  /\ state'[client'[s]] = "REPLY" /\ server'[client'[s]] = s
                      /\ chproc[cchan'[blocked_on'[client'[s]]]] = process[s]
  BY Zenon DEF ClientIsServed, ChanOf
<1>2. CASE /\ client[s] # NONE /\ client'[s] = client[s] /\ server'[client[s]] = server[client[s]]
           /\ state'[client[s]] = state[client[s]] /\ blocked_on'[client[s]] = blocked_on[client[s]]
  <2>1. client[s] \in Thread
    BY <1>2, Zenon DEF Inv, TypeOK, PartnerTypes
  <2>2. /\ state[client[s]] = "REPLY" /\ server[client[s]] = s
        /\ chproc[ChanOf(client[s])] = process[s]
    BY <1>2, Zenon DEF ClientIsServed
  <2>3. cchan'[blocked_on'[client[s]]] = ChanOf(client[s])
    <3> DEFINE x == client[s]
    <3>1. x \in Thread /\ state[x] = "REPLY" /\ state'[x] = "REPLY" /\ blocked_on'[x] = blocked_on[x]
      BY <1>2, <2>1, <2>2, Zenon
    <3> HIDE DEF x
    <3>2. cchan'[blocked_on'[x]] = cchan[blocked_on[x]]
      BY <3>1, ChannelStays
    <3> QED BY <3>2, Zenon DEF ChanOf, x
  <2> QED BY <1>2, <2>2, <2>3, Zenon
<1>3. CASE /\ client'[s] \in Thread
           /\ state'[client'[s]] = "REPLY" /\ server'[client'[s]] = s
           /\ chproc[cchan'[blocked_on'[client'[s]]]] = process[s]
  BY <1>3, Zenon
<1> QED BY <1>1, <1>2, <1>3, Zenon DEF Serves

\* The same, for the threads one at a time.
LEMMA StillServed ==
    ASSUME Inv, ClientIsServed, NEW t, t \in Thread => state[t] # "REPLY", Only(t),
           NEW s \in Thread, client'[s] # NONE => client'[s] = client[s] /\ server'[client[s]] = s
    PROVE  Serves(s)
<1>1. SUFFICES ASSUME client'[s] # NONE PROVE Serves(s)
  BY DEF Serves
<1> DEFINE x == client[s]
<1>2. client'[s] = x /\ server'[x] = s
  BY <1>1, Zenon
<1>3. x \in Thread /\ x # NONE
  BY <1>1, <1>2, Zenon DEF Inv, TypeOK, PartnerTypes
<1>4. state[x] = "REPLY" /\ server[x] = s
  BY <1>3 DEF ClientIsServed
<1>5. Bystander(x)
  BY <1>3, <1>4, Zenon DEF Only
<1> QED BY <1>2, <1>3, <1>4, <1>5, Zenon DEF Bystander, Serves

\* s gives up its client.
LEMMA ServesDrop ==
    ASSUME Inv, ClientIsServed, NEW u \in Thread, NEW t, t \in Thread => state[t] # "REPLY", Only(t),
           server' = ServerWithout(u), client' = [client EXCEPT ![u] = NONE]
    PROVE  \A s \in Thread : Serves(s)
<1>1. SUFFICES ASSUME NEW s \in Thread, client'[s] # NONE
               PROVE  client'[s] = client[s] /\ server'[client[s]] = s
  BY StillServed
<1>2. s # u /\ client'[s] = client[s] /\ client[s] \in Thread
  BY <1>1 DEF Inv, TypeOK, PartnerTypes
<1>3. server[client[s]] = s
  BY <1>1, <1>2 DEF ClientIsServed
<1>4. client[u] # NONE => server[client[u]] = u
  BY DEF ClientIsServed
<1> QED BY <1>2, <1>3, <1>4, Zenon DEF ServerWithout, Inv, TypeOK, PartnerTypes

\* Nobody's client changes.
LEMMA ServesSame ==
    ASSUME Inv, ClientIsServed, NEW t, t \in Thread => state[t] # "REPLY", Only(t),
           UNCHANGED <<server, client>>
    PROVE  \A s \in Thread : Serves(s)
<1>1. \A s \in Thread : client[s] # NONE => server[client[s]] = s
  BY Zenon DEF ClientIsServed
<1> QED BY <1>1, StillServed

\* A client leaves, with its server cleared; if it dies it gives up its own
\* client.
LEMMA ServesPart ==
    ASSUME Inv, ClientIsServed, NEW t \in Thread, state[t] = "REPLY", Only(t),
           NEW cl, cl = ClientWithout(t), NEW sv, sv = [server EXCEPT ![t] = NONE],
           \/ client' = cl /\ server' = sv
           \/ /\ client' = [cl EXCEPT ![t] = NONE]
              /\ server' = IF cl[t] # NONE THEN [sv EXCEPT ![cl[t]] = NONE] ELSE sv
    PROVE  \A s \in Thread : Serves(s)
<1>1. SUFFICES ASSUME NEW s \in Thread, client'[s] # NONE PROVE Serves(s)
  BY DEF Serves
<1> DEFINE x == client[s]
<1>a. client \in [Thread -> Thread \cup {NONE}] /\ server \in [Thread -> Thread \cup {NONE}]
  BY DEF Inv, TypeOK, PartnerTypes
<1>2. /\ cl \in [Thread -> Thread \cup {NONE}] /\ sv \in [Thread -> Thread \cup {NONE}]
      /\ \A y \in Thread : y # t => sv[y] = server[y]
      /\ \A y \in Thread : cl[y] = client[y] \/ cl[y] = NONE
      /\ server[t] # NONE => cl[server[t]] = NONE
  BY <1>a, Zenon DEF ClientWithout
<1>3. cl[s] = x /\ x \in Thread /\ x # NONE
  BY <1>1, <1>2, <1>a
<1>4. state[x] = "REPLY" /\ server[x] = s
  BY <1>3, Zenon DEF ClientIsServed
<1>5. x # t
  BY <1>2, <1>3, <1>4, IpcAssumption, Zenon
<1>6. client'[s] = x
  BY <1>1, <1>2, <1>3, Zenon
<1>7. server'[x] = s
  <2>1. sv[x] = s
    BY <1>2, <1>3, <1>4, <1>5, Zenon
  <2>2. CASE server' = sv
    BY <2>1, <2>2, Zenon
  <2>3. CASE client' = [cl EXCEPT ![t] = NONE] /\ cl[t] # NONE /\ server' = [sv EXCEPT ![cl[t]] = NONE]
    <3>1. s # t
      BY <1>1, <1>2, <2>3, Zenon
    <3>2. cl[t] = client[t] /\ server[client[t]] = t
      BY <1>2, <2>3 DEF ClientIsServed
    <3>3. cl[t] # x
      BY <1>4, <3>1, <3>2, Zenon
    <3> QED BY <1>2, <1>3, <2>1, <2>3, <3>3, Zenon
  <2> QED BY <2>2, <2>3, Zenon
<1>8. Bystander(x)
  BY <1>3, <1>5 DEF Only
<1> QED BY <1>3, <1>4, <1>6, <1>7, <1>8, Zenon DEF Bystander, Serves

\* A thread that force_ready releases is taken from its server.
LEMMA ServesRelease ==
    ASSUME Inv, ClientIsServed, NEW t \in Thread, NEW st \in {"RUN", "DEAD"}, NEW fl,
           force_ready_release(t, st, fl)
    PROVE  \A s \in Thread : Serves(s)
<1>1. Only(t)
  BY ReleaseOnly, Zenon
<1>2. ReleaseLinks(t, st)
  BY DEF force_ready_release
<1>3. CASE state[t] = "REPLY"
  BY <1>1, <1>2, <1>3, ServesPart, Zenon DEF ReleaseLinks
<1>4. CASE state[t] # "REPLY" /\ st # "DEAD"
  BY <1>1, <1>2, <1>4, ServesSame DEF ReleaseLinks
<1>5. CASE state[t] # "REPLY" /\ st = "DEAD"
  <2>1. server' = ServerWithout(t) /\ client' = [client EXCEPT ![t] = NONE]
    BY <1>2, <1>5 DEF ReleaseLinks, ServerWithout
  <2> QED BY <1>1, <1>5, <2>1, ServesDrop, Zenon
<1> QED BY <1>3, <1>4, <1>5, Zenon
-----------------------------------------------------------------------------
(***************************************************************************)
(* What a step may do to one thread                                        *)
(***************************************************************************)
\* The server has been sent the unblock pulse of x, which waits on c.
Heard(x, ch, c) == pulses[ch][Unblock(x, c)] > 0 \/ <<x, c>> \in told

\* The client of a live UNBLOCK channel of a live process.
Protected(x) ==
    LET ch == ChanOf(x) IN
    "UNBLOCK" \in chflags[ch] /\ chst[ch] # "DYING" /\ pst[chproc[ch]] = "LIVE"

\* A thread is a bystander; or it moves and was not reply blocked; or it leaves
\* REPLY, not asked to unless nothing protects it; or it stays there, and if it
\* is asked to leave the server hears of it.
Way(x) ==
    \/ Bystander(x)
    \/ /\ state[x] # "REPLY" /\ (Asked(x)' => Asked(x))
       /\ state'[x] = "RECEIVE" => chproc[blocked_on'[x]] = process[x]
    \/ /\ state[x] = "REPLY" /\ state'[x] \in {"RUN", "DEAD"}
       /\ Asked(x)' => Asked(x) /\ ~Protected(x)
    \/ /\ state[x] = "REPLY" /\ state'[x] = "REPLY" /\ blocked_on'[x] = blocked_on[x]
       /\ Asked(x)' => Asked(x) \/ "UNBLOCK" \in chflags[ChanOf(x)]
       /\ "UNBLOCK_QUEUED" \in tflags'[x] =>
            \/ "UNBLOCK_QUEUED" \in tflags[x]
            \/ pulses'[ChanOf(x)][Unblock(x, blocked_on[x])] > 0
            \/ <<x, blocked_on[x]>> \in told'

\* It is enough to look at the thread that a step moves.
LEMMA WayOthers ==
    ASSUME NEW t, Only(t), t \in Thread => Way(t)
    PROVE  \A x \in Thread : Way(x)
BY DEF Only, Way

\* A released thread was not protected by UNBLOCK, or is no longer marked.
LEMMA WayRelease ==
    ASSUME Inv, NEW t \in Thread, NEW st \in {"RUN", "DEAD"}, NEW fl, fl \subseteq tflags[t],
           force_ready_release(t, st, fl),
           \/ ~Protected(t)
           \/ "UNBLOCK_REQ" \notin fl /\ "UNBLOCK_QUEUED" \notin fl
           \/ state[t] # "REPLY"
    PROVE  \A x \in Thread : Way(x)
<1>1. /\ Only(t) /\ state'[t] = st
      /\ tflags'[t] = fl \/ tflags'[t] = fl \ {"RCVPULSE"}
  BY ReleaseOnly, Zenon
<1>2. tflags'[t] \subseteq fl
  BY <1>1, Zenon
<1>3. Asked(t)' => Asked(t) /\ (state[t] = "REPLY" => ~Protected(t))
  BY <1>2, Zenon DEF Asked
<1>4. Way(t)
  BY <1>1, <1>3, Zenon DEF Way
<1> QED BY <1>1, <1>4, WayOthers, Zenon

\* A pulse that is delivered is queued or received.
LEMMA DeliveredPulse ==
    ASSUME Inv, NEW ch \in Chan, NEW o \in pulse_deliver(ch), o.ok
    PROVE  o.wake # NONE \/ o.add = 1
<1>1. recvq[ch] \subseteq Thread
  BY Zenon DEF Inv, TypeOK, ChanTypes
<1> QED BY <1>1, IpcAssumption DEF pulse_deliver, MsgReceivers, Woken, Queued, Dropped

\* A thread whose leaving is deferred stays, and its server has heard of it.
LEMMA WayDefer ==
    ASSUME Inv, NEW t \in Thread, NEW kill, force_ready_defer(t, kill)
    PROVE  \A x \in Thread : Way(x)
<1> DEFINE ch == ChanOf(t)
           c == blocked_on[t]
<1>1. Only(t) /\ state[t] = "REPLY" /\ state'[t] = "REPLY" /\ blocked_on'[t] = c
  BY DeferOnly, Zenon
<1>2. c \in Conn /\ ch \in Chan
  BY <1>1, BlockedOn, Zenon
<1>3. "UNBLOCK" \in chflags[ch]
  BY Zenon DEF force_ready_defer, unblock_needed
<1>4. \/ "UNBLOCK_QUEUED" \in tflags[t] \/ <<t, c>> \in told'
      \/ pulses'[ch][Unblock(t, c)] > 0
  <2>1. CASE "UNBLOCK_QUEUED" \in tflags[t]
    BY <2>1
  <2>2. ASSUME NEW o \in pulse_deliver(ch), o.ok,
               pulses' = PulseAdded(pulses, ch, Unblock(t, c), o),
               told' = IF o.wake # NONE THEN told \cup {<<t, c>>} ELSE told
        PROVE  <<t, c>> \in told' \/ pulses'[ch][Unblock(t, c)] > 0
    <3>1. o.wake # NONE \/ o.add = 1
      BY <1>2, <2>2, DeliveredPulse, Zenon
    <3>2. CASE o.wake # NONE
      BY <2>2, <3>2, Zenon
    <3>3. CASE o.add = 1
      <4>1. Unblock(t, c) \in PulseKind
        BY <1>2, Kinds, Zenon
      <4>2. pulses \in [Chan -> [PulseKind -> Nat]]
        BY Zenon DEF Inv, TypeOK, ChanTypes
      <4> HIDE DEF ch, c
      <4>3. pulses'[ch][Unblock(t, c)] = pulses[ch][Unblock(t, c)] + 1
        BY <1>2, <2>2, <3>3, <4>1, <4>2, Zenon DEF PulseAdded
      <4>4. pulses[ch][Unblock(t, c)] \in Nat
        BY <1>2, <4>1, <4>2, Zenon
      <4> QED BY <4>3, <4>4
    <3> QED BY <3>1, <3>2, <3>3, Zenon
  <2> QED BY <2>1, <2>2, Zenon DEF force_ready_defer
<1>5. Way(t)
  BY <1>1, <1>3, <1>4, Zenon DEF Way
<1> QED BY <1>1, <1>5, WayOthers, Zenon

\* force_ready, by whatever interrupts the thread or destroys it.
Forced(t) ==
    \/ \E kill \in BOOLEAN : force_ready_defer(t, kill)
    \/ \E st \in {"RUN", "DEAD"} :
         \/ unblock_failed(t) /\ force_ready_release(t, st, tflags[t] \ {"UNBLOCK_REQ"})
         \/ ~unblock_needed(t) /\ force_ready_release(t, st, tflags[t])

\* Signals, timeouts and the destruction of a blocked thread end in one of the three.
LEMMA IsForced ==
    ASSUME NEW t
    PROVE  force_ready(t) \/ ThreadDestroyBlocked(t) => Forced(t)
BY Zenon DEF force_ready, ThreadDestroyBlocked, Forced

\* Whichever it is, threads go only on a way that is allowed.
LEMMA WayForced ==
    ASSUME Inv, NEW t \in Thread, Forced(t)
    PROVE  \A x \in Thread : Way(x)
<1>1. ASSUME NEW kill, force_ready_defer(t, kill) PROVE \A x \in Thread : Way(x)
  BY <1>1, WayDefer, Zenon
<1>2. ASSUME NEW st \in {"RUN", "DEAD"}, unblock_failed(t),
             force_ready_release(t, st, tflags[t] \ {"UNBLOCK_REQ"})
      PROVE  \A x \in Thread : Way(x)
  <2>1. "UNBLOCK_QUEUED" \notin tflags[t]
    BY <1>2, Zenon DEF unblock_failed
  <2> QED BY <1>2, <2>1, WayRelease, Zenon
<1>3. ASSUME NEW st \in {"RUN", "DEAD"}, ~unblock_needed(t), force_ready_release(t, st, tflags[t])
      PROVE  \A x \in Thread : Way(x)
  <2>1. state[t] = "REPLY" => ChanOf(t) # NONE
    BY Zenon DEF Inv, QueuesMatch
  <2>2. state[t] # "REPLY" \/ ~Protected(t)
    BY <1>3, <2>1, Zenon DEF unblock_needed, Protected
  <2> QED BY <1>3, <2>2, WayRelease, Zenon
<1> QED BY <1>1, <1>2, <1>3, Zenon DEF Forced

\* And servers keep the clients they have, or lose both links.
LEMMA ServesForced ==
    ASSUME Inv, ClientIsServed, NEW t \in Thread, Forced(t)
    PROVE  \A s \in Thread : Serves(s)
<1>1. ASSUME NEW kill, force_ready_defer(t, kill) PROVE \A s \in Thread : Serves(s)
  <2>1. Only(t) /\ state'[t] = state[t] /\ blocked_on'[t] = blocked_on[t]
    BY <1>1, DeferOnly, Zenon
  <2>2. UNCHANGED <<server, client>>
    BY <1>1, Zenon DEF force_ready_defer
  <2>3. ASSUME NEW s \in Thread, client[s] # NONE
        PROVE  state'[client[s]] = state[client[s]] /\ blocked_on'[client[s]] = blocked_on[client[s]]
    <3>1. client[s] \in Thread /\ state[client[s]] = "REPLY"
      BY <2>3 DEF ClientIsServed, Inv, TypeOK, PartnerTypes
    <3> QED BY <2>1, <3>1, Zenon DEF Only, Bystander
  <2> QED BY <2>2, <2>3, Zenon DEF Serves
<1>2. ASSUME NEW st \in {"RUN", "DEAD"}, NEW fl, force_ready_release(t, st, fl)
      PROVE  \A s \in Thread : Serves(s)
  BY <1>2, ServesRelease, Zenon
<1> QED BY <1>1, <1>2, Zenon DEF Forced

\* A thread waits for messages on a channel of its own process.
ReceiversAtHome ==
    \A x \in Thread : state[x] = "RECEIVE" => chproc[blocked_on[x]] = process[x]

Goes == (\A x \in Thread : Way(x)) /\ (\A s \in Thread : Serves(s))

\* A step that moves at most a thread t that is not reply blocked.
LEMMA MovesOne ==
    ASSUME NEW t, Only(t),
           t \in Thread => /\ state[t] # "REPLY" /\ (Asked(t)' => Asked(t))
                           /\ state'[t] = "RECEIVE" => chproc[blocked_on'[t]] = process[t]
    PROVE  \A x \in Thread : Way(x)
BY WayOthers, Zenon DEF Way

\* A step that moves nobody.
LEMMA NobodyMoves ==
    ASSUME UNCHANGED <<state, blocked_on>>,
           \A x \in Thread : /\ Asked(x)' <=> Asked(x)
                             /\ "UNBLOCK_QUEUED" \in tflags'[x] => "UNBLOCK_QUEUED" \in tflags[x]
    PROVE  Only(NONE)
BY DEF Only, Bystander

\* MsgSend, MsgSendPulse and ConnectAttach.
LEMMA ClientGoes ==
    ASSUME Inv, ClientIsServed, ReceiversAtHome, ClientStep
    PROVE  Goes
<1> USE DEF Inv
<1> PICK t \in Thread, f \in Coid :
        \/ MsgSendDirect(t, f) \/ MsgSendRcvFault(t, f) \/ MsgSendQueue(t, f)
        \/ MsgSendPulse(t, f)
        \/ \E ch \in Chan : ConnectAttachShare(t, f, ch) \/ ConnectAttachNew(t, f, ch)
  BY Zenon DEF ClientStep
<1> DEFINE slot == <<process[t], f>>
           c == fd[slot]
           ch == cchan[c]
<1>0. slot \in Proc \X Coid
  BY IpcAssumption, Zenon
<1>a. NONE \notin Thread
  BY IpcAssumption, Zenon
<1>c. ASSUME Connected(t, f)
      PROVE  c \in Conn /\ ch \in Chan /\ state[t] = "RUN"
  BY <1>0, <1>c, Zenon DEF Connected, Running, TypeOK, ConnTypes
<1>d. ASSUME NEW r \in MsgReceivers(ch), ch \in Chan
      PROVE  r \in Thread /\ state[r] = "RECEIVE" /\ blocked_on[r] = ch
  BY <1>d DEF MsgReceivers, QueuesMatch, TypeOK, ChanTypes
<1>1. CASE MsgSendDirect(t, f)
  <2>1. PICK r \in MsgReceivers(ch) :
            /\ Become(t, "REPLY", tflags[t], r)
            /\ blocked_on' = [blocked_on EXCEPT ![t] = c, ![r] = NONE]
            /\ server' = [server EXCEPT ![t] = r]
            /\ client' = [client EXCEPT ![r] = t]
    BY <1>1, Zenon DEF MsgSendDirect
  <2>2. /\ c \in Conn /\ ch \in Chan /\ state[t] = "RUN"
        /\ r \in Thread /\ state[r] = "RECEIVE" /\ blocked_on[r] = ch
    BY <1>1, <1>c, <1>d, Zenon DEF MsgSendDirect
  <2>3. cchan' = cchan
    BY <1>1, Zenon DEF MsgSendDirect
  <2>4. /\ state'[t] = "REPLY" /\ blocked_on'[t] = c /\ tflags'[t] = tflags[t]
        /\ state'[r] = "RUN" /\ tflags'[r] = tflags[r] \ {"RCVPULSE"}
        /\ \A x \in Thread \ {t, r} : /\ state'[x] = state[x] /\ blocked_on'[x] = blocked_on[x]
                                      /\ tflags'[x] = tflags[x]
    BY <2>1, <2>2, Zenon DEF Become, TypeOK, ThreadTypes
  <2>5. Only(t)
    BY <2>2, <2>4, Zenon DEF Only, Bystander, Asked
  <2>6. \A x \in Thread : Way(x)
    BY <2>2, <2>4, <2>5, MovesOne, Zenon DEF Asked
  <2>7. Serves(r)
    <3>1. /\ client'[r] = t /\ server'[t] = r
      BY <2>1, <2>2, Zenon DEF TypeOK, PartnerTypes
    <3>2. chproc[cchan'[blocked_on'[t]]] = process[r]
      BY <2>2, <2>3, <2>4 DEF ReceiversAtHome
    <3> QED BY <2>4, <3>1, <3>2, Zenon DEF Serves
  <2>8. ASSUME NEW s \in Thread \ {r} PROVE Serves(s)
    <3>1. client'[s] = client[s]
      BY <2>1, <2>2, <2>8, Zenon DEF TypeOK, PartnerTypes
    <3>2. client[s] # NONE => client[s] \in Thread /\ state[client[s]] = "REPLY" /\ server[client[s]] = s
      BY Zenon DEF ClientIsServed, TypeOK, PartnerTypes
    <3>3. client[s] # NONE => server'[client[s]] = s
      BY <2>1, <2>2, <3>2, Zenon DEF TypeOK, PartnerTypes
    <3> QED BY <2>2, <2>5, <3>1, <3>3, StillServed, Zenon
  <2> QED BY <2>6, <2>7, <2>8, Zenon DEF Goes
<1>2. CASE MsgSendRcvFault(t, f)
  <2>1. PICK r \in MsgReceivers(ch) : /\ state' = [state EXCEPT ![r] = "RUN"]
                                      /\ blocked_on' = [blocked_on EXCEPT ![r] = NONE]
    BY <1>2, Zenon DEF MsgSendRcvFault
  <2>2. UNCHANGED <<server, client, tflags>>
    BY <1>2, Zenon DEF MsgSendRcvFault
  <2>3. r \in Thread /\ state[r] = "RECEIVE"
    BY <1>2, <1>c, <1>d, Zenon DEF MsgSendRcvFault
  <2>4. Only(NONE)
    BY <2>1, <2>2, <2>3, Zenon DEF Only, Bystander, Asked, TypeOK, ThreadTypes
  <2> QED BY <1>a, <2>2, <2>4, MovesOne, ServesSame, Zenon DEF Goes
<1>3. CASE MsgSendQueue(t, f)
  <2>1. /\ state' = [state EXCEPT ![t] = "SEND"]
        /\ blocked_on' = [blocked_on EXCEPT ![t] = c]
        /\ UNCHANGED <<server, client, tflags>>
    BY <1>3, Zenon DEF MsgSendQueue
  <2>2. state[t] = "RUN"
    BY <1>3, <1>c, Zenon DEF MsgSendQueue
  <2>3. Only(t) /\ state'[t] = "SEND"
    BY <2>1, Zenon DEF Only, Bystander, Asked, TypeOK, ThreadTypes
  <2> QED BY <2>1, <2>2, <2>3, MovesOne, ServesSame, Zenon DEF Goes, Asked
<1>4. CASE MsgSendPulse(t, f)
  <2>1. PICK o \in pulse_deliver(ch) : Become(NONE, "RUN", {}, o.wake) /\ Unblocked({o.wake})
    BY <1>4, Zenon DEF MsgSendPulse
  <2>2. UNCHANGED <<server, client>> /\ ch \in Chan
    BY <1>4, <1>c, Zenon DEF MsgSendPulse
  <2> HIDE DEF ch
  <2>3. Only(NONE)
    BY <2>1, <2>2, PulseOnly, Zenon DEF Only
  <2> QED BY <1>a, <2>2, <2>3, MovesOne, ServesSame, Zenon DEF Goes
<1>5. ASSUME NEW k \in Chan, ConnectAttachShare(t, f, k) \/ ConnectAttachNew(t, f, k) PROVE Goes
  <2>1. UNCHANGED threadVars
    BY <1>5, Zenon DEF ConnectAttachShare, ConnectAttachNew
  <2>2. Only(NONE)
    BY <2>1, NobodyMoves, Zenon DEF threadVars, Asked
  <2> QED BY <1>a, <2>1, <2>2, MovesOne, ServesSame, Zenon DEF Goes, threadVars
<1> QED BY <1>1, <1>2, <1>3, <1>4, <1>5, Zenon

\* MsgReceive and ChannelCreate.
LEMMA ReceiveGoes ==
    ASSUME Inv, ClientIsServed, NEW s \in Thread, NEW ch \in Chan,
           \/ MsgReceivePulse(s, ch) \/ MsgReceive(s, ch) \/ MsgReceiveDropSender(s, ch)
           \/ MsgReceiveFail(s, ch) \/ MsgReceiveBlock(s, ch, FALSE)
           \/ MsgReceiveBlock(s, ch, TRUE)
           \/ ChannelCreate(s, ch)
    PROVE  Goes
<1> USE DEF Inv
<1>a. NONE \notin Thread
  BY IpcAssumption, Zenon
<1>b. state[s] = "RUN" \/ ChannelCreate(s, ch)
  BY Zenon DEF MsgReceivePulse, MsgReceive, MsgReceiveDropSender, MsgReceiveFail, MsgReceiveBlock,
         CanReceive, Running
<1>1. CASE MsgReceivePulse(s, ch) \/ MsgReceiveFail(s, ch)
  <2>1. /\ UNCHANGED <<state, blocked_on, tflags>>
        /\ server' = ServerWithout(s) /\ client' = [client EXCEPT ![s] = NONE]
    BY <1>1, Zenon DEF MsgReceivePulse, MsgReceiveFail
  <2>2. Only(NONE)
    BY <2>1, NobodyMoves, Zenon DEF Asked
  <2> QED BY <1>a, <2>1, <2>2, MovesOne, ServesDrop, Zenon DEF Goes
<1>2. CASE MsgReceive(s, ch)
  <2>1. PICK t \in sendq[ch] :
            /\ server' = [ServerWithout(s) EXCEPT ![t] = s]
            /\ client' = [client EXCEPT ![s] = t]
            /\ state' = [state EXCEPT ![t] = "REPLY"]
    BY <1>2, Zenon DEF MsgReceive
  <2>2. UNCHANGED <<blocked_on, tflags, cchan>> /\ chproc[ch] = process[s]
    BY <1>2, Zenon DEF MsgReceive, connVars, CanReceive
  <2>3. t \in Thread /\ state[t] = "SEND" /\ ChanOf(t) = ch
    BY Zenon DEF TypeOK, ChanTypes, QueuesMatch
  <2>4. state'[t] = "REPLY" /\ \A x \in Thread \ {t} : state'[x] = state[x]
    BY <2>1, <2>3, Zenon DEF TypeOK, ThreadTypes
  <2>5. Only(t)
    BY <2>2, <2>4, Zenon DEF Only, Bystander, Asked
  <2>6. \A x \in Thread : Way(x)
    BY <2>2, <2>3, <2>4, <2>5, MovesOne, Zenon DEF Asked
  <2>a. ServerWithout(s) \in [Thread -> Thread \cup {NONE}]
    BY Zenon DEF ServerWithout, TypeOK, PartnerTypes
  <2>7. Serves(s)
    <3>1. client'[s] = t /\ server'[t] = s
      BY <2>1, <2>3, <2>a, Zenon DEF TypeOK, PartnerTypes
    <3>2. chproc[cchan'[blocked_on'[t]]] = process[s]
      BY <2>2, <2>3, Zenon DEF ChanOf
    <3> QED BY <2>3, <2>4, <3>1, <3>2, Zenon DEF Serves
  <2>8. ASSUME NEW u \in Thread \ {s} PROVE Serves(u)
    <3>1. client'[u] = client[u]
      BY <2>1, <2>8, Zenon DEF TypeOK, PartnerTypes
    <3>2. client[u] # NONE => client[u] \in Thread /\ state[client[u]] = "REPLY" /\ server[client[u]] = u
      BY Zenon DEF ClientIsServed, TypeOK, PartnerTypes
    <3>3. client[s] # NONE => server[client[s]] = s
      BY Zenon DEF ClientIsServed
    <3>4. client[u] # NONE => ServerWithout(s)[client[u]] = u
      BY <2>8, <3>2, <3>3, Zenon DEF ServerWithout, TypeOK, PartnerTypes
    <3>5. client[u] # NONE => server'[client[u]] = u
      BY <2>1, <2>3, <2>a, <3>2, <3>4, Zenon
    <3> QED BY <2>3, <2>5, <3>1, <3>5, StillServed, Zenon
  <2> QED BY <2>6, <2>7, <2>8, Zenon DEF Goes
<1>3. CASE MsgReceiveDropSender(s, ch)
  <2>1. PICK t \in Thread : force_ready(t)
    BY <1>3, ZenonT(40) DEF MsgReceiveDropSender, TypeOK, ChanTypes
  <2> QED BY <2>1, IsForced, WayForced, ServesForced, Zenon DEF Goes
<1>5. ASSUME NEW b \in BOOLEAN, MsgReceiveBlock(s, ch, b) PROVE Goes
  <2>1. /\ server' = ServerWithout(s)
        /\ client' = [client EXCEPT ![s] = NONE]
        /\ state' = [state EXCEPT ![s] = "RECEIVE"]
        /\ blocked_on' = [blocked_on EXCEPT ![s] = ch]
        /\ tflags' = [tflags EXCEPT ![s] = @ \cup (IF b THEN {"RCVPULSE"} ELSE {})]
        /\ chproc[ch] = process[s] /\ state[s] = "RUN"
    BY <1>5, Zenon DEF MsgReceiveBlock, CanReceive, Running
  <2>2. /\ blocked_on'[s] = ch
        /\ tflags'[s] = tflags[s] \cup (IF b THEN {"RCVPULSE"} ELSE {})
        /\ \A x \in Thread \ {s} : /\ state'[x] = state[x] /\ blocked_on'[x] = blocked_on[x]
                                   /\ tflags'[x] = tflags[x]
    BY <2>1, Zenon DEF TypeOK, ThreadTypes
  <2>3. Only(s)
    BY <2>2, Zenon DEF Only, Bystander, Asked
  <2>4. Asked(s)' => Asked(s)
    BY <2>2, Zenon DEF Asked
  <2>5. \A x \in Thread : Way(x)
    BY <2>1, <2>2, <2>3, <2>4, MovesOne, Zenon
  <2> QED BY <2>1, <2>3, <2>5, ServesDrop, Zenon DEF Goes
<1>6. CASE ChannelCreate(s, ch)
  <2>1. UNCHANGED threadVars
    BY <1>6, Zenon DEF ChannelCreate
  <2>2. Only(NONE)
    BY <2>1, NobodyMoves, Zenon DEF threadVars, Asked
  <2> QED BY <1>a, <2>1, <2>2, MovesOne, ServesSame, Zenon DEF Goes, threadVars
<1> QED BY <1>1, <1>2, <1>3, <1>5, <1>6, Zenon

\* MsgReply, MsgError and MsgCurrent, without a fault of the reply buffer.
LEMMA ReplyGoes ==
    ASSUME Inv, ClientIsServed, NEW s \in Thread, NEW t \in Thread, NEW c \in Conn,
           \/ MsgReply(s, t, c) \/ MsgReplyPreempted(s, t, c)
           \/ MsgReplyStale(s, t, c) \/ MsgError(s, t, c) \/ MsgCurrent(s, t, c)
    PROVE  Goes
<1> USE DEF Inv
<1>a. NONE \notin Thread
  BY IpcAssumption, Zenon
<1>1. CASE MsgReply(s, t, c) \/ MsgError(s, t, c)
  <2> DEFINE fl == tflags[t] \ {"UNBLOCK_QUEUED", "UNBLOCK_REQ"}
  <2>1. /\ lookup_rcvid(s, t, c) /\ Replied(t, c, fl)
        /\ client' = ClientWithout(t) /\ server' = [server EXCEPT ![t] = NONE]
    BY <1>1, Zenon DEF MsgReply, MsgError
  <2>2. state[t] = "REPLY"
    BY <2>1, LookupBlocked, Zenon
  <2>3. Only(t) /\ state'[t] = "RUN" /\ tflags'[t] = fl
    BY <2>1, RepliedOnly, Zenon
  <2>4. ~Asked(t)'
    BY <2>3, Zenon DEF Asked
  <2>5. Way(t)
    BY <2>2, <2>3, <2>4, Zenon DEF Way
  <2>6. \A u \in Thread : Serves(u)
    BY <2>1, <2>2, <2>3, ServesPart, Zenon
  <2> QED BY <2>3, <2>5, <2>6, WayOthers, Zenon DEF Goes
<1>2. CASE MsgReplyPreempted(s, t, c)
  <2>1. /\ UNCHANGED <<state, blocked_on, server, client>> /\ state[t] = "REPLY"
        /\ tflags' = [tflags EXCEPT ![t] = @ \ {"UNBLOCK_QUEUED"}]
    BY <1>2, Zenon DEF MsgReplyPreempted, lookup_rcvid
  <2>2. /\ tflags'[t] \subseteq tflags[t]
        /\ \A x \in Thread \ {t} : tflags'[x] = tflags[x]
    BY <2>1, Zenon DEF TypeOK, ThreadTypes
  <2>3. Only(t)
    BY <2>1, <2>2, Zenon DEF Only, Bystander, Asked
  <2>4. /\ Asked(t)' => Asked(t)
        /\ "UNBLOCK_QUEUED" \in tflags'[t] => "UNBLOCK_QUEUED" \in tflags[t]
    BY <2>2, Zenon DEF Asked
  <2>5. Way(t)
    BY <2>1, <2>4, Zenon DEF Way
  <2>6. \A u \in Thread : Serves(u)
    BY <2>1, Zenon DEF Serves
  <2> QED BY <2>3, <2>5, <2>6, WayOthers DEF Goes
<1>3. CASE MsgReplyStale(s, t, c)
  <2>1. UNCHANGED threadVars
    BY <1>3, Zenon DEF MsgReplyStale
  <2>2. Only(NONE)
    BY <2>1, NobodyMoves, Zenon DEF threadVars, Asked
  <2> QED BY <1>a, <2>1, <2>2, MovesOne, ServesSame, Zenon DEF Goes, threadVars
<1>4. CASE MsgCurrent(s, t, c)
  <2> DEFINE old == ServerWithout(s)[t]
  <2>1. /\ UNCHANGED <<state, blocked_on, tflags, cchan>>
        /\ server' = [ServerWithout(s) EXCEPT ![t] = s]
        /\ lookup_rcvid(s, t, c)
    BY <1>4, Zenon DEF MsgCurrent, connVars
  <2>2. client' = [x \in Thread |-> IF x = s THEN t ELSE IF x = old THEN NONE
                                     ELSE [client EXCEPT ![s] = NONE][x]]
    BY <1>4, Zenon DEF MsgCurrent
  <2>3. Only(NONE)
    BY <2>1, NobodyMoves, Zenon DEF Asked
  <2>a. ServerWithout(s) \in [Thread -> Thread \cup {NONE}]
    BY Zenon DEF ServerWithout, TypeOK, PartnerTypes
  <2>b. server'[t] = s /\ \A x \in Thread \ {t} : server'[x] = ServerWithout(s)[x]
    BY <2>1, <2>a, Zenon
  <2>4. Serves(s)
    <3>1. client'[s] = t
      BY <2>2, Zenon
    <3>2. state[t] = "REPLY" /\ chproc[cchan[blocked_on[t]]] = process[s]
      BY <2>1, Zenon DEF lookup_rcvid, Holds
    <3> QED BY <2>1, <2>b, <3>1, <3>2, Zenon DEF Serves
  <2>5. ASSUME NEW u \in Thread \ {s}, client'[u] # NONE
        PROVE  client'[u] = client[u] /\ server'[client[u]] = u
    <3> DEFINE x == client[u]
    <3>1. client'[u] = x /\ x \in Thread /\ u # old
      BY <2>2, <2>5, Zenon DEF TypeOK, PartnerTypes
    <3>2. server[x] = u
      BY <2>5, <3>1, Zenon DEF ClientIsServed
    <3>3. client[s] # NONE => server[client[s]] = s
      BY Zenon DEF ClientIsServed
    <3>4. ServerWithout(s)[x] = u
      BY <2>5, <3>1, <3>2, <3>3, Zenon DEF ServerWithout, TypeOK, PartnerTypes
    <3>5. x # t
      BY <3>1, <3>4, Zenon
    <3> QED BY <2>b, <3>1, <3>4, <3>5, Zenon
  <2>6. \A u \in Thread : Serves(u)
    BY <1>a, <2>3, <2>4, <2>5, StillServed, Zenon
  <2> QED BY <1>a, <2>3, <2>6, MovesOne, Zenon DEF Goes
<1> QED BY <1>1, <1>2, <1>3, <1>4, Zenon

\* Signals and timeouts, the death of threads, the exit of processes, and the
\* beginnings of ConnectDetach and ChannelDestroy.
LEMMA LifeGoes ==
    ASSUME Inv, ClientIsServed, LifeStep
    PROVE  Goes
<1> USE DEF Inv
<1>a. NONE \notin Thread
  BY IpcAssumption, Zenon
<1>b. ASSUME UNCHANGED <<state, blocked_on, server, client>>,
             \A x \in Thread : /\ Asked(x)' <=> Asked(x)
                               /\ "UNBLOCK_QUEUED" \in tflags'[x] => "UNBLOCK_QUEUED" \in tflags[x]
      PROVE  Goes
  <2>1. Only(NONE)
    BY <1>b, NobodyMoves, Zenon
  <2> QED BY <1>a, <1>b, <2>1, MovesOne, ServesSame, Zenon DEF Goes
<1>1. ASSUME NEW t \in Thread, Interrupt(t) \/ ThreadDestroyBlocked(t) PROVE Goes
  <2>1. Forced(t)
    BY <1>1, IsForced, Zenon DEF Interrupt
  <2> QED BY <2>1, WayForced, ServesForced, Zenon DEF Goes
<1>2. ASSUME NEW t \in Thread, ThreadDestroy(t) PROVE Goes
  <2>1. /\ state[t] = "RUN" /\ state' = [state EXCEPT ![t] = "DEAD"]
        /\ server' = ServerWithout(t) /\ client' = [client EXCEPT ![t] = NONE]
        /\ UNCHANGED <<blocked_on, tflags>>
    BY <1>2, Zenon DEF ThreadDestroy
  <2>2. Only(t) /\ state'[t] = "DEAD"
    BY <2>1, Zenon DEF Only, Bystander, Asked, TypeOK, ThreadTypes
  <2>3. \A x \in Thread : Way(x)
    BY <2>1, <2>2, MovesOne, Zenon DEF Asked
  <2> QED BY <2>1, <2>2, <2>3, ServesDrop, Zenon DEF Goes
<1>3. ASSUME NEW p \in Proc, Exit(p) PROVE Goes
  <2>1. /\ UNCHANGED <<state, blocked_on, server, client>>
        /\ tflags' = [t \in Thread |-> IF process[t] = p /\ state[t] # "DEAD"
                                         THEN tflags[t] \cup {"KILLSELF"} ELSE tflags[t]]
    BY <1>3, Zenon DEF Exit
  <2>2. \A x \in Thread : /\ Asked(x)' <=> Asked(x)
                          /\ "UNBLOCK_QUEUED" \in tflags'[x] => "UNBLOCK_QUEUED" \in tflags[x]
    BY <2>1, Zenon DEF Asked
  <2> QED BY <1>b, <2>1, <2>2, Zenon
<1>4. ASSUME NEW p \in Proc,
             \/ \E f \in Coid : ConnectDetach(p, f)
             \/ \E c \in Conn : ServerDetach(p, c)
             \/ \E ch \in Chan : ChannelDestroy(p, ch)
      PROVE  Goes
  <2>1. UNCHANGED threadVars
    BY <1>4, Zenon DEF ConnectDetach, ServerDetach, ChannelDestroy
  <2> QED BY <1>b, <2>1, Zenon DEF threadVars, Asked
<1> QED BY <1>1, <1>2, <1>3, <1>4, Zenon DEF LifeStep

\* ChannelDestroy releases the clients of the channel without unblock pulses,
\* but the channel is unavailable then.
LEMMA LongCallGoes ==
    ASSUME Inv, ClientIsServed, LongCallStep
    PROVE  Goes
<1> USE DEF Inv
<1>a. NONE \notin Thread
  BY IpcAssumption
<1>b. ASSUME UNCHANGED threadVars PROVE Goes
  <2>1. Only(NONE)
    BY <1>b, NobodyMoves, Zenon DEF threadVars, Asked
  <2> QED BY <1>a, <1>b, <2>1, MovesOne, ServesSame, Zenon DEF Goes, threadVars
<1>c. ASSUME NEW t \in Thread, force_ready(t) PROVE Goes
  BY <1>c, IsForced, WayForced, ServesForced, Zenon DEF Goes
<1>d. \A ch \in Chan : sendq[ch] \subseteq Thread /\ recvq[ch] \subseteq Thread /\ replyq[ch] \subseteq Thread
  BY DEF TypeOK, ChanTypes
<1>1. ASSUME NEW t \in Thread, DetachThread(t) PROVE Goes
  BY <1>1, <1>c, Zenon DEF DetachThread
<1>2. CASE DetachFinish
  <2> DEFINE c == fd[ker.slot]
  <2>1. PICK o \in DetachPulse(c) : Become(NONE, "RUN", {}, o.wake) /\ Unblocked({o.wake})
    BY <1>2, Zenon DEF DetachFinish
  <2>2. UNCHANGED <<server, client>> /\ ker.op = "detach"
    BY <1>2, Zenon DEF DetachFinish
  <2>3. c \in Conn
    BY <2>2, DetachLink, Zenon
  <2> HIDE DEF c
  <2>4. Only(NONE)
    BY <2>1, <2>3, DetachedReceiver, BecomeOnly, Zenon
  <2> QED BY <1>a, <2>2, <2>4, MovesOne, ServesSame, Zenon DEF Goes
<1>3. CASE DestroySend \/ DestroyReceive
  <2>1. ker.chan \in Chan
    BY <1>3, Zenon DEF DestroySend, DestroyReceive, LongCallSafe
  <2>2. (\E t \in Thread : force_ready(t)) \/ UNCHANGED threadVars
    BY <1>3, <1>d, <2>1, Zenon DEF DestroySend, DestroyReceive
  <2> QED BY <1>b, <1>c, <2>2, Zenon
<1>4. CASE DestroyReply
  <2>1. ker.op = "reply" /\ ker.chan \in Chan /\ chst[ker.chan] = "DYING"
    BY <1>4, Zenon DEF DestroyReply, LongCallSafe
  <2>2. PICK t \in replyq[ker.chan] : force_ready_release(t, "RUN", tflags[t])
    BY <1>4, Zenon DEF DestroyReply
  <2>3. t \in Thread /\ ChanOf(t) = ker.chan
    BY <1>d, <2>1, <2>2, Zenon DEF QueuesMatch
  <2>4. ~Protected(t)
    BY <2>1, <2>3, Zenon DEF Protected
  <2> QED BY <2>2, <2>3, <2>4, WayRelease, ServesRelease, Zenon DEF Goes
<1>5. CASE \/ DestroyReceived \/ DestroyReplied \/ (\E c \in Conn : DestroyConn(c))
           \/ DestroyFree \/ Preempt
  <2>1. UNCHANGED threadVars
    BY <1>5, Zenon DEF DestroyReceived, DestroyReplied, DestroyConn, DestroyFree, Preempt
  <2> QED BY <1>b, <2>1, Zenon
<1> QED BY <1>1, <1>2, <1>3, <1>4, <1>5, Zenon DEF LongCallStep

\* Every step, when no reply buffer faults.
LEMMA NextGoes ==
    ASSUME Inv, ClientIsServed, ReceiversAtHome, ReplyFault = FALSE, Next
    PROVE  Goes
<1>1. CASE ServerStep
  <2>1. PICK s \in Thread :
        \/ \E ch \in Chan :
             \/ MsgReceivePulse(s, ch) \/ MsgReceive(s, ch) \/ MsgReceiveDropSender(s, ch)
             \/ MsgReceiveFail(s, ch) \/ MsgReceiveBlock(s, ch, FALSE)
             \/ s \in PulseReceivers /\ MsgReceiveBlock(s, ch, TRUE)
             \/ ChannelCreate(s, ch)
        \/ \E t \in Thread, c \in Conn :
             \/ MsgReply(s, t, c) \/ MsgReplyFault(s, t, c) \/ MsgReplyPreempted(s, t, c)
             \/ MsgReplyStale(s, t, c) \/ MsgError(s, t, c) \/ MsgCurrent(s, t, c)
        \/ MsgCurrentNone(s)
    BY <1>1, Zenon DEF ServerStep
  <2>2. \A t \in Thread, c \in Conn : ~MsgReplyFault(s, t, c)
    BY Zenon DEF MsgReplyFault
  <2>3. CASE MsgCurrentNone(s)
    <3>1. /\ UNCHANGED <<state, blocked_on, tflags>>
          /\ server' = ServerWithout(s) /\ client' = [client EXCEPT ![s] = NONE]
      BY <2>3, Zenon DEF MsgCurrentNone
    <3>2. Only(NONE)
      BY <3>1, NobodyMoves, Zenon DEF Asked
    <3> QED BY <3>1, <3>2, IpcAssumption, MovesOne, ServesDrop, Zenon DEF Goes
  <2> QED BY <2>1, <2>2, <2>3, ReceiveGoes, ReplyGoes, Zenon
<1> QED BY <1>1, ClientGoes, LifeGoes, LongCallGoes, Zenon DEF Next

\* Only connect_detach, the server's detach and the end of a channel take the
\* channel from a connection, and only an unused connection gets one.
LEMMA NextKeepsChannels ==
    ASSUME Inv, Next
    PROVE  ChannelsKept
<1>a. cchan \in [Conn -> Chan \cup {NONE}] /\ NONE \notin Chan
  BY IpcAssumption, Zenon DEF Inv, TypeOK, ConnTypes
<1>1. ASSUME NEW c, cchan' = [cchan EXCEPT ![c] = NONE] \/ cchan' = cchan PROVE ChannelsKept
  BY <1>1, <1>a, Zenon DEF ChannelsKept
<1>2. ASSUME NEW c, NEW o, NEW pl, connect_detach(c, o, pl) PROVE ChannelsKept
  BY <1>2, <1>a, Zenon DEF connect_detach, ChannelsKept
<1>3. ASSUME NEW t, force_ready(t) \/ ThreadDestroyBlocked(t) PROVE ChannelsKept
  <2>1. Forced(t)
    BY <1>3, IsForced, Zenon
  <2>2. cchan' = cchan \/ (\E c, o : connect_detach(c, o, pulses))
    BY <2>1, Zenon DEF Forced, force_ready_defer, force_ready_release
  <2> QED BY <1>1, <1>2, <2>2, Zenon
<1>4. CASE ClientStep
  <2>1. PICK t \in Thread, f \in Coid :
            \/ MsgSendDirect(t, f) \/ MsgSendRcvFault(t, f) \/ MsgSendQueue(t, f)
            \/ MsgSendPulse(t, f)
            \/ \E ch \in Chan : ConnectAttachShare(t, f, ch) \/ ConnectAttachNew(t, f, ch)
    BY <1>4, Zenon DEF ClientStep
  <2>3. CASE \/ MsgSendDirect(t, f) \/ MsgSendRcvFault(t, f) \/ MsgSendQueue(t, f) \/ MsgSendPulse(t, f)
             \/ \E ch \in Chan : ConnectAttachShare(t, f, ch)
    <3>1. cchan' = cchan
      BY <2>3, Zenon DEF MsgSendDirect, MsgSendRcvFault, MsgSendQueue, MsgSendPulse,
         ConnectAttachShare, connVars
    <3> QED BY <1>1, <3>1, Zenon
  <2>4. ASSUME NEW ch, ConnectAttachNew(t, f, ch) PROVE ChannelsKept
    <3>1. PICK c \in Conn : cchan[c] = NONE /\ cchan' = [cchan EXCEPT ![c] = ch]
      BY <2>4, Zenon DEF ConnectAttachNew
    <3> QED BY <1>a, <3>1, Zenon DEF ChannelsKept
  <2> QED BY <2>1, <2>3, <2>4, Zenon
<1>5. CASE ServerStep
  <2>1. PICK s \in Thread :
        \/ \E ch \in Chan :
             \/ MsgReceivePulse(s, ch) \/ MsgReceive(s, ch) \/ MsgReceiveDropSender(s, ch)
             \/ MsgReceiveFail(s, ch) \/ MsgReceiveBlock(s, ch, FALSE)
             \/ s \in PulseReceivers /\ MsgReceiveBlock(s, ch, TRUE)
             \/ ChannelCreate(s, ch)
        \/ \E t \in Thread, c \in Conn :
             \/ MsgReply(s, t, c) \/ MsgReplyFault(s, t, c) \/ MsgReplyPreempted(s, t, c)
             \/ MsgReplyStale(s, t, c) \/ MsgError(s, t, c) \/ MsgCurrent(s, t, c)
        \/ MsgCurrentNone(s)
    BY <1>5, Zenon DEF ServerStep
  <2>2. ASSUME NEW ch \in Chan,
               \/ MsgReceivePulse(s, ch) \/ MsgReceive(s, ch) \/ MsgReceiveDropSender(s, ch)
               \/ MsgReceiveFail(s, ch) \/ MsgReceiveBlock(s, ch, FALSE)
               \/ MsgReceiveBlock(s, ch, TRUE)
               \/ ChannelCreate(s, ch)
        PROVE  ChannelsKept
    <3>1. cchan' = cchan \/ \E t : force_ready(t)
      BY <2>2, Zenon DEF MsgReceivePulse, MsgReceive, MsgReceiveDropSender, MsgReceiveFail,
         MsgReceiveBlock, ChannelCreate, chanVars, connVars
    <3> QED BY <1>1, <1>3, <3>1, Zenon
  <2>3. ASSUME NEW t \in Thread, NEW c \in Conn,
               \/ MsgReply(s, t, c) \/ MsgReplyFault(s, t, c) \/ MsgReplyPreempted(s, t, c)
               \/ MsgReplyStale(s, t, c) \/ MsgError(s, t, c) \/ MsgCurrent(s, t, c)
        PROVE  ChannelsKept
    <3>1. cchan' = cchan \/ \E fl : Replied(t, c, fl)
      BY <2>3, Zenon DEF MsgReply, MsgReplyFault, MsgReplyPreempted, MsgReplyStale, MsgError,
         MsgCurrent, connVars
    <3>2. ASSUME NEW fl, Replied(t, c, fl) PROVE ChannelsKept
      BY <1>2, <3>2, Zenon DEF Replied
    <3> QED BY <1>1, <3>1, <3>2, Zenon
  <2>4. CASE MsgCurrentNone(s)
    BY <1>1, <2>4, Zenon DEF MsgCurrentNone, connVars
  <2> QED BY <2>1, <2>2, <2>3, <2>4, Zenon
<1>6. CASE LifeStep
  <2>1. \/ \E t : force_ready(t) \/ ThreadDestroyBlocked(t)
        \/ \E c : cchan' = [cchan EXCEPT ![c] = NONE] \/ cchan' = cchan
    BY <1>6, ZenonT(40) DEF LifeStep, Interrupt, ThreadDestroy, Exit, ConnectDetach, ServerDetach,
       ChannelDestroy, connVars
  <2> QED BY <1>1, <1>3, <2>1, Zenon
<1>7. CASE LongCallStep
  <2>1. \/ \E t : force_ready(t) \/ (\E fl : force_ready_release(t, "RUN", fl))
        \/ \E c, o : connect_detach(c, o, pulses)
        \/ \E c : cchan' = [cchan EXCEPT ![c] = NONE] \/ cchan' = cchan
    BY <1>7, ZenonT(40) DEF LongCallStep, DetachThread, DetachFinish, DestroySend, DestroyReceive,
       DestroyReceived, DestroyReply, DestroyReplied, DestroyConn, DestroyFree, Preempt, connVars
  <2>2. ASSUME NEW t, NEW fl, force_ready_release(t, "RUN", fl) PROVE ChannelsKept
    BY <1>1, <1>2, <2>2, Zenon DEF force_ready_release
  <2> QED BY <1>1, <1>2, <1>3, <2>1, <2>2, Zenon
<1> QED BY <1>4, <1>5, <1>6, <1>7, Zenon DEF Next
=============================================================================
