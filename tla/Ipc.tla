--------------------------------- MODULE Ipc ---------------------------------
(***************************************************************************)
(* Synchronous message passing: channels, connections, SEND / RECEIVE /    *)
(* REPLY blocking, pulses, unblock pulses, forced wake-ups and the         *)
(* destruction of threads, connections and channels.                       *)
(*                                                                         *)
(* A kernel call runs with the kernel locked and is one action.  The two   *)
(* long calls, ConnectDetach and ChannelDestroy, may be preempted between  *)
(* iterations of their loops (KER_PREEMPT): then the call starts again     *)
(* from its beginning.  `ker' is the long call that holds the kernel; no   *)
(* other call runs while it is not idle.                                   *)
(*                                                                         *)
(* A call that fails without changing anything is a stuttering step.  The  *)
(* order of the queues and the priorities are left open here: a channel    *)
(* queue is a set, and whichever entry is taken is chosen freely.  Local   *)
(* connections only (no network manager, no virtual connects), plain       *)
(* channels (not asynchronous or global), and no process has a death       *)
(* channel.  A scoid is identified with its connection object.             *)
(***************************************************************************)
EXTENDS Naturals, FiniteSets

CONSTANTS
    Proc, Thread, Chan, Conn, Coid,
    process,        \* thp->process:  [Thread -> Proc]
    chproc,         \* chp->process:  [Chan -> Proc]
    chflags,        \* chp->flags:    [Chan -> SUBSET {"UNBLOCK", "DISCONNECT"}]
    MayAttach,      \* <<process, channel>>: who connects to which channel
    Mortal,         \* threads that may be destroyed one by one
    MayExit,        \* processes that may exit as a whole
    Destroyable,    \* channels their process may destroy
    PulseReceivers, \* threads that call MsgReceivePulse
    ReplyFault,     \* BOOLEAN: the buffers of servers may fault, in MsgReply before the
                    \* transfer, in MsgReceive when a queued pulse is copied out
    AllocOk,        \* possible outcomes of allocating a pulse
    MaxUserPulse,   \* bound: user pulses queued on one channel
    NONE

ASSUME IpcAssumption ==
    /\ IsFiniteSet(Thread) /\ IsFiniteSet(Proc) /\ IsFiniteSet(Coid)
    /\ NONE \notin Proc \cup Thread \cup Chan \cup Conn
    /\ process \in [Thread -> Proc]
    /\ chproc \in [Chan -> Proc]
    /\ chflags \in [Chan -> SUBSET {"UNBLOCK", "DISCONNECT"}]
    /\ AllocOk \subseteq BOOLEAN
    /\ ReplyFault \in BOOLEAN
    /\ MaxUserPulse \in Nat

VARIABLES
    \* struct thread_entry
    state,          \* STATE_*; "RUN" is READY or RUNNING
    blocked_on,     \* connection (SEND, REPLY) or channel (RECEIVE)
    server,         \* args.ms.server
    client,         \* client
    coid,           \* args.ms.coid
    tflags,         \* UNBLOCK_REQ, KILLSELF; internal UNBLOCK_QUEUED, RCVPULSE
    \* struct channel_entry
    chst,           \* "FREE", "LIVE", or "DYING" (flagged unavailable)
    sendq, recvq, replyq,   \* threads in the three queues
    pulses,         \* pulses in the send queue, by kind
    \* struct connect_entry
    cproc,          \* cop->process
    cchan,          \* cop->channel; not NULL while in the server's chancons vector
    links,          \* cop->links
    fd,             \* the clients' connection vectors
    \* struct process_entry, kernel
    pst,            \* "LIVE", "DESTROYALL", "TERMING"
    ker,            \* the long kernel call in progress: its loop (op), arguments, the
                    \* threads left to unblock and whether an iteration has run
    \* what servers know and what was lost
    owed,           \* rcvids a server holds and has not answered
    told,           \* rcvids whose unblock pulse the server has got
    leaked          \* a channel was freed with entries still queued on it

threadVars == <<state, blocked_on, server, client, coid, tflags>>
chanVars   == <<chst, sendq, recvq, replyq, pulses>>
connVars   == <<cproc, cchan, links, fd>>
vars == <<state, blocked_on, server, client, coid, tflags,
          chst, sendq, recvq, replyq, pulses,
          cproc, cchan, links, fd, pst, ker, owed, told, leaked>>

Unblock(t, c) == <<"UNBLOCK", t, c>>
Disconnect(c) == <<"DISCONNECT", c>>
User          == <<"USER">>
PulseKind == {Unblock(t, c) : t \in Thread, c \in Conn}
                \cup {Disconnect(c) : c \in Conn} \cup {User}
NoPulses == [k \in PulseKind |-> 0]

Rcvid == Thread \X Conn
Idle == [op |-> "idle", slot |-> NONE, chan |-> NONE, todo |-> {}, ran |-> FALSE]
-----------------------------------------------------------------------------
Running(t) == ker = Idle /\ state[t] = "RUN" /\ "KILLSELF" \notin tflags[t]

\* A thread of p, or the terminator that cleans up after it, may call.
Active(p) == ker = Idle /\ (pst[p] = "TERMING" \/ \E t \in Thread : process[t] = p /\ Running(t))

\* The channel thread t is send or reply blocked on.
ChanOf(t) == cchan[blocked_on[t]]

\* The receivers pulse_deliver and MsgSend look at first: pulse-only
\* receivers are kept at the end of the receive queue.
MsgReceivers(ch) == {r \in recvq[ch] : "RCVPULSE" \notin tflags[r]}

Queued   == [ok |-> TRUE,  wake |-> NONE, add |-> 1]
Dropped  == [ok |-> FALSE, wake |-> NONE, add |-> 0]
Woken(r) == [ok |-> TRUE,  wake |-> r,    add |-> 0]

\* The possible outcomes of delivering a pulse to channel ch: it goes to a
\* waiting receiver, is refused by a dying process, or is queued if a pulse
\* can be allocated.
pulse_deliver(ch) ==
    IF MsgReceivers(ch) # {} THEN {Woken(r) : r \in MsgReceivers(ch)}
    ELSE IF recvq[ch] # {} THEN {Woken(r) : r \in recvq[ch]}
    ELSE IF pst[chproc[ch]] = "TERMING" THEN {Dropped}
    ELSE {IF a THEN Queued ELSE Dropped : a \in AllocOk}

PulseAdded(pl, ch, k, o) == [pl EXCEPT ![ch][k] = @ + o.add]
RecvqAfter(ch, o) == [recvq EXCEPT ![ch] = @ \ {o.wake}]

\* Thread t gets state st and flags fl; receiver w, if any, is made ready.
Become(t, st, fl, w) ==
    /\ state' = [x \in Thread |->
            IF x = t THEN st ELSE IF x = w THEN "RUN" ELSE state[x]]
    /\ tflags' = [x \in Thread |->
            IF x = t THEN fl ELSE IF x = w THEN tflags[x] \ {"RCVPULSE"} ELSE tflags[x]]

\* blocked_on and args.ms.coid are only read while the thread is blocked.
Unblocked(S) ==
    /\ blocked_on' = [x \in Thread |-> IF x \in S THEN NONE ELSE blocked_on[x]]
    /\ coid' = [x \in Thread |-> IF x \in S THEN NONE ELSE coid[x]]

\* t's server no longer works for t.
ClientWithout(t) == IF server[t] = NONE THEN client ELSE [client EXCEPT ![server[t]] = NONE]
\* s no longer works for its client.
ServerWithout(s) == IF client[s] = NONE THEN server ELSE [server EXCEPT ![client[s]] = NONE]

\* What connect_detach sends to the server when the last link of c goes.
WantsDisconnect(c) ==
    links[c] = 1 /\ cchan[c] # NONE /\ "DISCONNECT" \in chflags[cchan[c]]
DetachPulse(c) == IF WantsDisconnect(c) THEN pulse_deliver(cchan[c]) ELSE {Dropped}

\* --cop->links, with connect_detach(cop) when it drops to 0; pl are the pulses
\* before it.  A connection
\* of a DISCONNECT channel stays in the server's vector until the server
\* detaches it; any other is freed.
connect_detach(c, o, pl) ==
    LET last == links[c] = 1
        free == last /\ ~WantsDisconnect(c)
    IN /\ links' = [links EXCEPT ![c] = @ - 1]
       /\ cproc' = [cproc EXCEPT ![c] = IF last THEN NONE ELSE @]
       /\ cchan' = [cchan EXCEPT ![c] = IF free THEN NONE ELSE @]
       /\ pulses' = IF WantsDisconnect(c) THEN PulseAdded(pl, cchan[c], Disconnect(c), o) ELSE pl
       /\ recvq' = IF WantsDisconnect(c) THEN RecvqAfter(cchan[c], o) ELSE recvq

\* rcvids of a connection object that was freed name nothing any more.
Stale(c) == IF links[c] = 1 /\ ~WantsDisconnect(c) THEN {r \in Rcvid : r[2] = c} ELSE {}
-----------------------------------------------------------------------------
(***************************************************************************)
(* force_ready                                                             *)
(***************************************************************************)
\* Mutant: only the first attempt to wake the thread is deferred.
unblock_needed_once(t) ==
    LET ch == ChanOf(t) IN
    /\ state[t] = "REPLY" /\ "UNBLOCK_QUEUED" \notin tflags[t]
    /\ ch # NONE
    /\ "UNBLOCK" \in chflags[ch]
    /\ pst[chproc[ch]] = "LIVE"

\* A reply-blocked thread of an UNBLOCK channel whose process is not dying
\* may not leave before the server agrees.
unblock_needed(t) ==
    LET ch == ChanOf(t) IN
    /\ state[t] = "REPLY"
    /\ ch # NONE
    /\ "UNBLOCK" \in chflags[ch]
    /\ pst[chproc[ch]] = "LIVE"

\* The wake-up is deferred: the server is sent an unblock pulse, unless one is
\* queued already, and the thread stays reply blocked.
force_ready_defer(t, kill) ==
    LET ch == ChanOf(t)
        c  == blocked_on[t]
        fl == tflags[t] \cup {"UNBLOCK_REQ", "UNBLOCK_QUEUED"}
                        \cup (IF kill THEN {"KILLSELF"} ELSE {})
    IN /\ unblock_needed(t)
       /\ \/ /\ "UNBLOCK_QUEUED" \in tflags[t]
             /\ tflags' = [tflags EXCEPT ![t] = fl]
             /\ UNCHANGED <<state, blocked_on, coid, pulses, recvq, told>>
          \/ /\ "UNBLOCK_QUEUED" \notin tflags[t]
             /\ \E o \in pulse_deliver(ch) :
                  /\ o.ok
                  /\ Become(t, "REPLY", fl, o.wake)
                  /\ Unblocked({o.wake})
                  /\ pulses' = PulseAdded(pulses, ch, Unblock(t, c), o)
                  /\ recvq' = RecvqAfter(ch, o)
                  /\ told' = IF o.wake # NONE THEN told \cup {<<t, c>>} ELSE told
       /\ UNCHANGED <<server, client, chst, sendq, replyq, cproc, cchan, links, fd, owed>>

\* The client and server links when t is released, and, when it is to die,
\* thread_destroy clears its own client too.
ReleaseLinks(t, st) ==
    LET reply == state[t] = "REPLY"
        cl == IF reply THEN ClientWithout(t) ELSE client
        sv == IF reply THEN [server EXCEPT ![t] = NONE] ELSE server
    IN /\ client' = IF st = "DEAD" THEN [cl EXCEPT ![t] = NONE] ELSE cl
       /\ server' = IF st = "DEAD" /\ cl[t] # NONE THEN [sv EXCEPT ![cl[t]] = NONE] ELSE sv

\* The thread leaves its queue; it ends in state st with flags fl.
force_ready_release(t, st, fl) ==
    /\ ReleaseLinks(t, st)
    /\ \/ /\ state[t] = "RECEIVE"
          /\ Become(t, st, fl \ {"RCVPULSE"}, NONE)
          /\ Unblocked({t})
          /\ recvq' = [recvq EXCEPT ![blocked_on[t]] = @ \ {t}]
          /\ UNCHANGED <<sendq, replyq, pulses, cproc, cchan, links, owed, told>>
       \/ /\ state[t] \in {"SEND", "REPLY"}
          /\ \E o \in DetachPulse(blocked_on[t]) :
               /\ Become(t, st, fl, o.wake)
               /\ Unblocked({t, o.wake})
               /\ connect_detach(blocked_on[t], o, pulses)
          /\ sendq' = [sendq EXCEPT ![ChanOf(t)] = @ \ {t}]
          /\ replyq' = [replyq EXCEPT ![ChanOf(t)] = @ \ {t}]
          /\ owed' = owed \ Stale(blocked_on[t])
          /\ told' = told \ Stale(blocked_on[t])
    /\ UNCHANGED <<chst, fd>>

\* The unblock pulse was needed but could not be delivered: the thread is let
\* go as if the server had handled it.
unblock_failed(t) ==
    /\ unblock_needed(t)
    /\ "UNBLOCK_QUEUED" \notin tflags[t]
    /\ Dropped \in pulse_deliver(ChanOf(t))

\* force_ready(thp, err) on a blocked thread.
force_ready(t) ==
    \/ force_ready_defer(t, FALSE)
    \/ unblock_failed(t) /\ force_ready_release(t, "RUN", tflags[t] \ {"UNBLOCK_REQ"})
    \/ ~unblock_needed(t) /\ force_ready_release(t, "RUN", tflags[t])

\* A signal, a cancellation or a timeout unblocks t.
Interrupt(t) ==
    /\ ker = Idle
    /\ force_ready(t)
    /\ UNCHANGED <<pst, ker, leaked>>
-----------------------------------------------------------------------------
(***************************************************************************)
(* ker_msg_sendv and ker_msg_sendpulse                                     *)
(***************************************************************************)
\* Thread t may send through coid f.
Connected(t, f) ==
    LET c == fd[<<process[t], f>>] IN Running(t) /\ c # NONE /\ cchan[c] # NONE

\* A thread waits in MsgReceive: it takes the message and becomes the server
\* of the sender, which goes straight to REPLY.
MsgSendDirect(t, f) ==
    LET c == fd[<<process[t], f>>]
        ch == cchan[c]
    IN /\ Connected(t, f)
       /\ \E r \in MsgReceivers(ch) :
            /\ Become(t, "REPLY", tflags[t], r)
            /\ blocked_on' = [blocked_on EXCEPT ![t] = c, ![r] = NONE]
            /\ recvq' = [recvq EXCEPT ![ch] = @ \ {r}]
            /\ server' = [server EXCEPT ![t] = r]
            /\ client' = [client EXCEPT ![r] = t]
       /\ coid' = [coid EXCEPT ![t] = f]
       /\ replyq' = [replyq EXCEPT ![ch] = @ \cup {t}]
       /\ links' = [links EXCEPT ![c] = @ + 1]
       /\ owed' = owed \cup {<<t, c>>}
       /\ told' = told \ {<<t, c>>}
       /\ UNCHANGED <<chst, sendq, pulses, cproc, cchan, fd, pst, ker, leaked>>

\* The receiver's buffer faults: it is woken with an error and the send is
\* restarted.
MsgSendRcvFault(t, f) ==
    LET ch == cchan[fd[<<process[t], f>>]]
    IN /\ Connected(t, f)
       /\ \E r \in MsgReceivers(ch) :
            /\ state' = [state EXCEPT ![r] = "RUN"]
            /\ blocked_on' = [blocked_on EXCEPT ![r] = NONE]
            /\ recvq' = [recvq EXCEPT ![ch] = @ \ {r}]
       /\ UNCHANGED <<server, client, coid, tflags, chst, sendq, replyq, pulses,
                      cproc, cchan, links, fd, pst, ker, owed, told, leaked>>

\* No thread waits for messages: the sender joins the send queue.
MsgSendQueue(t, f) ==
    LET c == fd[<<process[t], f>>]
        ch == cchan[c]
    IN /\ Connected(t, f)
       /\ MsgReceivers(ch) = {}
       /\ pst[chproc[ch]] # "TERMING"
       /\ state' = [state EXCEPT ![t] = "SEND"]
       /\ blocked_on' = [blocked_on EXCEPT ![t] = c]
       /\ coid' = [coid EXCEPT ![t] = f]
       /\ sendq' = [sendq EXCEPT ![ch] = @ \cup {t}]
       /\ links' = [links EXCEPT ![c] = @ + 1]
       /\ UNCHANGED <<server, client, tflags, chst, recvq, replyq, pulses,
                      cproc, cchan, fd, pst, ker, owed, told, leaked>>

MsgSendPulse(t, f) ==
    LET ch == cchan[fd[<<process[t], f>>]]
    IN /\ Connected(t, f)
       /\ pulses[ch][User] < MaxUserPulse
       /\ \E o \in pulse_deliver(ch) :
            /\ Become(NONE, "RUN", {}, o.wake)
            /\ Unblocked({o.wake})
            /\ pulses' = PulseAdded(pulses, ch, User, o)
            /\ recvq' = RecvqAfter(ch, o)
       /\ UNCHANGED <<server, client, chst, sendq, replyq, connVars, pst, ker, owed, told, leaked>>
-----------------------------------------------------------------------------
(***************************************************************************)
(* ker_msg_receivev                                                        *)
(***************************************************************************)
CanReceive(s, ch) == Running(s) /\ chproc[ch] = process[s] /\ chst[ch] = "LIVE"

\* A queued pulse is taken; the server now works for no client.  When its buffer
\* faults (EFAULT) the pulse is gone and the server does not know of it.
MsgReceivePulse(s, ch) ==
    /\ CanReceive(s, ch)
    /\ \E k \in PulseKind :
         /\ pulses[ch][k] > 0
         /\ pulses' = [pulses EXCEPT ![ch][k] = @ - 1]
         /\ \/ told' = told \cup {r \in Rcvid : k = Unblock(r[1], r[2])}
            \/ ReplyFault /\ told' = told
    /\ server' = ServerWithout(s)
    /\ client' = [client EXCEPT ![s] = NONE]
    /\ UNCHANGED <<state, blocked_on, coid, tflags, chst, sendq, recvq, replyq,
                   connVars, pst, ker, owed, leaked>>

\* A queued message is taken: its sender moves from SEND to REPLY.
MsgReceive(s, ch) ==
    /\ CanReceive(s, ch)
    /\ \E t \in sendq[ch] :
         LET c == blocked_on[t] IN
         /\ server' = [ServerWithout(s) EXCEPT ![t] = s]
         /\ client' = [client EXCEPT ![s] = t]
         /\ sendq' = [sendq EXCEPT ![ch] = @ \ {t}]
         /\ replyq' = [replyq EXCEPT ![ch] = @ \cup {t}]
         /\ state' = [state EXCEPT ![t] = "REPLY"]
         /\ owed' = owed \cup {<<t, c>>}
         /\ told' = told \ {<<t, c>>}
    /\ UNCHANGED <<blocked_on, coid, tflags, chst, recvq, pulses, connVars, pst, ker, leaked>>

\* The sender's buffer faults, or it asked not to wait for a reply: the sender
\* is unblocked and the receive starts again.
MsgReceiveDropSender(s, ch) ==
    /\ CanReceive(s, ch)
    /\ \E t \in sendq[ch] : force_ready(t)
    /\ UNCHANGED <<pst, ker, leaked>>

\* The receiver's buffer faults, or its immediate timeout or pending
\* cancellation ends the call.
MsgReceiveFail(s, ch) ==
    /\ CanReceive(s, ch)
    /\ server' = ServerWithout(s)
    /\ client' = [client EXCEPT ![s] = NONE]
    /\ UNCHANGED <<state, blocked_on, coid, tflags, chanVars, connVars, pst, ker, owed, told, leaked>>

\* Nothing to receive: the thread joins the receive queue.
MsgReceiveBlock(s, ch, pulseonly) ==
    /\ CanReceive(s, ch)
    /\ pulses[ch] = NoPulses
    /\ pulseonly \/ sendq[ch] = {}
    /\ server' = ServerWithout(s)
    /\ client' = [client EXCEPT ![s] = NONE]
    /\ state' = [state EXCEPT ![s] = "RECEIVE"]
    /\ blocked_on' = [blocked_on EXCEPT ![s] = ch]
    /\ tflags' = [tflags EXCEPT ![s] = @ \cup (IF pulseonly THEN {"RCVPULSE"} ELSE {})]
    /\ recvq' = [recvq EXCEPT ![ch] = @ \cup {s}]
    /\ UNCHANGED <<coid, chst, sendq, replyq, pulses, connVars, pst, ker, owed, told, leaked>>
-----------------------------------------------------------------------------
(***************************************************************************)
(* ker_msg_replyv, ker_msg_error, ker_msg_current                          *)
(***************************************************************************)
\* Thread s holds the rcvid <<t, c>>.
Holds(s, t, c) ==
    Running(s) /\ <<t, c>> \in owed /\ cchan[c] # NONE /\ chproc[cchan[c]] = process[s]

\* lookup_rcvid and the checks after it.
lookup_rcvid(s, t, c) ==
    /\ Holds(s, t, c)
    /\ cproc[c] # NONE
    /\ state[t] = "REPLY" /\ blocked_on[t] = c

\* The pulses and the flags of t once its queued unblock pulse is removed.
remove_unblock(t, c) ==
    IF "UNBLOCK_QUEUED" \in tflags[t] THEN [pulses EXCEPT ![cchan[c]][Unblock(t, c)] = 0] ELSE pulses

\* The sender is taken off the reply queue and made ready with flags fl.
Replied(t, c, fl) ==
    /\ \E o \in DetachPulse(c) :
         /\ Become(t, "RUN", fl, o.wake)
         /\ Unblocked({t, o.wake})
         /\ connect_detach(c, o, remove_unblock(t, c))
    /\ replyq' = [replyq EXCEPT ![cchan[c]] = @ \ {t}]
    /\ owed' = owed \ (Stale(c) \cup {<<t, c>>})
    /\ told' = told \ (Stale(c) \cup {<<t, c>>})
    /\ UNCHANGED <<chst, sendq, fd, pst, ker, leaked>>

\* Mutant: the server keeps its client.
MsgReply_keep_client(s, t, c) ==
    /\ lookup_rcvid(s, t, c)
    /\ Replied(t, c, tflags[t] \ {"UNBLOCK_QUEUED", "UNBLOCK_REQ"})
    /\ server' = [server EXCEPT ![t] = NONE]
    /\ UNCHANGED client

\* Mutant: remove_unblock leaves UNBLOCK_QUEUED set.
MsgReply_keep_queued(s, t, c) ==
    /\ lookup_rcvid(s, t, c)
    /\ Replied(t, c, tflags[t] \ {"UNBLOCK_REQ"})
    /\ client' = ClientWithout(t)
    /\ server' = [server EXCEPT ![t] = NONE]

\* The reply, with its data transferred or faulting in the long transfer.
MsgReply(s, t, c) ==
    /\ lookup_rcvid(s, t, c)
    /\ Replied(t, c, tflags[t] \ {"UNBLOCK_QUEUED", "UNBLOCK_REQ"})
    /\ client' = ClientWithout(t)
    /\ server' = [server EXCEPT ![t] = NONE]

\* The reply buffer faults in the checks and copies before that: the sender is
\* woken with ESRVRFAULT by way of xfer_err.
MsgReplyFault(s, t, c) ==
    /\ ReplyFault
    /\ lookup_rcvid(s, t, c)
    /\ Replied(t, c, tflags[t] \ {"UNBLOCK_QUEUED"})
    /\ UNCHANGED <<client, server>>

\* The call is preempted after it removed the unblock pulse; it will be
\* restarted.  Until then an interruption of t sends another pulse.
MsgReplyPreempted(s, t, c) ==
    /\ lookup_rcvid(s, t, c)
    /\ "UNBLOCK_QUEUED" \in tflags[t]
    /\ pulses' = remove_unblock(t, c)
    /\ tflags' = [tflags EXCEPT ![t] = @ \ {"UNBLOCK_QUEUED"}]
    /\ UNCHANGED <<state, blocked_on, server, client, coid, chst, sendq, recvq, replyq,
                   connVars, pst, ker, owed, told, leaked>>

\* The rcvid names no reply-blocked thread (ESRCH): the server forgets it.
MsgReplyStale(s, t, c) ==
    /\ Holds(s, t, c) /\ ~lookup_rcvid(s, t, c)
    /\ owed' = owed \ {<<t, c>>}
    /\ told' = told \ {<<t, c>>}
    /\ UNCHANGED <<threadVars, chanVars, connVars, pst, ker, leaked>>

\* Mutant: MsgError forgets the unblock flags.
MsgError_keep_flags(s, t, c) ==
    /\ lookup_rcvid(s, t, c)
    /\ client' = ClientWithout(t)
    /\ server' = [server EXCEPT ![t] = NONE]
    /\ Replied(t, c, tflags[t])

MsgError(s, t, c) ==
    /\ lookup_rcvid(s, t, c)
    /\ client' = ClientWithout(t)
    /\ server' = [server EXCEPT ![t] = NONE]
    /\ Replied(t, c, tflags[t] \ {"UNBLOCK_QUEUED", "UNBLOCK_REQ"})

\* Mutant: the thread that had the message keeps it, and the old client of s
\* keeps its server.
MsgCurrent_keep_old(s, t, c) ==
    /\ lookup_rcvid(s, t, c)
    /\ server' = [server EXCEPT ![t] = s]
    /\ client' = [client EXCEPT ![s] = t]
    /\ UNCHANGED <<state, blocked_on, coid, tflags, chanVars, connVars, pst, ker, owed, told, leaked>>

\* Server thread s takes over the message of t from the thread that had it.
MsgCurrent(s, t, c) ==
    /\ lookup_rcvid(s, t, c)
    /\ server' = [ServerWithout(s) EXCEPT ![t] = s]
    /\ LET cl == [client EXCEPT ![s] = NONE]
           old == ServerWithout(s)[t]
       IN client' = [x \in Thread |-> IF x = s THEN t ELSE IF x = old THEN NONE ELSE cl[x]]
    /\ UNCHANGED <<state, blocked_on, coid, tflags, chanVars, connVars, pst, ker, owed, told, leaked>>

\* MsgCurrent with rcvid 0, or one that names no reply-blocked thread: s works
\* for no client.
MsgCurrentNone(s) ==
    /\ Running(s)
    /\ server' = ServerWithout(s)
    /\ client' = [client EXCEPT ![s] = NONE]
    /\ UNCHANGED <<state, blocked_on, coid, tflags, chanVars, connVars, pst, ker, owed, told, leaked>>
-----------------------------------------------------------------------------
(***************************************************************************)
(* Threads and processes                                                   *)
(***************************************************************************)
\* The process of t is terminating once its last thread is dead.
ProcAfterDeath(t) ==
    IF \A x \in Thread : process[x] = process[t] => x = t \/ state[x] = "DEAD"
      THEN [pst EXCEPT ![process[t]] = "TERMING"] ELSE pst

\* ker_thread_destroy of one thread, by itself or by a running sibling;
\* KILLSELF on the way back to the user; or the caller of exit killing its
\* siblings.
MayDestroy(t) ==
    /\ ker = Idle
    /\ \/ /\ t \in Mortal
          /\ \E u \in Thread : process[u] = process[t] /\ Running(u)
       \/ "KILLSELF" \in tflags[t] /\ state[t] = "RUN"
       \/ /\ pst[process[t]] = "DESTROYALL"
          /\ \E u \in Thread : process[u] = process[t] /\ state[u] = "RUN"

\* thread_destroy of a thread that is not blocked.
ThreadDestroy(t) ==
    /\ MayDestroy(t) /\ state[t] = "RUN"
    /\ state' = [state EXCEPT ![t] = "DEAD"]
    /\ server' = ServerWithout(t)
    /\ client' = [client EXCEPT ![t] = NONE]
    /\ pst' = ProcAfterDeath(t)
    /\ UNCHANGED <<blocked_on, coid, tflags, chanVars, connVars, ker, owed, told, leaked>>
\* thread_destroy of a blocked thread: it dies now, or when the server lets it
\* go.
ThreadDestroyBlocked(t) ==
    /\ MayDestroy(t)
    /\ \/ force_ready_defer(t, TRUE) /\ UNCHANGED pst
       \/ /\ \/ unblock_failed(t) /\ force_ready_release(t, "DEAD", tflags[t] \ {"UNBLOCK_REQ"})
             \/ ~unblock_needed(t) /\ force_ready_release(t, "DEAD", tflags[t])
          /\ pst' = ProcAfterDeath(t)
    /\ UNCHANGED <<ker, leaked>>

\* thread_destroyall: a thread of p calls exit.
Exit(p) ==
    /\ p \in MayExit /\ pst[p] = "LIVE"
    /\ \E t \in Thread : process[t] = p /\ Running(t)
    /\ pst' = [pst EXCEPT ![p] = "DESTROYALL"]
    /\ tflags' = [t \in Thread |->
            IF process[t] = p /\ state[t] # "DEAD" THEN tflags[t] \cup {"KILLSELF"} ELSE tflags[t]]
    /\ UNCHANGED <<state, blocked_on, server, client, coid, chanVars, connVars, ker, owed, told, leaked>>
-----------------------------------------------------------------------------
(***************************************************************************)
(* Connections                                                             *)
(***************************************************************************)
CanAttach(t, f, ch) ==
    /\ Running(t) /\ <<process[t], ch>> \in MayAttach
    /\ fd[<<process[t], f>>] = NONE
    /\ chst[ch] = "LIVE" /\ pst[chproc[ch]] # "TERMING"

\* Mutant: sharing a connection does not count a link.
ConnectAttachShare_no_link(t, f, ch) ==
    /\ CanAttach(t, f, ch)
    /\ \E c \in Conn :
         /\ cproc[c] = process[t] /\ cchan[c] = ch /\ links[c] > 0
         /\ fd' = [fd EXCEPT ![<<process[t], f>>] = c]
    /\ UNCHANGED <<threadVars, chanVars, cproc, cchan, links, pst, ker, owed, told, leaked>>

\* ker_connect_attach finds a connection of the process to the channel.
ConnectAttachShare(t, f, ch) ==
    /\ CanAttach(t, f, ch)
    /\ \E c \in Conn :
         /\ cproc[c] = process[t] /\ cchan[c] = ch /\ links[c] > 0
         /\ \/ \E g \in Coid : fd[<<process[t], g>>] = c
            \/ chproc[ch] = process[t]
         /\ links' = [links EXCEPT ![c] = @ + 1]
         /\ fd' = [fd EXCEPT ![<<process[t], f>>] = c]
    /\ UNCHANGED <<threadVars, chanVars, cproc, cchan, pst, ker, owed, told, leaked>>

\* A new connection: none exists, or the caller wants one of its own.
ConnectAttachNew(t, f, ch) ==
    /\ CanAttach(t, f, ch)
    /\ \E c \in Conn :
         /\ links[c] = 0 /\ cchan[c] = NONE
         /\ links' = [links EXCEPT ![c] = 1]
         /\ cproc' = [cproc EXCEPT ![c] = process[t]]
         /\ cchan' = [cchan EXCEPT ![c] = ch]
         /\ fd' = [fd EXCEPT ![<<process[t], f>>] = c]
    /\ UNCHANGED <<threadVars, chanVars, pst, ker, owed, told, leaked>>

\* ker_connect_detach takes the kernel: it first unblocks the threads of the
\* process that are blocked through this coid.
ConnectDetach(p, f) ==
    /\ Active(p)
    /\ fd[<<p, f>>] # NONE
    /\ ker' = [op |-> "detach", slot |-> <<p, f>>, chan |-> NONE,
               todo |-> {t \in Thread : /\ process[t] = p /\ coid[t] = f
                                        /\ state[t] \in {"SEND", "REPLY"}},
               ran |-> TRUE]
    /\ UNCHANGED <<threadVars, chanVars, connVars, pst, owed, told, leaked>>

DetachThread(t) ==
    /\ ker.op = "detach" /\ t \in ker.todo
    /\ force_ready(t)
    /\ ker' = [ker EXCEPT !.todo = @ \ {t}]
    /\ UNCHANGED <<pst, leaked>>

\* Then the coid goes, and with its last link the connection.
DetachFinish ==
    LET c == fd[ker.slot] IN
    /\ ker.op = "detach" /\ ker.todo = {}
    /\ fd' = [fd EXCEPT ![ker.slot] = NONE]
    /\ \E o \in DetachPulse(c) :
         /\ Become(NONE, "RUN", {}, o.wake)
         /\ Unblocked({o.wake})
         /\ connect_detach(c, o, pulses)
    /\ ker' = Idle
    /\ owed' = owed \ Stale(c)
    /\ told' = told \ Stale(c)
    /\ UNCHANGED <<server, client, chst, sendq, replyq, pst, leaked>>

\* ker_connect_detach by the server of a connection whose client is gone; a
\* server does so when it has received the disconnect pulse.
ServerDetach(p, c) ==
    /\ Active(p)
    /\ links[c] = 0 /\ cchan[c] # NONE /\ chproc[cchan[c]] = p
    /\ pulses[cchan[c]][Disconnect(c)] = 0
    /\ cchan' = [cchan EXCEPT ![c] = NONE]
    /\ owed' = {r \in owed : r[2] # c}
    /\ told' = {r \in told : r[2] # c}
    /\ UNCHANGED <<threadVars, chanVars, cproc, links, fd, pst, ker, leaked>>
-----------------------------------------------------------------------------
(***************************************************************************)
(* Channels                                                                *)
(***************************************************************************)
ChannelCreate(t, ch) ==
    /\ Running(t) /\ chproc[ch] = process[t]
    /\ chst[ch] = "FREE"
    /\ chst' = [chst EXCEPT ![ch] = "LIVE"]
    /\ UNCHANGED <<threadVars, sendq, recvq, replyq, pulses, connVars, pst, ker, owed, told, leaked>>

\* ker_channel_destroy takes the kernel and hides the channel from lookups.
ChannelDestroy(p, ch) ==
    /\ Active(p) /\ chproc[ch] = p
    /\ chst[ch] # "FREE" /\ (ch \in Destroyable \/ pst[p] = "TERMING")
    /\ chst' = [chst EXCEPT ![ch] = "DYING"]
    /\ ker' = [op |-> "send", slot |-> NONE, chan |-> ch, todo |-> {}, ran |-> FALSE]
    /\ UNCHANGED <<threadVars, sendq, recvq, replyq, pulses, connVars, pst, owed, told, leaked>>
\* First loop: the send queue.
DestroySend ==
    LET ch == ker.chan IN
    /\ ker.op = "send"
    /\ \/ \E t \in sendq[ch] : force_ready(t)
       \/ /\ \E k \in PulseKind :
               pulses[ch][k] > 0 /\ pulses' = [pulses EXCEPT ![ch][k] = 0]
          /\ UNCHANGED <<threadVars, chst, sendq, recvq, replyq, connVars, owed, told>>
    /\ ker' = [ker EXCEPT !.ran = TRUE]
    /\ UNCHANGED <<pst, leaked>>

\* Second loop, when the send queue is empty: the receive queue.
DestroyReceive ==
    LET ch == ker.chan IN
    /\ ker.op = "send" /\ sendq[ch] = {} /\ pulses[ch] = NoPulses
    /\ \E t \in recvq[ch] : force_ready(t)
    /\ ker' = [ker EXCEPT !.ran = TRUE]
    /\ UNCHANGED <<pst, leaked>>

\* Mutant: the call goes on while a thread is still send blocked.
DestroyReceived_early ==
    LET ch == ker.chan IN
    /\ ker.op = "send" /\ pulses[ch] = NoPulses /\ recvq[ch] = {}
    /\ ker' = [ker EXCEPT !.op = "reply"]
    /\ UNCHANGED <<threadVars, chanVars, connVars, pst, owed, told, leaked>>

DestroyReceived ==
    LET ch == ker.chan IN
    /\ ker.op = "send" /\ sendq[ch] = {} /\ pulses[ch] = NoPulses /\ recvq[ch] = {}
    /\ ker' = [ker EXCEPT !.op = "reply"]
    /\ UNCHANGED <<threadVars, chanVars, connVars, pst, owed, told, leaked>>

\* Third loop: the reply queue, without unblock pulses.
DestroyReply ==
    /\ ker.op = "reply"
    /\ \E t \in replyq[ker.chan] : force_ready_release(t, "RUN", tflags[t])
    /\ ker' = [ker EXCEPT !.ran = TRUE]
    /\ UNCHANGED <<pst, leaked>>

\* Mutant: reply-blocked threads are left behind.
DestroyReplied_early ==
    /\ ker.op = "reply"
    /\ ker' = [ker EXCEPT !.op = "conns", !.ran = TRUE]
    /\ UNCHANGED <<threadVars, chanVars, connVars, pst, owed, told, leaked>>

DestroyReplied ==
    /\ ker.op = "reply" /\ replyq[ker.chan] = {}
    /\ ker' = [ker EXCEPT !.op = "conns", !.ran = TRUE]
    /\ UNCHANGED <<threadVars, chanVars, connVars, pst, owed, told, leaked>>

\* Fourth loop: the connections lose their channel; those without a client
\* are freed.
DestroyConn(c) ==
    /\ ker.op = "conns" /\ cchan[c] = ker.chan
    /\ cchan' = [cchan EXCEPT ![c] = NONE]
    /\ owed' = {r \in owed : r[2] # c}
    /\ told' = {r \in told : r[2] # c}
    /\ UNCHANGED <<threadVars, chanVars, cproc, links, fd, pst, ker, leaked>>

\* The channel object is freed.
DestroyFree ==
    LET ch == ker.chan IN
    /\ ker.op = "conns" /\ \A c \in Conn : cchan[c] # ch
    /\ chst' = [chst EXCEPT ![ch] = "FREE"]
    /\ pulses' = [pulses EXCEPT ![ch] = NoPulses]
    /\ leaked' = (leaked \/ pulses[ch] # NoPulses)
    /\ ker' = Idle
    /\ UNCHANGED <<threadVars, sendq, recvq, replyq, connVars, pst, owed, told>>

\* KER_PREEMPT in a long call.
Preempt ==
    /\ ker # Idle /\ ker.ran
    /\ ker' = Idle
    /\ UNCHANGED <<threadVars, chanVars, connVars, pst, owed, told, leaked>>
-----------------------------------------------------------------------------
Init ==
    /\ state = [t \in Thread |-> "RUN"]
    /\ blocked_on = [t \in Thread |-> NONE]
    /\ server = [t \in Thread |-> NONE]
    /\ client = [t \in Thread |-> NONE]
    /\ coid = [t \in Thread |-> NONE]
    /\ tflags = [t \in Thread |-> {}]
    /\ chst = [ch \in Chan |-> "FREE"]
    /\ sendq = [ch \in Chan |-> {}]
    /\ recvq = [ch \in Chan |-> {}]
    /\ replyq = [ch \in Chan |-> {}]
    /\ pulses = [ch \in Chan |-> NoPulses]
    /\ cproc = [c \in Conn |-> NONE]
    /\ cchan = [c \in Conn |-> NONE]
    /\ links = [c \in Conn |-> 0]
    /\ fd = [s \in Proc \X Coid |-> NONE]
    /\ pst = [p \in Proc |-> "LIVE"]
    /\ ker = Idle
    /\ owed = {}
    /\ told = {}
    /\ leaked = FALSE

ClientStep ==
    \E t \in Thread, f \in Coid :
        \/ MsgSendDirect(t, f) \/ MsgSendRcvFault(t, f) \/ MsgSendQueue(t, f)
        \/ MsgSendPulse(t, f)
        \/ \E ch \in Chan : ConnectAttachShare(t, f, ch) \/ ConnectAttachNew(t, f, ch)

ServerStep ==
    \E s \in Thread :
        \/ \E ch \in Chan :
             \/ MsgReceivePulse(s, ch) \/ MsgReceive(s, ch) \/ MsgReceiveDropSender(s, ch)
             \/ MsgReceiveFail(s, ch) \/ MsgReceiveBlock(s, ch, FALSE)
             \/ s \in PulseReceivers /\ MsgReceiveBlock(s, ch, TRUE)
             \/ ChannelCreate(s, ch)
        \/ \E t \in Thread, c \in Conn :
             \/ MsgReply(s, t, c) \/ MsgReplyFault(s, t, c) \/ MsgReplyPreempted(s, t, c)
             \/ MsgReplyStale(s, t, c) \/ MsgError(s, t, c) \/ MsgCurrent(s, t, c)
        \/ MsgCurrentNone(s)

LifeStep ==
    \/ \E t \in Thread : Interrupt(t) \/ ThreadDestroy(t) \/ ThreadDestroyBlocked(t)
    \/ \E p \in Proc :
         \/ Exit(p)
         \/ \E f \in Coid : ConnectDetach(p, f)
         \/ \E c \in Conn : ServerDetach(p, c)
         \/ \E ch \in Chan : ChannelDestroy(p, ch)

LongCallStep ==
    \/ \E t \in Thread : DetachThread(t)
    \/ DetachFinish
    \/ DestroySend \/ DestroyReceive \/ DestroyReceived \/ DestroyReply \/ DestroyReplied
    \/ \E c \in Conn : DestroyConn(c)
    \/ DestroyFree
    \/ Preempt

Next == ClientStep \/ ServerStep \/ LifeStep \/ LongCallStep

Spec == Init /\ [][Next]_vars

\* A server that does its part: it receives each unblock pulse queued on its
\* channel, and before it waits for something else it answers the rcvid of an
\* unblock pulse and goes on with a reply that was preempted after it removed the
\* pulse.  The fairness is strong because these calls are not enabled while a long
\* call of another thread holds the kernel.
ReceiveUnblock(t, c) ==
    \E s \in Thread, ch \in Chan :
        MsgReceivePulse(s, ch) /\ pulses'[ch][Unblock(t, c)] < pulses[ch][Unblock(t, c)]
TakenBack(t, c) ==
    state[t] = "REPLY" /\ blocked_on[t] = c
        /\ "UNBLOCK_REQ" \in tflags[t] /\ "UNBLOCK_QUEUED" \notin tflags[t]
AnswerUnblock(t, c) ==
    \E s \in Thread :
        \/ <<t, c>> \in told /\ MsgError(s, t, c)
        \/ TakenBack(t, c) /\ MsgReply(s, t, c)

AnswersFirst ==
    \A s \in Thread : state[s] = "RUN" /\ state'[s] = "RECEIVE" =>
        told = {} /\ \A t \in Thread, c \in Conn : ~TakenBack(t, c)

-----------------------------------------------------------------------------
(***************************************************************************)
(* Properties                                                              *)
(***************************************************************************)
\* The types of the thread, channel, connection and process entries, and of the
\* call in progress; the link count and pulse counts never go below zero.
Flags == {"UNBLOCK_REQ", "UNBLOCK_QUEUED", "KILLSELF", "RCVPULSE"}
ThreadTypes ==
    /\ state \in [Thread -> {"RUN", "SEND", "RECEIVE", "REPLY", "DEAD"}]
    /\ blocked_on \in [Thread -> Conn \cup Chan \cup {NONE}]
    /\ coid \in [Thread -> Coid \cup {NONE}]
    /\ tflags \in [Thread -> SUBSET Flags]
PartnerTypes ==
    /\ server \in [Thread -> Thread \cup {NONE}]
    /\ client \in [Thread -> Thread \cup {NONE}]
ChanTypes ==
    /\ chst \in [Chan -> {"FREE", "LIVE", "DYING"}]
    /\ sendq \in [Chan -> SUBSET Thread]
    /\ recvq \in [Chan -> SUBSET Thread]
    /\ replyq \in [Chan -> SUBSET Thread]
    /\ pulses \in [Chan -> [PulseKind -> Nat]]
ConnTypes ==
    /\ cproc \in [Conn -> Proc \cup {NONE}]
    /\ cchan \in [Conn -> Chan \cup {NONE}]
    /\ links \in [Conn -> Nat]
    /\ fd \in [Proc \X Coid -> Conn \cup {NONE}]
KernelTypes ==
    /\ pst \in [Proc -> {"LIVE", "DESTROYALL", "TERMING"}]
    /\ ker \in [op : {"idle", "detach", "send", "reply", "conns"},
                slot : (Proc \X Coid) \cup {NONE}, chan : Chan \cup {NONE},
                todo : SUBSET Thread, ran : BOOLEAN]
    /\ owed \subseteq Rcvid
    /\ told \subseteq Rcvid
    /\ leaked \in BOOLEAN
TypeOK == ThreadTypes /\ PartnerTypes /\ ChanTypes /\ ConnTypes /\ KernelTypes

\* A thread is in exactly the queue its state and blocked_on name.  In
\* particular the channel of a send or reply blocked thread's connection is
\* there when force_ready takes the thread off its queue, and no queue of a
\* freed channel holds a thread.
QueuesMatch ==
    /\ \A t \in Thread :
         /\ state[t] \in {"SEND", "REPLY"} => blocked_on[t] \in Conn /\ ChanOf(t) # NONE
         /\ state[t] = "RECEIVE" => blocked_on[t] \in Chan
    /\ \A ch \in Chan, t \in Thread :
         /\ t \in sendq[ch] <=> state[t] = "SEND" /\ ChanOf(t) = ch
         /\ t \in replyq[ch] <=> state[t] = "REPLY" /\ ChanOf(t) = ch
         /\ t \in recvq[ch] <=> state[t] = "RECEIVE" /\ blocked_on[t] = ch
    /\ \A c \in Conn : cchan[c] # NONE => chst[cchan[c]] # "FREE"

\* cop->links counts the coids that name the connection and the threads that
\* are send or reply blocked on it: force_ready never finds it 0 (crash), and
\* the connection is freed exactly when nothing refers to it.
Coids(c)   == {s \in Proc \X Coid : fd[s] = c}
Waiters(c) == {t \in Thread : state[t] \in {"SEND", "REPLY"} /\ blocked_on[t] = c}
LinkCount ==
    \A c \in Conn :
        /\ links[c] = Cardinality(Coids(c)) + Cardinality(Waiters(c))
        /\ links[c] > 0 => cproc[c] # NONE

\* A client's server works for that client: force_ready never finds the server
\* of a reply-blocked thread without a client (crash).  A thread that waits in
\* MsgReceive works for nobody.
ServerHasClient ==
    \A t \in Thread :
        /\ server[t] # NONE => client[server[t]] = t
        /\ state[t] = "RECEIVE" => client[t] = NONE

\* While a long call holds the kernel, what it works on stays as it left it:
\* the coid is still attached, the threads to unblock are still blocked, the
\* channel is still there, and the queues whose loops are done hold no thread
\* when the channel's connections lose it.
LongCallSafe ==
    /\ ker.op = "detach" =>
         /\ ker.slot \in Proc \X Coid /\ fd[ker.slot] # NONE
         /\ \A t \in ker.todo : state[t] \in {"SEND", "REPLY"}
    /\ ker.op \in {"send", "reply", "conns"} => ker.chan \in Chan /\ chst[ker.chan] = "DYING"
    /\ ker.op \in {"reply", "conns"} => sendq[ker.chan] = {} /\ recvq[ker.chan] = {}
    /\ ker.op = "conns" => replyq[ker.chan] = {}

\* The client a server thread works for is a thread that is reply blocked on a
\* channel of the server's process and names it as its server.
ClientIsServed ==
    \A s \in Thread : client[s] # NONE =>
        /\ state[client[s]] = "REPLY"
        /\ server[client[s]] = s
        /\ chproc[ChanOf(client[s])] = process[s]

\* A thread that was asked to leave an UNBLOCK channel of a live process and counts as
\* announced there (UNBLOCK_QUEUED: force_ready sends no other pulse for it) is waiting
\* for a server that has received its unblock pulse or finds it in the queue.
UnblockAnnounced ==
    \A t \in Thread :
        /\ unblock_needed(t) /\ chst[ChanOf(t)] = "LIVE"
        /\ "UNBLOCK_QUEUED" \in tflags[t]
        =>
            \/ pulses[ChanOf(t)][Unblock(t, blocked_on[t])] > 0
            \/ <<t, blocked_on[t]>> \in told

\* UNBLOCK_REQ, which MsgInfo reports to the server, is only set on a thread that is
\* reply blocked: a message is never received with an unblock already pending.
UnblockReqFresh ==
    \A t \in Thread : "UNBLOCK_REQ" \in tflags[t] => state[t] = "REPLY"

\* What _NTO_CHF_UNBLOCK promises a server: while it holds a rcvid, the client
\* stays reply blocked on it, whatever interrupts or kills the client.
UnblockContract ==
    \A r \in owed :
        LET ch == cchan[r[2]] IN
        (/\ ch # NONE /\ chst[ch] = "LIVE"
         /\ pst[chproc[ch]] = "LIVE" /\ "UNBLOCK" \in chflags[ch])
            => state[r[1]] = "REPLY" /\ blocked_on[r[1]] = r[2]

\* When ChannelDestroy frees the channel nothing is queued on it.
NothingLeaked == ~leaked
=============================================================================
