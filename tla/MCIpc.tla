-------------------------------- MODULE MCIpc --------------------------------
(***************************************************************************)
(* Small instances of Ipc: a client process P1 with threads t1 and t2 and  *)
(* a server process P2 with threads s1 and s2.                             *)
(***************************************************************************)
EXTENDS Ipc

CONSTANTS P1, P2, t1, t2, s1, s2

MCprocess == [t \in Thread |-> IF t \in {t1, t2} THEN P1 ELSE P2]
MCchproc == [ch \in Chan |-> P2]
MCMayAttach == {P1} \X Chan

Unblocking == [ch \in Chan |-> {"UNBLOCK"}]
Disconnecting == [ch \in Chan |-> {"DISCONNECT"}]
Both == [ch \in Chan |-> {"UNBLOCK", "DISCONNECT"}]

\* What ker_msg_sendv says where it hands a message to a waiting receiver: the sending
\* thread does not have an unblock pending.
SentWithoutUnblock ==
    [][\A t \in Thread, f \in Coid :
         MsgSendDirect(t, f) => tflags[t] \cap {"UNBLOCK_REQ", "UNBLOCK_QUEUED"} = {}]_vars
=============================================================================
