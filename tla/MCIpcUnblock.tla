---------------------------- MODULE MCIpcUnblock ----------------------------
(***************************************************************************)
(* An instance of Ipc for the questions about a live server, in three      *)
(* scenarios that are chosen once:                                         *)
(*   unblock   two interruptible clients, two connections, two servers on  *)
(*             an UNBLOCK channel;                                         *)
(*   serving   a channel that is destroyed, dying clients, user pulses;    *)
(*   answers   one server that answers the unblock pulses it receives.     *)
(* The constants of the configuration are those of "unblock".              *)
(***************************************************************************)
EXTENDS MCIpc

CONSTANTS c1, f1

VARIABLE scenario

Serving == INSTANCE Ipc WITH chflags <- Disconnecting, Mortal <- {s1}, Destroyable <- Chan,
                             PulseReceivers <- {s2}, MaxUserPulse <- 1
Answers == INSTANCE Ipc WITH chflags <- Both, Mortal <- {t1}

MCvars == <<vars, scenario>>

\* One connection with one coid; in "answers" the second server thread does nothing.
OneCoid == \A p \in Proc, f \in Coid : fd'[<<p, f>>] \in {NONE} \cup (IF f = f1 THEN {c1} ELSE {})
Asleep(t) == state'[t] = state[t] /\ client'[t] = NONE

MCInit == Init /\ scenario \in {"unblock", "serving", "answers"}
AnswersNext == scenario = "answers" /\ Answers!Next /\ AnswersFirst /\ OneCoid /\ Asleep(s2)
MCNext ==
    /\ \/ scenario = "unblock" /\ Next
       \/ scenario = "serving" /\ Serving!Next /\ OneCoid
       \/ AnswersNext
    /\ UNCHANGED scenario

MCSpec ==
    /\ MCInit /\ [][MCNext]_MCvars
    /\ WF_vars(scenario = "answers" /\ Answers!LongCallStep)
    /\ \A t \in {t1, t2} :
         /\ SF_vars(scenario = "answers" /\ Answers!ReceiveUnblock(t, c1) /\ Asleep(s2))
         /\ SF_vars(scenario = "answers" /\ Answers!AnswerUnblock(t, c1) /\ Asleep(s2))

\* What _NTO_CHF_UNBLOCK promises a server, where its channel has the flag: while the
\* server holds a rcvid the client stays reply blocked on it, whatever interrupts it.
ContractKept == scenario # "serving" => UnblockContract

\* A thread that was asked to leave (force_ready set UNBLOCK_REQ) is let go in the end when
\* the server answers the unblock pulses it receives: a killed client does not hang.
LetGoInTheEnd ==
    \A t \in {t1, t2} :
        (scenario = "answers" /\ state[t] = "REPLY" /\ "UNBLOCK_REQ" \in tflags[t])
            ~> state[t] # "REPLY"
=============================================================================
