--------------------------- MODULE MCIpcTeardown ----------------------------
(***************************************************************************)
(* An instance of Ipc with everything that may go away, in two scenarios   *)
(* that are chosen once:                                                   *)
(*   clients  two clients and one server;                                  *)
(*   servers  t2 is a second server, which at times waits for pulses only, *)
(*            and the client, with one coid, sends pulses and may exit.    *)
(* The constants of the configuration are those of "clients".              *)
(***************************************************************************)
EXTENDS MCIpc

CONSTANT f2

VARIABLE scenario

Servers == INSTANCE Ipc WITH process <- [MCprocess EXCEPT ![t2] = P2], PulseReceivers <- {t2}, MaxUserPulse <- 1,
                             MayExit <- Proc

MCInit == Init /\ scenario \in {"clients", "servers"}
MCNext ==
    /\ \/ scenario = "clients" /\ Next
       \/ scenario = "servers" /\ Servers!Next /\ \A p \in Proc : fd'[<<p, f2>>] = NONE
    /\ UNCHANGED scenario
MCSpec == MCInit /\ [][MCNext]_<<vars, scenario>>
=============================================================================
