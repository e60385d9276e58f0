---------------------------- MODULE MCTimerQueue ----------------------------
(* An instance of TimerQueue for TLC: the second timer is a soft one. *)
EXTENDS TimerQueue

CONSTANTS t1, t2

MCTimers == {t1, t2}
MCSoft == {t2}
MCAheads == {-17, -2, 1, 4}
=============================================================================
