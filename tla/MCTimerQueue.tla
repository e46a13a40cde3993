----------------------------- MODULE MCTimerQueue -----------------------------
(* The instances of TimerQueue that TLC checks.                            *)
EXTENDS TimerQueue

CONSTANTS p1, p2
=============================================================================
