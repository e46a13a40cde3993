----------------------------- MODULE MCEventLoop -----------------------------
(* The instance of EventLoop that TLC checks.                              *)
EXTENDS EventLoop

CONSTANTS c1, c2, f1, f2, f3, io
=============================================================================
