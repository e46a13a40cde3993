--------------------------- MODULE MCLoopThreadPool --------------------------
(* The instances of LoopThreadPool that TLC checks.                        *)
EXTENDS LoopThreadPool

MCThreads == (1 .. num_threads_) \cup {Owner}
MCLocks == {"mutex_", "latch_"} \X (1 .. num_threads_)
=============================================================================
