------------------------------ MODULE ByteQueue ------------------------------
(***************************************************************************)
(* What a Buffer promises: a queue of bytes.  The bytes are numbered in    *)
(* the order in which they are put in.                                     *)
(***************************************************************************)
EXTENDS Naturals, Sequences

CONSTANT MaxBytes       \* bound: bytes put into the queue

VARIABLES queue,        \* the bytes in the queue, oldest first
          entered       \* how many were ever put in

vars == <<queue, entered>>

Init == queue = <<>> /\ entered = 0

\* The next n bytes.
Fresh(n) == [i \in 1 .. n |-> entered + i]

Put(n) ==
    /\ queue' = queue \o Fresh(n)
    /\ entered' = entered + n

Take(n) ==
    /\ queue' = SubSeq(queue, n + 1, Len(queue))
    /\ UNCHANGED entered

Next ==
    \/ \E n \in 0 .. MaxBytes : entered + n <= MaxBytes /\ Put(n)
    \/ \E n \in 0 .. Len(queue) : Take(n)

Spec == Init /\ [][Next]_vars
=============================================================================
