---------------------------- MODULE FunctorQueue ----------------------------
(***************************************************************************)
(* What an Event_Loop promises to the threads that hand it work through    *)
(* queue_in_loop: a mailbox.  A functor that was handed over waits in the  *)
(* queue, the loop's thread executes the functors in the order in which    *)
(* they were handed over, and each of them at most once.  Nothing is said  *)
(* here of mutexes, of the swap into a local vector or of the eventfd that *)
(* wakes the loop; module EventLoop has them and implements this one.      *)
(***************************************************************************)
EXTENDS Sequences

CONSTANT Functors       \* the closures handed over, each a distinct object

VARIABLES queue,        \* handed over and not executed yet, oldest first
          done          \* executed, in the order of execution

vars == <<queue, done>>

Waiting == {queue[i] : i \in DOMAIN queue}
Executed == {done[i] : i \in DOMAIN done}

Init == queue = <<>> /\ done = <<>>

\* Some thread hands over a functor that was never handed over before.
Submit(f) ==
    /\ f \notin Waiting \cup Executed
    /\ queue' = Append(queue, f)
    /\ UNCHANGED done

\* The loop's thread executes the oldest waiting functor.
Execute ==
    /\ queue # <<>>
    /\ done' = Append(done, Head(queue))
    /\ queue' = Tail(queue)

Next == Execute \/ \E f \in Functors : Submit(f)

Spec == Init /\ [][Next]_vars
=============================================================================
