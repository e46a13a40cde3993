--------------------------- MODULE EventLoopProofs ---------------------------
(***************************************************************************)
(* Proofs about EventLoop, for any number of threads, functors, channels   *)
(* and any limit of the eventfd: the type invariant, exactly-once FIFO     *)
(* execution, the absence of a missed wakeup, and the refinement of the    *)
(* mailbox.                                                                *)
(***************************************************************************)
EXTENDS EventLoop, SequenceTheorems, TLAPS

USE LoopAssumption

-----------------------------------------------------------------------------
(* Sequences.                                                              *)

\* What queue_in_loop does to the tail end of a queue appends to the whole.
LEMMA AppendToConcat ==
    ASSUME NEW S, NEW s \in Seq(S), NEW t \in Seq(S), NEW e \in S
    PROVE  s \o Append(t, e) = Append(s \o t, e)
<1>1. <<e>> \in Seq(S)
    OBVIOUS
<1>2. s \o t \in Seq(S)
    BY ConcatProperties
<1>3. Append(t, e) = t \o <<e>> /\ Append(s \o t, e) = (s \o t) \o <<e>>
    BY <1>2, AppendIsConcat
<1> QED
    BY <1>1, <1>3, ConcatAssociative

\* Moving the head of one sequence to the end of another leaves the
\* concatenation of the two as it is: run_functor.
LEMMA MoveHead ==
    ASSUME NEW S, NEW s \in Seq(S), NEW t \in Seq(S), t # <<>>
    PROVE  Append(s, Head(t)) \o Tail(t) = s \o t
<1>1. /\ Head(t) \in S /\ Tail(t) \in Seq(S)
      /\ Len(Tail(t)) = Len(t) - 1
      /\ \A i \in 1 .. Len(Tail(t)) : Tail(t)[i] = t[i + 1]
    BY HeadTailProperties
<1>2. <<Head(t)>> \in Seq(S)
    BY <1>1
<1>3. <<Head(t)>> \o Tail(t) = t
  <2>1. /\ <<Head(t)>> \o Tail(t) \in Seq(S)
        /\ Len(<<Head(t)>> \o Tail(t)) = 1 + Len(Tail(t))
        /\ \A i \in 1 .. 1 + Len(Tail(t)) :
              (<<Head(t)>> \o Tail(t))[i] = IF i <= 1 THEN Head(t) ELSE Tail(t)[i - 1]
    BY <1>1, <1>2, ConcatProperties
  <2>2. Len(t) \in Nat \ {0} /\ Head(t) = t[1]
    BY EmptySeq
  <2>3. ASSUME NEW i \in 1 .. Len(t)
        PROVE  (<<Head(t)>> \o Tail(t))[i] = t[i]
    <3>1. CASE i = 1
        BY <2>1, <2>2, <1>1, <3>1
    <3>2. CASE i # 1
      <4>1. i - 1 \in 1 .. Len(Tail(t)) /\ i \in 1 .. 1 + Len(Tail(t)) /\ ~(i <= 1)
        BY <3>2, <1>1, <2>2
      <4>2. (<<Head(t)>> \o Tail(t))[i] = Tail(t)[i - 1]
        BY <4>1, <2>1
      <4>3. Tail(t)[i - 1] = t[(i - 1) + 1] /\ (i - 1) + 1 = i
        BY <4>1, <1>1
      <4> QED
        BY <4>2, <4>3
    <3> QED
        BY <3>1, <3>2
  <2>4. Len(<<Head(t)>> \o Tail(t)) = Len(t)
    BY <2>1, <1>1, <2>2
  <2> QED
    BY <2>1, <2>3, <2>4, SeqEqual
<1>4. Append(s, Head(t)) = s \o <<Head(t)>>
    BY <1>1, AppendIsConcat
<1> QED
    BY <1>1, <1>2, <1>3, <1>4, ConcatAssociative

\* Taking the head of the batch does not disturb what is queued behind it.
LEMMA HeadTailOfConcat ==
    ASSUME NEW S, NEW s \in Seq(S), NEW t \in Seq(S), s # <<>>
    PROVE  /\ s \o t # <<>>
           /\ Head(s \o t) = Head(s)
           /\ Tail(s \o t) = Tail(s) \o t
<1>1. /\ Head(s) \in S /\ Tail(s) \in Seq(S)
    BY HeadTailProperties
<1>e. <<>> \in Seq(S) /\ Append(<<>>, Head(s)) = <<Head(s)>>
    OBVIOUS
<1>2. s = <<Head(s)>> \o Tail(s)
  <2>1. Append(<<>>, Head(s)) \o Tail(s) = <<>> \o s
    BY <1>e, MoveHead
  <2> QED
    BY <2>1, <1>e, ConcatEmptySeq
<1> DEFINE u == Tail(s) \o t
<1>3. <<Head(s)>> \in Seq(S) /\ u \in Seq(S)
    BY <1>1, ConcatProperties
<1>4. s \o t = <<Head(s)>> \o u
    BY <1>1, <1>2, <1>3, ConcatAssociative
<1>5. Len(s) \in Nat \ {0} /\ Len(t) \in Nat
    BY EmptySeq, LenProperties
<1>6. s \o t # <<>> /\ s \o t \in Seq(S)
    BY <1>5, ConcatProperties, EmptySeq
<1>7. Head(s \o t) = Head(s)
  <2>1. Head(s \o t) = (s \o t)[1] /\ Head(s) = s[1]
    OBVIOUS
  <2> QED
    BY <2>1, <1>5, ConcatProperties
<1>8. <<Head(s)>> \o Tail(s \o t) = <<Head(s)>> \o u
  <2>1. Append(<<>>, Head(s \o t)) \o Tail(s \o t) = <<>> \o (s \o t)
    BY <1>e, <1>6, MoveHead
  <2>2. <<>> \o (s \o t) = s \o t
    BY <1>6, ConcatEmptySeq
  <2> QED
    BY <2>1, <2>2, <1>e, <1>7, <1>4
<1>9. Tail(s \o t) \in Seq(S)
    BY <1>6, HeadTailProperties
<1> QED
    BY <1>3, <1>6, <1>7, <1>8, <1>9, ConcatSimplifications

\* The functors of two queues put end to end are those of both.
LEMMA ElementsOfConcat ==
    ASSUME NEW S, NEW s \in Seq(S), NEW t \in Seq(S)
    PROVE  Elements(s \o t) = Elements(s) \cup Elements(t)
<1>1. /\ s \o t \in Seq(S) /\ Len(s \o t) = Len(s) + Len(t)
      /\ \A i \in 1 .. Len(s) + Len(t) : (s \o t)[i] =
              IF i <= Len(s) THEN s[i] ELSE t[i - Len(s)]
    BY ConcatProperties
<1>2. /\ DOMAIN s = 1 .. Len(s) /\ Len(s) \in Nat
      /\ DOMAIN t = 1 .. Len(t) /\ Len(t) \in Nat
      /\ DOMAIN (s \o t) = 1 .. Len(s) + Len(t)
    BY <1>1, LenProperties
<1>3. ASSUME NEW x \in Elements(s \o t)
      PROVE  x \in Elements(s) \cup Elements(t)
  <2>1. PICK i \in 1 .. Len(s) + Len(t) : x = (s \o t)[i]
    BY <1>2 DEF Elements
  <2>2. CASE i <= Len(s)
    BY <2>1, <2>2, <1>1, <1>2 DEF Elements
  <2>3. CASE ~(i <= Len(s))
    <3>1. i - Len(s) \in DOMAIN t /\ x = t[i - Len(s)]
        BY <2>1, <2>3, <1>1, <1>2
    <3> QED
        BY <3>1 DEF Elements
  <2> QED
    BY <2>2, <2>3
<1>4. ASSUME NEW x \in Elements(s)
      PROVE  x \in Elements(s \o t)
  <2>1. PICK i \in 1 .. Len(s) : x = s[i]
    BY <1>2 DEF Elements
  <2>2. i \in DOMAIN (s \o t) /\ (s \o t)[i] = x
    BY <2>1, <1>1, <1>2
  <2> QED
    BY <2>2 DEF Elements
<1>5. ASSUME NEW x \in Elements(t)
      PROVE  x \in Elements(s \o t)
  <2>1. PICK i \in 1 .. Len(t) : x = t[i]
    BY <1>2 DEF Elements
  <2>2. Len(s) + i \in DOMAIN (s \o t) /\ (s \o t)[Len(s) + i] = x
    BY <2>1, <1>1, <1>2
  <2> QED
    BY <2>2 DEF Elements
<1> QED
    BY <1>3, <1>4, <1>5

\* push_back adds one functor to those queued.
LEMMA ElementsOfAppend ==
    ASSUME NEW S, NEW s \in Seq(S), NEW e \in S
    PROVE  Elements(Append(s, e)) = Elements(s) \cup {e}
<1> DEFINE t == <<e>>
<1>1. t \in Seq(S) /\ Elements(t) = {e}
    BY DEF Elements
<1>2. Append(s, e) = s \o t
    BY AppendIsConcat
<1> HIDE DEF t
<1>3. Elements(s \o t) = Elements(s) \cup Elements(t)
    BY <1>1, ElementsOfConcat
<1> QED
    BY <1>1, <1>2, <1>3

-----------------------------------------------------------------------------
(* The type invariant.                                                     *)

\* A newly built loop has its type.
LEMMA TypeInit == Init => TypeOK
<1> SUFFICES ASSUME Init PROVE TypeOK
    OBVIOUS
<1>1. <<>> \in Seq(Functors)
    BY EmptySeq
<1>2. tpc \in [Threads -> {"idle", "wakeup"}]
    BY DEF Init
<1>3. wakeup_fd_ \in 0 .. EventfdMax
    BY DEF Init
<1> QED
    BY <1>1, <1>2, <1>3 DEF Init, TypeOK, Places

\* No step of a caller or of the loop breaks the type.
LEMMA TypeStep == TypeOK /\ [Next]_vars => TypeOK'
<1> SUFFICES ASSUME TypeOK, [Next]_vars PROVE TypeOK'
    OBVIOUS
<1> USE DEF TypeOK, Places
<1>1. ASSUME NEW t \in Threads, NEW f \in Functors, queue_in_loop(t, f) PROVE TypeOK'
    BY <1>1 DEF queue_in_loop
<1>2. ASSUME NEW t \in Threads, NEW f \in Functors, run_in_loop(t, f) PROVE TypeOK'
    BY <1>1, <1>2 DEF run_in_loop
<1>3. ASSUME NEW t \in Threads, quit(t) PROVE TypeOK'
    BY <1>3 DEF quit, historyVars
<1>4. ASSUME NEW t \in Threads, wakeup(t) PROVE TypeOK'
    BY <1>4 DEF wakeup, historyVars
<1>5. CASE loop
    BY <1>5 DEF loop, historyVars
<1>16. CASE reset_quit
    BY <1>16 DEF reset_quit, historyVars
<1>6. CASE while_test
    BY <1>6 DEF while_test, historyVars
<1>7. ASSUME NEW io \in SUBSET IOChannels, poll_events(io) PROVE TypeOK'
    BY <1>7 DEF poll_events, Readable, historyVars
<1>8. CASE poll_nothing
    BY <1>8 DEF poll_nothing, historyVars
<1>9. CASE handle_read
    BY <1>9 DEF handle_read, historyVars
<1>10. ASSUME NEW ch \in IOChannels, handle_event(ch) PROVE TypeOK'
    BY <1>10 DEF handle_event, historyVars
<1>11. CASE user_code_returns
    BY <1>11 DEF user_code_returns, loopVars, historyVars
<1>12. CASE do_pending_functors
    BY <1>12 DEF do_pending_functors, historyVars
<1>13. CASE run_functor
    BY <1>13, HeadTailProperties DEF run_functor
<1>14. CASE functors_done
    BY <1>14 DEF functors_done, historyVars
<1>15. CASE UNCHANGED vars
    BY <1>15 DEF vars, historyVars
<1> QED
    BY <1>1, <1>2, <1>3, <1>4, <1>5, <1>6, <1>7, <1>8, <1>9, <1>10, <1>11, <1>12,
       <1>13, <1>14, <1>15, <1>16 DEF Next, Interface, LoopStep

\* Every variable of the loop keeps its type, whatever the callers and the
\* loop's thread do: pending_functions_ and the local batch stay sequences of
\* functors and the eventfd's counter stays within its limit.
THEOREM TypeCorrect == Spec => []TypeOK
<1> QED
    BY TypeInit, TypeStep, PTL DEF Spec

-----------------------------------------------------------------------------
(* The inductive invariant.                                                *)

\* The flag and the local vector of do_pending_functors say where the loop's
\* thread is.
BatchInv ==
    /\ calling_pending_functors_ <=> pc \in {"run", "functor"}
    /\ functors # <<>> => pc \in {"run", "functor"}

\* Outside the dispatching of events, a pending functor has its wakeup.  While
\* the loop dispatches it needs none: do_pending_functors comes next.
Armed ==
    pc \notin {"dispatch", "handler"} /\ ~(Elements(pending_functions_) \subseteq early)
        => wakeup_fd_ > 0 \/ \E t \in Threads : tpc[t] = "wakeup"

LoopInv == TypeOK /\ BatchInv /\ FifoExactlyOnce /\ Armed

\* A newly built loop has nothing queued, so nothing is owed a wakeup.
LEMMA LoopInvInit == Init => LoopInv
<1> SUFFICES ASSUME Init PROVE LoopInv
    OBVIOUS
<1>1. TypeOK
    BY TypeInit
<1>2. BatchInv /\ Armed
    BY DEF Init, BatchInv, Armed, Elements
<1>3. FifoExactlyOnce
    BY DEF Init, FifoExactlyOnce
<1> QED
    BY <1>1, <1>2, <1>3 DEF LoopInv

\* Only queue_in_loop, do_pending_functors and run_functor touch what
\* FifoExactlyOnce speaks of.
LEMMA FifoStep == LoopInv /\ [Next]_vars => FifoExactlyOnce'
<1> SUFFICES ASSUME LoopInv, [Next]_vars PROVE FifoExactlyOnce'
    OBVIOUS
<1> USE DEF FifoExactlyOnce
<1>t. /\ ran \in Seq(Functors) /\ functors \in Seq(Functors)
      /\ pending_functions_ \in Seq(Functors) /\ posted \in Seq(Functors)
      /\ posted = ran \o functors \o pending_functions_
    BY DEF LoopInv, TypeOK
<1>1. ASSUME NEW t \in Threads, NEW f \in Functors, queue_in_loop(t, f)
      PROVE  FifoExactlyOnce'
  <2>1. ran \o functors \in Seq(Functors)
    BY <1>t, ConcatProperties
  <2>2. (ran \o functors) \o Append(pending_functions_, f)
            = Append((ran \o functors) \o pending_functions_, f)
    BY <1>t, <2>1, AppendToConcat
  <2> QED
    BY <1>1, <1>t, <2>2 DEF queue_in_loop
<1>2. ASSUME NEW t \in Threads, NEW f \in Functors, run_in_loop(t, f)
      PROVE  FifoExactlyOnce'
    BY <1>1, <1>2, <1>t DEF run_in_loop
<1>3. CASE do_pending_functors
  <2>1. functors = <<>>
    BY <1>3 DEF do_pending_functors, LoopInv, BatchInv
  <2>2. posted = ran \o pending_functions_
    BY <2>1, <1>t, ConcatEmptySeq
  <2>3. (ran \o pending_functions_) \o <<>> = ran \o pending_functions_
    BY <1>t, ConcatProperties, ConcatEmptySeq
  <2> QED
    BY <1>3, <2>2, <2>3 DEF do_pending_functors, historyVars
<1>4. CASE run_functor
  <2>1. Append(ran, Head(functors)) \o Tail(functors) = ran \o functors
    BY <1>4, <1>t, MoveHead DEF run_functor
  <2> QED
    BY <1>4, <1>t, <2>1 DEF run_functor
<1>5. ASSUME UNCHANGED <<posted, ran, functors, pending_functions_>>
      PROVE  FifoExactlyOnce'
    BY <1>5, <1>t
<1> QED
    BY <1>1, <1>2, <1>3, <1>4, <1>5
    DEF Next, Interface, LoopStep, quit, wakeup, loop, reset_quit, while_test, poll_events,
        poll_nothing, handle_read, handle_event, user_code_returns, functors_done,
        loopVars, historyVars, vars

\* In every step the flag and the local vector go along with the loop's thread.
LEMMA BatchStep == LoopInv /\ [Next]_vars => BatchInv'
<1> SUFFICES ASSUME LoopInv, [Next]_vars PROVE BatchInv'
    OBVIOUS
<1>1. BatchInv /\ pc \in Places
    BY DEF LoopInv, TypeOK
<1>2. CASE Interface
    BY <1>1, <1>2 DEF Interface, queue_in_loop, run_in_loop, quit, wakeup, BatchInv, Places
<1>3. CASE LoopStep
    BY <1>1, <1>3 DEF LoopStep, loop, reset_quit, while_test, poll_events, poll_nothing,
        handle_read, handle_event, user_code_returns, do_pending_functors, run_functor, functors_done,
        loopVars, BatchInv, Places
<1>4. CASE UNCHANGED vars
    BY <1>1, <1>4 DEF vars, BatchInv
<1> QED
    BY <1>2, <1>3, <1>4 DEF Next

\* No step leaves the loop asleep over a functor without a wakeup under way.
LEMMA ArmedStep == LoopInv /\ [Next]_vars => Armed'
<1> SUFFICES ASSUME LoopInv, [Next]_vars PROVE Armed'
    OBVIOUS
<1>t. TypeOK /\ BatchInv /\ Armed
    BY DEF LoopInv
<1>1. ASSUME NEW t \in Threads, NEW f \in Functors, queue_in_loop(t, f)
      PROVE  Armed'
  <2>1. tpc' = [tpc EXCEPT ![t] = IF ~is_in_loop_thread(t) \/ calling_pending_functors_
                                  THEN "wakeup" ELSE "idle"]
        /\ wakeup_fd_' = wakeup_fd_ /\ pc' = pc
        /\ tpc \in [Threads -> {"idle", "wakeup"}] /\ tpc[t] = "idle"
    BY <1>1, <1>t DEF queue_in_loop, CanCall, TypeOK
  <2>2. CASE ~is_in_loop_thread(t) \/ calling_pending_functors_
    <3>1. tpc'[t] = "wakeup"
        BY <2>1, <2>2
    <3> QED
        BY <3>1 DEF Armed
  <2>3. CASE is_in_loop_thread(t) /\ ~calling_pending_functors_
    <3>1. pc \in {"outside", "handler"} /\ t = LoopThread
        BY <1>1, <1>t, <2>3 DEF queue_in_loop, CanCall, InUserCode, BatchInv, is_in_loop_thread
    <3>2. CASE pc = "handler"
        BY <2>1, <3>2 DEF Armed
    <3>3. CASE pc = "outside"
      <4>1. Elements(pending_functions_') = Elements(pending_functions_) \cup {f}
        BY <1>1, <1>t, ElementsOfAppend DEF queue_in_loop, TypeOK
      <4>2. early' = early \cup {f}
        BY <1>1, <3>3, <2>3 DEF queue_in_loop
      <4>3. tpc' = tpc
        BY <2>1, <2>3
      <4> QED
        BY <4>1, <4>2, <4>3, <2>1, <3>3, <1>t DEF Armed
    <3> QED
        BY <3>1, <3>2, <3>3
  <2> QED
    BY <2>2, <2>3
<1>2. ASSUME NEW t \in Threads, NEW f \in Functors, run_in_loop(t, f)
      PROVE  Armed'
  <2>1. CASE queue_in_loop(t, f)
    BY <2>1, <1>1
  <2>2. CASE UNCHANGED <<pc, pending_functions_, wakeup_fd_, tpc, early>>
    BY <2>2, <1>t DEF Armed
  <2> QED
    BY <1>2, <2>1, <2>2 DEF run_in_loop
<1>3. ASSUME NEW t \in Threads, quit(t) PROVE Armed'
  <2>1. \A u \in Threads : tpc[u] = "wakeup" => tpc'[u] = "wakeup"
    BY <1>3, <1>t DEF quit, CanCall, TypeOK
  <2> QED
    BY <1>3, <2>1, <1>t DEF quit, Armed, historyVars
<1>4. ASSUME NEW t \in Threads, wakeup(t) PROVE Armed'
  <2>1. wakeup_fd_' > 0
    BY <1>4, <1>t DEF wakeup, TypeOK
  <2> QED
    BY <2>1 DEF Armed
<1>5. CASE LoopStep
  <2>1. ASSUME UNCHANGED <<pending_functions_, wakeup_fd_, tpc, early>>,
               pc \notin {"dispatch", "handler"} \/ pc' \in {"dispatch", "handler"}
        PROVE  Armed'
    BY <2>1, <1>t DEF Armed
  <2>2. CASE handle_read
    BY <2>2 DEF handle_read, Armed
  <2>3. CASE do_pending_functors
    BY <2>3 DEF do_pending_functors, Armed, Elements
  <2> QED
    BY <1>5, <2>1, <2>2, <2>3
    DEF LoopStep, loop, reset_quit, while_test, poll_events, poll_nothing, handle_event,
        user_code_returns, run_functor, functors_done, loopVars, historyVars
<1>6. CASE UNCHANGED vars
    BY <1>6, <1>t DEF vars, historyVars, Armed
<1> QED
    BY <1>1, <1>2, <1>3, <1>4, <1>5, <1>6 DEF Next, Interface

\* The inductive invariant behind the safety theorems: the batch and the queue hold
\* what was accepted and has not run, and the eventfd covers every sleeping loop.
THEOREM LoopInvariant == Spec => []LoopInv
<1>1. LoopInv /\ [Next]_vars => LoopInv'
    BY TypeStep, BatchStep, FifoStep, ArmedStep DEF LoopInv
<1> QED
    BY <1>1, LoopInvInit, PTL DEF Spec

\* For any number of callers and functors: nothing handed to queue_in_loop is
\* lost, duplicated or reordered by the swap in do_pending_functors.
THEOREM ExactlyOnceInOrder == Spec => []FifoExactlyOnce
<1>1. LoopInv => FifoExactlyOnce
    BY DEF LoopInv
<1> QED
    BY <1>1, LoopInvariant, PTL

\* For any number of callers and any limit of the eventfd: the loop is never
\* asleep in epoll_wait over a functor whose wakeup neither is in the eventfd
\* nor is about to be written.
THEOREM NeverMissesWakeup == Spec => []NoMissedWakeup
<1>1. LoopInv => NoMissedWakeup
    BY DEF LoopInv, Armed, NoMissedWakeup
<1> QED
    BY <1>1, LoopInvariant, PTL

-----------------------------------------------------------------------------
(* The refinement of the mailbox.                                          *)

\* A fresh functor is neither waiting nor executed in the mailbox.
LEMMA FreshInMailbox ==
    ASSUME LoopInv, NEW f, Fresh(f)
    PROVE  f \notin Mailbox!Waiting \cup Mailbox!Executed
<1>1. /\ ran \in Seq(Functors) /\ functors \in Seq(Functors)
      /\ pending_functions_ \in Seq(Functors)
      /\ posted = (ran \o functors) \o pending_functions_
    BY DEF LoopInv, TypeOK, FifoExactlyOnce
<1>2. functors \o pending_functions_ \in Seq(Functors)
    BY <1>1, ConcatProperties
<1>3. posted = ran \o (functors \o pending_functions_)
    BY <1>1, ConcatAssociative
<1>4. Elements(posted) = Elements(ran) \cup Elements(functors \o pending_functions_)
  <2> DEFINE q == functors \o pending_functions_
  <2>1. ran \in Seq(Functors) /\ q \in Seq(Functors) /\ posted = ran \o q
    BY <1>1, <1>2, <1>3
  <2> HIDE DEF q
  <2>2. Elements(ran \o q) = Elements(ran) \cup Elements(q)
    BY <2>1, ElementsOfConcat
  <2>3. Elements(posted) = Elements(ran) \cup Elements(q)
    BY <2>1, <2>2
  <2> QED
    BY <2>3 DEF q
<1>5. f \notin Elements(posted)
    BY DEF Fresh
<1> QED
    BY <1>4, <1>5 DEF Elements, Mailbox!Waiting, Mailbox!Executed

\* Each step of the loop is a put, a take or nothing to the mailbox.
LEMMA MailboxStep == LoopInv /\ [Next]_vars => [Mailbox!Next]_(Mailbox!vars)
<1> SUFFICES ASSUME LoopInv, [Next]_vars PROVE [Mailbox!Next]_(Mailbox!vars)
    OBVIOUS
<1>t. /\ ran \in Seq(Functors) /\ functors \in Seq(Functors)
      /\ pending_functions_ \in Seq(Functors) /\ BatchInv
    BY DEF LoopInv, TypeOK
<1>1. ASSUME NEW t \in Threads, NEW f \in Functors, queue_in_loop(t, f)
      PROVE  Mailbox!Submit(f)
  <2>1. functors \o Append(pending_functions_, f)
            = Append(functors \o pending_functions_, f)
    BY <1>t, AppendToConcat
  <2>2. f \notin Mailbox!Waiting \cup Mailbox!Executed
    BY <1>1, FreshInMailbox DEF queue_in_loop
  <2> QED
    BY <1>1, <2>1, <2>2 DEF queue_in_loop, Mailbox!Submit
<1>2. CASE run_functor
  <2>1. /\ functors \o pending_functions_ # <<>>
        /\ Head(functors \o pending_functions_) = Head(functors)
        /\ Tail(functors \o pending_functions_) = Tail(functors) \o pending_functions_
    BY <1>2, <1>t, HeadTailOfConcat DEF run_functor
  <2>2. Mailbox!Execute
    BY <1>2, <2>1 DEF run_functor, Mailbox!Execute
  <2> QED
    BY <2>2 DEF Mailbox!Next
<1>3. CASE do_pending_functors
  <2>1. functors = <<>>
    BY <1>3, <1>t DEF do_pending_functors, BatchInv
  <2>2. /\ <<>> \o pending_functions_ = pending_functions_
        /\ pending_functions_ \o <<>> = pending_functions_
    BY <1>t, ConcatEmptySeq
  <2> QED
    BY <1>3, <2>1, <2>2 DEF do_pending_functors, historyVars, Mailbox!vars
<1>4. ASSUME UNCHANGED <<ran, functors, pending_functions_>>
      PROVE  [Mailbox!Next]_(Mailbox!vars)
    BY <1>4 DEF Mailbox!vars
<1>5. ASSUME NEW t \in Threads, NEW f \in Functors, queue_in_loop(t, f) \/ run_in_loop(t, f)
      PROVE  [Mailbox!Next]_(Mailbox!vars)
    BY <1>1, <1>4, <1>5 DEF run_in_loop, Mailbox!Next
<1> QED
    BY <1>2, <1>3, <1>4, <1>5
    DEF Next, Interface, LoopStep, quit, wakeup, loop, reset_quit, while_test, poll_events,
        poll_nothing, handle_read, handle_event, user_code_returns, functors_done,
        loopVars, historyVars, vars

\* The loop with its mutex, swap and eventfd implements the mailbox: threads
\* that hand work to queue_in_loop may think of it as one FIFO queue.
THEOREM ImplementsMailbox == Spec => MailboxSpec
<1>1. Init => Mailbox!Init
  <2>1. <<>> \in Seq(Functors) /\ <<>> \o <<>> = <<>>
    BY EmptySeq, ConcatEmptySeq
  <2> QED
    BY <2>1 DEF Init, Mailbox!Init
<1> QED
    BY <1>1, LoopInvariant, MailboxStep, PTL DEF Spec, MailboxSpec, Mailbox!Spec
=============================================================================
