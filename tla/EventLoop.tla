------------------------------ MODULE EventLoop ------------------------------
(***************************************************************************)
(* src/net/event_loop.{h,cpp}: one Event_Loop, the thread that owns it and *)
(* any number of other threads that call queue_in_loop, run_in_loop and    *)
(* quit on it.                                                             *)
(*                                                                         *)
(* Grain of atomicity.  pending_functions_ is touched only under mutex_,   *)
(* in critical sections that do one thing (append, or swap), so each of    *)
(* them is one step.  queue_in_loop and quit are two steps, what they      *)
(* write first and the write to the eventfd that follows: the loop may     *)
(* run a whole iteration in between.  The head of loop() is two steps too: *)
(* another thread's quit() may fall between its two stores.                *)
(***************************************************************************)
EXTENDS Naturals, Sequences

CONSTANTS
    LoopThread,     \* the thread whose id is thread_id_
    Callers,        \* the other threads that hold a pointer to the loop
    Functors,       \* the closures; each is handed to the loop at most once
    WakeupChannel,  \* wakeup_channel_, readable while the eventfd is not zero
    IOChannels,     \* every other channel registered with poller_
    EventfdMax      \* what the eventfd can count to: 2^64 - 2 in the kernel

ASSUME LoopAssumption ==
    /\ LoopThread \notin Callers
    /\ WakeupChannel \notin IOChannels
    /\ EventfdMax \in Nat \ {0}

Threads == Callers \cup {LoopThread}

VARIABLES
    pc,                         \* where the loop's thread is in loop()
    looping_,
    quit_,
    calling_pending_functors_,
    pending_functions_,         \* guarded by mutex_
    functors,                   \* the local vector of do_pending_functors
    active_channels_,           \* what poll() filled and is not handled yet
    wakeup_fd_,                 \* the counter of the eventfd
    tpc,                        \* which threads still owe a wakeup()
    posted,                     \* history: functors in the order of queue_in_loop
    ran,                        \* history: functors in the order of execution
    inlined,                    \* history: functors run_in_loop called directly
    early                       \* history: queued by the loop's thread outside loop()

historyVars == <<posted, ran, inlined, early>>
vars == <<pc, looping_, quit_, calling_pending_functors_, pending_functions_,
          functors, active_channels_, wakeup_fd_, tpc, historyVars>>

(***************************************************************************)
(* The places of the loop's thread: outside loop() (before the call, or    *)
(* after it returned: it may be called again), between the two stores of   *)
(* its head, at the test of while (!quit_), in epoll_wait, between two     *)
(* handle_event calls, in a channel's callback, between two functors, in a *)
(* functor.                                                                *)
(***************************************************************************)
Places == {"outside", "head", "while", "poll", "dispatch", "handler", "run", "functor"}

\* The places where the loop's thread executes code of the loop's user.
InUserCode == pc \in {"outside", "handler", "functor"}

Elements(s) == {s[i] : i \in DOMAIN s}

Init ==
    /\ pc = "outside"
    /\ looping_ = FALSE
    /\ quit_ = FALSE
    /\ calling_pending_functors_ = FALSE
    /\ pending_functions_ = <<>>
    /\ functors = <<>>
    /\ active_channels_ = {}
    /\ wakeup_fd_ = 0
    /\ tpc = [t \in Threads |-> "idle"]
    /\ posted = <<>> /\ ran = <<>> /\ inlined = {} /\ early = {}

-----------------------------------------------------------------------------
(* The interface, called by any thread.                                    *)

\* The loop's thread calls from a callback or a functor, the others whenever
\* they are not inside an earlier call.
CanCall(t) == tpc[t] = "idle" /\ (t = LoopThread => InUserCode)

Fresh(f) == f \notin Elements(posted) \cup inlined

is_in_loop_thread(t) == t = LoopThread

\* Mutant: only other threads wake the loop up, `|| calling_pending_functors_`
\* is forgotten.
queue_in_loop_wakes_for_others_only(t, f) ==
    /\ CanCall(t) /\ Fresh(f)
    /\ pending_functions_' = Append(pending_functions_, f)
    /\ tpc' = [tpc EXCEPT ![t] = IF is_in_loop_thread(t) THEN "idle" ELSE "wakeup"]
    /\ posted' = Append(posted, f)
    /\ early' = IF is_in_loop_thread(t) /\ pc = "outside" THEN early \cup {f} ELSE early
    /\ UNCHANGED <<pc, looping_, quit_, calling_pending_functors_, functors,
                   active_channels_, wakeup_fd_, ran, inlined>>

\* Append under mutex_; the eventfd is written by the separate step wakeup.
queue_in_loop(t, f) ==
    /\ CanCall(t) /\ Fresh(f)
    /\ pending_functions_' = Append(pending_functions_, f)
    /\ tpc' = [tpc EXCEPT ![t] = IF ~is_in_loop_thread(t) \/ calling_pending_functors_
                                 THEN "wakeup" ELSE "idle"]
    /\ posted' = Append(posted, f)
    /\ early' = IF is_in_loop_thread(t) /\ pc = "outside" THEN early \cup {f} ELSE early
    /\ UNCHANGED <<pc, looping_, quit_, calling_pending_functors_, functors,
                   active_channels_, wakeup_fd_, ran, inlined>>

\* From another thread run_in_loop is queue_in_loop; on the loop's own thread
\* it calls the functor before it returns.
run_in_loop(t, f) ==
    \/ ~is_in_loop_thread(t) /\ queue_in_loop(t, f)
    \/ /\ is_in_loop_thread(t)
       /\ CanCall(t) /\ Fresh(f)
       /\ inlined' = inlined \cup {f}
       /\ UNCHANGED <<pc, looping_, quit_, calling_pending_functors_, pending_functions_,
                      functors, active_channels_, wakeup_fd_, tpc, posted, ran, early>>

\* Mutant: quit() does not wake the loop up.
quit_silently(t) ==
    /\ CanCall(t)
    /\ quit_' = TRUE
    /\ UNCHANGED <<pc, looping_, calling_pending_functors_, pending_functions_,
                   functors, active_channels_, wakeup_fd_, tpc, historyVars>>

\* The flag first, the eventfd in the separate step wakeup.
quit(t) ==
    /\ CanCall(t)
    /\ quit_' = TRUE
    /\ tpc' = [tpc EXCEPT ![t] = IF ~is_in_loop_thread(t) THEN "wakeup" ELSE "idle"]
    /\ UNCHANGED <<pc, looping_, calling_pending_functors_, pending_functions_,
                   functors, active_channels_, wakeup_fd_, historyVars>>

\* The non-blocking write of 1 to the eventfd; at the limit the kernel refuses
\* it, and the code ignores the short write.
wakeup(t) ==
    /\ tpc[t] = "wakeup"
    /\ wakeup_fd_' = IF wakeup_fd_ < EventfdMax THEN wakeup_fd_ + 1 ELSE wakeup_fd_
    /\ tpc' = [tpc EXCEPT ![t] = "idle"]
    /\ UNCHANGED <<pc, looping_, quit_, calling_pending_functors_, pending_functions_,
                   functors, active_channels_, historyVars>>

-----------------------------------------------------------------------------
(* The loop's thread.                                                      *)

loopVars == <<looping_, quit_, pending_functions_, functors, calling_pending_functors_,
              active_channels_, wakeup_fd_>>

\* The first store of loop().
loop ==
    /\ pc = "outside" /\ tpc[LoopThread] = "idle"
    /\ pc' = "head"
    /\ looping_' = TRUE
    /\ UNCHANGED <<quit_, calling_pending_functors_, pending_functions_, functors,
                   active_channels_, wakeup_fd_, tpc, historyVars>>

\* The second store, whatever quit_ was: it overwrites a quit() of another
\* thread that came after the first one, as any that came before.
reset_quit ==
    /\ pc = "head"
    /\ pc' = "while"
    /\ quit_' = FALSE
    /\ UNCHANGED <<looping_, calling_pending_functors_, pending_functions_, functors,
                   active_channels_, wakeup_fd_, tpc, historyVars>>

while_test ==
    /\ pc = "while"
    /\ IF quit_
       THEN pc' = "outside" /\ looping_' = FALSE /\ UNCHANGED active_channels_
       ELSE pc' = "poll" /\ active_channels_' = {} /\ UNCHANGED looping_
    /\ UNCHANGED <<quit_, calling_pending_functors_, pending_functions_, functors,
                   wakeup_fd_, tpc, historyVars>>

Readable(io) == io \cup (IF wakeup_fd_ > 0 THEN {WakeupChannel} ELSE {})

\* epoll_wait reports some of the channels that are ready (its array may be
\* shorter than the list of ready channels).
poll_events(io) ==
    /\ pc = "poll"
    /\ active_channels_' \in SUBSET Readable(io) \ {{}}
    /\ pc' = "dispatch"
    /\ UNCHANGED <<looping_, quit_, calling_pending_functors_, pending_functions_,
                   functors, wakeup_fd_, tpc, historyVars>>

\* epoll_wait returns 0 after k_poll_time_ms, or -1 with EINTR.
poll_nothing ==
    /\ pc = "poll"
    /\ active_channels_' = {}
    /\ pc' = "dispatch"
    /\ UNCHANGED <<looping_, quit_, calling_pending_functors_, pending_functions_,
                   functors, wakeup_fd_, tpc, historyVars>>

\* handle_event of wakeup_channel_: the read resets the eventfd's counter.
handle_read ==
    /\ pc = "dispatch" /\ WakeupChannel \in active_channels_
    /\ active_channels_' = active_channels_ \ {WakeupChannel}
    /\ wakeup_fd_' = 0
    /\ UNCHANGED <<pc, looping_, quit_, calling_pending_functors_, pending_functions_,
                   functors, tpc, historyVars>>

\* handle_event of another channel: its callback is user code.
handle_event(ch) ==
    /\ pc = "dispatch" /\ ch \in active_channels_
    /\ active_channels_' = active_channels_ \ {ch}
    /\ pc' = "handler"
    /\ UNCHANGED <<looping_, quit_, calling_pending_functors_, pending_functions_,
                   functors, wakeup_fd_, tpc, historyVars>>

\* A callback, or a functor, returns to the loop.
user_code_returns ==
    /\ pc \in {"handler", "functor"} /\ tpc[LoopThread] = "idle"
    /\ pc' = IF pc = "handler" THEN "dispatch" ELSE "run"
    /\ UNCHANGED <<loopVars, tpc, historyVars>>

\* Mutant: the vector is copied, not swapped.
do_pending_functors_copies ==
    /\ pc = "dispatch" /\ active_channels_ = {}
    /\ calling_pending_functors_' = TRUE
    /\ functors' = pending_functions_
    /\ pc' = "run"
    /\ UNCHANGED <<looping_, quit_, pending_functions_, active_channels_, wakeup_fd_,
                   tpc, historyVars>>

\* Every active channel was handled: set the flag and swap the vectors.  Only
\* the loop's thread reads the flag, so the two are one step.
do_pending_functors ==
    /\ pc = "dispatch" /\ active_channels_ = {}
    /\ calling_pending_functors_' = TRUE
    /\ functors' = pending_functions_
    /\ pending_functions_' = <<>>
    /\ pc' = "run"
    /\ UNCHANGED <<looping_, quit_, active_channels_, wakeup_fd_, tpc, historyVars>>

\* Mutant: the batch is run from its end, as with pop_back().
run_functor_from_the_end ==
    /\ pc = "run" /\ functors # <<>>
    /\ functors' = SubSeq(functors, 1, Len(functors) - 1)
    /\ ran' = Append(ran, functors[Len(functors)])
    /\ pc' = "functor"
    /\ UNCHANGED <<looping_, quit_, calling_pending_functors_, pending_functions_,
                   active_channels_, wakeup_fd_, tpc, posted, inlined, early>>

\* The next functor of the local batch starts.
run_functor ==
    /\ pc = "run" /\ functors # <<>>
    /\ functors' = Tail(functors)
    /\ ran' = Append(ran, Head(functors))
    /\ pc' = "functor"
    /\ UNCHANGED <<looping_, quit_, calling_pending_functors_, pending_functions_,
                   active_channels_, wakeup_fd_, tpc, posted, inlined, early>>

functors_done ==
    /\ pc = "run" /\ functors = <<>>
    /\ calling_pending_functors_' = FALSE
    /\ pc' = "while"
    /\ UNCHANGED <<looping_, quit_, pending_functions_, functors, active_channels_,
                   wakeup_fd_, tpc, historyVars>>

-----------------------------------------------------------------------------
Interface ==
    \E t \in Threads :
        \/ \E f \in Functors : queue_in_loop(t, f) \/ run_in_loop(t, f)
        \/ quit(t)
        \/ wakeup(t)

LoopStep ==
    \/ loop \/ reset_quit
    \/ while_test
    \/ \E io \in SUBSET IOChannels : poll_events(io)
    \/ poll_nothing
    \/ handle_read
    \/ \E ch \in IOChannels : handle_event(ch)
    \/ user_code_returns
    \/ do_pending_functors
    \/ run_functor
    \/ functors_done

Next == Interface \/ LoopStep

Spec == Init /\ [][Next]_vars

(***************************************************************************)
(* Fairness.  A thread that has queued goes on to write the eventfd,       *)
(* callbacks and functors return, the loop's thread keeps running, and     *)
(* epoll_wait returns while the eventfd is readable.                       *)
(* Nothing is assumed of poll_nothing: what is live below does not wait    *)
(* for the 10 s timeout.  Nobody is obliged to call loop().                *)
(***************************************************************************)
Fairness ==
    /\ \A t \in Threads : WF_vars(wakeup(t))
    /\ WF_vars(reset_quit) /\ WF_vars(while_test) /\ WF_vars(handle_read)
    /\ WF_vars(wakeup_fd_ > 0 /\ \E io \in SUBSET IOChannels : poll_events(io))
    /\ WF_vars(\E ch \in IOChannels : handle_event(ch))
    /\ WF_vars(user_code_returns) /\ WF_vars(do_pending_functors)
    /\ WF_vars(run_functor) /\ WF_vars(functors_done)

FairSpec == Spec /\ Fairness

-----------------------------------------------------------------------------
(* Properties.                                                             *)

\* Type invariant.
TypeOK ==
    /\ pc \in Places
    /\ looping_ \in BOOLEAN /\ quit_ \in BOOLEAN /\ calling_pending_functors_ \in BOOLEAN
    /\ pending_functions_ \in Seq(Functors) /\ functors \in Seq(Functors)
    /\ active_channels_ \subseteq IOChannels \cup {WakeupChannel}
    /\ wakeup_fd_ \in 0 .. EventfdMax
    /\ tpc \in [Threads -> {"idle", "wakeup"}]
    /\ posted \in Seq(Functors) /\ ran \in Seq(Functors)
    /\ inlined \subseteq Functors /\ early \subseteq Functors

\* queue_in_loop / do_pending_functors: whatever the callers and the swap do to
\* each other, the functors executed so far, the rest of the local batch and
\* the pending vector are together exactly what was queued, in that order:
\* none is lost, none runs twice, none overtakes another.
FifoExactlyOnce == posted = ran \o functors \o pending_functions_

\* wakeup(): the loop never blocks in epoll_wait on top of a queued functor
\* unless the eventfd is readable or a thread is about to write it.  The only
\* exception are functors that the loop's own thread queued outside loop():
\* queue_in_loop then writes no wakeup and they wait for the poll timeout.
NoMissedWakeup ==
    pc = "poll" /\ ~(Elements(pending_functions_) \subseteq early)
        => wakeup_fd_ > 0 \/ \E t \in Threads : tpc[t] = "wakeup"

\* queue_in_loop: a functor queued on a running loop is executed, and without
\* waiting for the poll timeout, unless somebody quits the loop first.
QueuedRuns ==
    \A f \in Functors :
        (looping_ /\ f \in Elements(pending_functions_) \ early)
            ~> (f \in Elements(ran) \/ quit_)

\* quit() from any thread ends loop(), even while the loop sleeps in epoll_wait,
\* once loop() has reset quit_.  A quit() that comes earlier is overwritten,
\* also when looping_ is set already: `looping_` in place of the loop's place
\* would make this false.
QuitStops == (quit_ /\ pc \notin {"outside", "head"}) ~> ~looping_

\* The loop implements the mailbox.
Mailbox == INSTANCE FunctorQueue WITH queue <- functors \o pending_functions_,
                                      done <- ran
MailboxSpec == Mailbox!Spec
=============================================================================
