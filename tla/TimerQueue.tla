------------------------------ MODULE TimerQueue ------------------------------
(***************************************************************************)
(* src/net/timer_queue.{h,cpp} and src/net/timer.{h,cpp}: the timers of    *)
(* one Event_Loop, the timerfd that wakes the loop for them, and a thread  *)
(* beside the loop's that adds and cancels timers.                         *)
(*                                                                         *)
(* Timers are heap objects: an address is used again after delete, which   *)
(* is what sequence_ is for.  The loop is the mailbox of FunctorQueue; its *)
(* thread is either between two callbacks of other channels ("idle" here:  *)
(* ~calling_expired_timers_) or inside handle_read.  Time is counted in    *)
(* ticks of the wall clock, which may be set while timerfd, on             *)
(* CLOCK_MONOTONIC, goes on.                                               *)
(***************************************************************************)
EXTENDS Naturals, Sequences, FiniteSets

CONSTANTS
    Addrs,          \* the addresses operator new hands out
    NoTimer,        \* what is at an address that is free
    Delays,         \* how far ahead timers are set
    Intervals,      \* the intervals of timers; 0 for one that does not repeat
    MaxTimers,      \* bound: timers created
    MaxTime,        \* bound: the clock
    MaxSteps        \* bound: how often the clock is set

ASSUME TimerAssumption ==
    /\ Delays \subseteq Nat /\ Intervals \subseteq Nat
    /\ MaxTimers \in Nat /\ MaxTime \in Nat /\ MaxSteps \in Nat /\ MaxSteps < MaxTime
    /\ NoTimer \notin [sequence_ : Nat, expiration_ : Nat, interval_ : Nat]

VARIABLES
    timer,                      \* the heap: timer[p] is a Timer or NoTimer
    num_created_,
    timers_,                    \* set of <<expiration, address>>
    active_timers_,             \* set of <<address, sequence>>
    canceling_timers_,
    calling_expired_timers_,
    expired,                    \* the batch of handle_read
    todo,                       \* the part of it whose callbacks are still to come
    started,                    \* now of handle_read
    clock,                      \* the wall clock
    steps,                      \* how often it was set
    alarm,                      \* when timerfd_ goes off, 0: disarmed
    readable,                   \* timerfd_ went off and was not read
    reported,                   \* its channel is in active_channels_, handle_read is to come
    pending,                    \* functors queued on the loop
    adder,                      \* the other thread: the timer add_timer handed over, or {}
    ids,                        \* the Timer_IDs in the hands of users
    cancelled,                  \* history: the Timer_IDs cancel_in_loop found
    ran,                        \* history: sequence numbers of the timers that ran
    alive                       \* before ~Timer_Queue

heapVars == <<timer, num_created_>>
setVars == <<timers_, active_timers_>>
batchVars == <<canceling_timers_, calling_expired_timers_, expired, todo, started>>
clockVars == <<clock, steps>>
fdVars == <<alarm, readable, reported>>
userVars == <<pending, adder, ids>>
vars == <<heapVars, setVars, batchVars, clockVars, fdVars, userVars, cancelled, ran, alive>>

Init ==
    /\ timer = [p \in Addrs |-> NoTimer] /\ num_created_ = 0
    /\ timers_ = {} /\ active_timers_ = {} /\ canceling_timers_ = {}
    /\ calling_expired_timers_ = FALSE /\ expired = {} /\ todo = {} /\ started = 0
    /\ clock = MaxSteps + 1 /\ steps = 0 /\ alarm = 0 /\ readable = FALSE
    /\ reported = FALSE
    /\ pending = <<>> /\ adder = {} /\ ids = {} /\ cancelled = {} /\ ran = {}
    /\ alive = TRUE

-----------------------------------------------------------------------------
(* Timer and the timerfd.                                                  *)

repeat(t) == t.interval_ > 0
Id(p) == <<p, timer[p].sequence_>>
Deleted(p) == [timer EXCEPT ![p] = NoTimer]

\* new Timer at a free address; the clock is read by run_after and run_every.
Constructed(p, delay, interval) ==
    [timer EXCEPT ![p] = [sequence_ |-> num_created_, expiration_ |-> clock + delay,
                          interval_ |-> interval]]
CanConstruct(p) == timer[p] = NoTimer /\ num_created_ < MaxTimers

\* Timer::restart of a timer that repeats.
restart(t) == [t EXCEPT !.expiration_ = started + t.interval_]

\* how_much_time_from_now: never less than 100 microseconds, here a tick.
Deadline(when) == IF when > clock THEN when ELSE clock + 1

\* timerfd_settime also takes back an expiration that nobody has read, even if
\* epoll has reported it.
reset_timerfd(when) == alarm' = Deadline(when) /\ readable' = FALSE /\ UNCHANGED reported


-----------------------------------------------------------------------------
(* add_timer.                                                              *)

\* The bool that insert returns.
Earliest(when) == \A e \in timers_ : when < e[1]

insert(heap, p) ==
    /\ timers_' = timers_ \cup {<<heap[p].expiration_, p>>}
    /\ active_timers_' = active_timers_ \cup {<<p, heap[p].sequence_>>}

\* Mutant: the timerfd is armed for the first timer only.
add_timer_in_loop_arms_once(heap, p) ==
    /\ insert(heap, p)
    /\ IF timers_ = {} THEN reset_timerfd(heap[p].expiration_) ELSE UNCHANGED fdVars

add_timer_in_loop(heap, p) ==
    /\ insert(heap, p)
    /\ IF Earliest(heap[p].expiration_) THEN reset_timerfd(heap[p].expiration_)
                                        ELSE UNCHANGED fdVars

\* On the loop's thread, in whatever callback: everything at once.
add_timer_here(p, delay, interval) ==
    /\ alive /\ CanConstruct(p)
    /\ timer' = Constructed(p, delay, interval) /\ num_created_' = num_created_ + 1
    /\ add_timer_in_loop(timer', p)
    /\ ids' = ids \cup {<<p, num_created_>>}
    /\ UNCHANGED <<batchVars, clockVars, pending, adder, cancelled, ran, alive>>

\* On another thread: the timer is handed to the loop first ...
add_timer(p, delay, interval) ==
    /\ alive /\ adder = {} /\ CanConstruct(p)
    /\ timer' = Constructed(p, delay, interval) /\ num_created_' = num_created_ + 1
    /\ pending' = Append(pending, [op |-> "add", id |-> <<p, num_created_>>])
    /\ adder' = {p}
    /\ UNCHANGED <<setVars, batchVars, clockVars, fdVars, ids, cancelled, ran, alive>>

\* ... and timer->sequence() is read afterwards: by then the loop may have run
\* the timer and deleted it, and the read finds anything.
add_timer_returns ==
    /\ adder # {}
    /\ \E p \in adder :
        \E seq \in (IF timer[p] = NoTimer THEN 0 .. MaxTimers - 1 ELSE {timer[p].sequence_}) :
            ids' = ids \cup {<<p, seq>>}
    /\ adder' = {}
    /\ UNCHANGED <<heapVars, setVars, batchVars, clockVars, fdVars, pending, cancelled, ran, alive>>

-----------------------------------------------------------------------------
(* cancel.                                                                 *)

Batch == {Id(e[2]) : e \in expired}

\* Mutant: a timer is recognised by its address.
cancel_in_loop_by_address(id) ==
    LET found == {a \in active_timers_ : a[1] = id[1]}
    IN  /\ IF found # {}
           THEN /\ timers_' = {e \in timers_ : e[2] # id[1]}
                /\ active_timers_' = active_timers_ \ found
                /\ timer' = Deleted(id[1])
                /\ UNCHANGED canceling_timers_
           ELSE /\ canceling_timers_' = IF calling_expired_timers_
                                        THEN canceling_timers_ \cup {id} ELSE canceling_timers_
                /\ UNCHANGED <<setVars, timer>>
        /\ cancelled' = cancelled \cup ((active_timers_ \cup Batch) \cap {id})

\* Mutant: a cancel from a callback of the batch is not remembered.
cancel_in_loop_forgets(id) ==
    /\ IF id \in active_timers_
       THEN /\ timers_' = timers_ \ {<<timer[id[1]].expiration_, id[1]>>}
            /\ active_timers_' = active_timers_ \ {id}
            /\ timer' = Deleted(id[1])
       ELSE UNCHANGED <<setVars, timer>>
    /\ cancelled' = cancelled \cup ((active_timers_ \cup Batch) \cap {id})
    /\ UNCHANGED canceling_timers_

\* Mutant: the entry of timers_ stays.
cancel_in_loop_leaves_entry(id) ==
    /\ IF id \in active_timers_
       THEN active_timers_' = active_timers_ \ {id} /\ timer' = Deleted(id[1])
       ELSE UNCHANGED <<active_timers_, timer>>
    /\ cancelled' = cancelled \cup ((active_timers_ \cup Batch) \cap {id})
    /\ UNCHANGED <<timers_, canceling_timers_>>

cancel_in_loop(id) ==
    /\ IF id \in active_timers_
       THEN /\ timers_' = timers_ \ {<<timer[id[1]].expiration_, id[1]>>}
            /\ active_timers_' = active_timers_ \ {id}
            /\ timer' = Deleted(id[1])
            /\ UNCHANGED canceling_timers_
       ELSE /\ canceling_timers_' = IF calling_expired_timers_
                                    THEN canceling_timers_ \cup {id} ELSE canceling_timers_
            /\ UNCHANGED <<setVars, timer>>
    /\ cancelled' = cancelled \cup ((active_timers_ \cup Batch) \cap {id})

\* On the loop's thread, in whatever callback.  A user gives a Timer_ID away when
\* it cancels it.
cancel_here(id) ==
    /\ alive /\ cancel_in_loop(id)
    /\ ids' = ids \ {id}
    /\ UNCHANGED <<num_created_, calling_expired_timers_, expired, todo, started, clockVars,
                   fdVars, pending, adder, ran, alive>>

\* On another thread.
cancel(id) ==
    /\ alive /\ adder = {}
    /\ pending' = Append(pending, [op |-> "cancel", id |-> id])
    /\ ids' = ids \ {id}
    /\ UNCHANGED <<heapVars, setVars, batchVars, clockVars, fdVars, adder, cancelled, ran, alive>>

\* The loop runs a functor that another thread has queued, behind the callbacks of
\* active_channels_.
functor ==
    LET f == Head(pending)
    IN  /\ alive /\ ~calling_expired_timers_ /\ ~reported /\ pending # <<>>
        /\ pending' = Tail(pending)
        /\ \/ /\ f.op = "add" /\ add_timer_in_loop(timer, f.id[1])
              /\ UNCHANGED <<timer, canceling_timers_, cancelled>>
           \/ /\ f.op = "cancel" /\ cancel_in_loop(f.id)
              /\ UNCHANGED fdVars
        /\ UNCHANGED <<num_created_, calling_expired_timers_, expired, todo, started, clockVars,
                       adder, ids, ran, alive>>

-----------------------------------------------------------------------------
(* handle_read: the batch is taken out, its callbacks run one by one, and  *)
(* reset puts the timers back that repeat.                                 *)

get_expired == {e \in timers_ : e[1] <= clock}

\* Mutant: the expired timers stay in active_timers_.
handle_read_keeps_active ==
    /\ alive /\ reported /\ ~calling_expired_timers_
    /\ readable' = FALSE /\ reported' = FALSE /\ started' = clock
    /\ expired' = get_expired /\ todo' = get_expired
    /\ timers_' = timers_ \ get_expired
    /\ calling_expired_timers_' = TRUE /\ canceling_timers_' = {}
    /\ UNCHANGED <<heapVars, active_timers_, clockVars, alarm, userVars, cancelled, ran, alive>>

\* If a callback before it armed the timerfd again, its read fails and is ignored:
\* the batch is what has expired by now.
handle_read ==
    /\ alive /\ reported /\ ~calling_expired_timers_
    /\ readable' = FALSE /\ reported' = FALSE /\ started' = clock
    /\ expired' = get_expired /\ todo' = get_expired
    /\ timers_' = timers_ \ get_expired
    /\ active_timers_' = active_timers_ \ {Id(e[2]) : e \in get_expired}
    /\ calling_expired_timers_' = TRUE /\ canceling_timers_' = {}
    /\ UNCHANGED <<heapVars, clockVars, alarm, userVars, cancelled, ran, alive>>

\* The callbacks in the order of expiration; what user code does in them are the
\* steps add_timer_here and cancel_here.
run ==
    /\ \E e \in todo :
        /\ \A d \in todo : e[1] <= d[1]
        /\ todo' = todo \ {e}
        /\ ran' = ran \cup {timer[e[2]].sequence_}
    /\ UNCHANGED <<heapVars, setVars, canceling_timers_, calling_expired_timers_, expired,
                   started, clockVars, fdVars, userVars, cancelled, alive>>

\* Those of the batch that are put back; the others are deleted.
Again == {e \in expired : repeat(timer[e[2]]) /\ Id(e[2]) \notin canceling_timers_}

ResetHeap ==
    [p \in Addrs |-> IF \E e \in Again : e[2] = p THEN restart(timer[p])
                     ELSE IF \E e \in expired : e[2] = p THEN NoTimer ELSE timer[p]]

\* Mutant: the timerfd is not armed again.
reset_forgets_timerfd ==
    /\ calling_expired_timers_ /\ todo = {}
    /\ timer' = ResetHeap
    /\ timers_' = timers_ \cup {<<ResetHeap[e[2]].expiration_, e[2]>> : e \in Again}
    /\ active_timers_' = active_timers_ \cup {Id(e[2]) : e \in Again}
    /\ calling_expired_timers_' = FALSE /\ expired' = {} /\ started' = 0
    /\ UNCHANGED <<num_created_, canceling_timers_, todo, clockVars, fdVars, userVars,
                   cancelled, ran, alive>>

reset ==
    /\ calling_expired_timers_ /\ todo = {}
    /\ timer' = ResetHeap
    /\ timers_' = timers_ \cup {<<ResetHeap[e[2]].expiration_, e[2]>> : e \in Again}
    /\ active_timers_' = active_timers_ \cup {Id(e[2]) : e \in Again}
    /\ calling_expired_timers_' = FALSE /\ expired' = {} /\ started' = 0
    /\ \/ timers_' = {} /\ UNCHANGED fdVars
       \/ \E e \in timers_' : (\A d \in timers_' : e[1] <= d[1]) /\ reset_timerfd(e[1])
    /\ UNCHANGED <<num_created_, canceling_timers_, todo, clockVars, userVars,
                   cancelled, ran, alive>>

\* ~Timer_Queue frees none of the timers in timers_; the loop's functors are
\* gone by then.
dtor ==
    /\ alive /\ ~calling_expired_timers_ /\ ~reported /\ adder = {}
    /\ alive' = FALSE /\ pending' = <<>>
    /\ UNCHANGED <<heapVars, setVars, batchVars, clockVars, fdVars, adder, ids, cancelled, ran>>

-----------------------------------------------------------------------------
(* The clock and the timerfd (external).                                   *)

tick ==
    /\ alive /\ clock < MaxTime
    /\ clock' = clock + 1
    /\ UNCHANGED <<heapVars, setVars, batchVars, steps, fdVars, userVars, cancelled, ran, alive>>

\* The wall clock is set back or forward; the time until the timerfd goes off
\* stays what it was.
clock_set ==
    /\ alive /\ steps < MaxSteps
    /\ \/ /\ clock > 1 /\ clock' = clock - 1
          /\ alarm' = IF alarm = 0 THEN 0 ELSE alarm - 1
       \/ /\ clock < MaxTime /\ clock' = clock + 1
          /\ alarm' = IF alarm = 0 THEN 0 ELSE alarm + 1
    /\ steps' = steps + 1
    /\ UNCHANGED <<heapVars, setVars, batchVars, readable, reported, userVars, cancelled, ran,
                   alive>>

\* At the bound of the clock time passes uncounted.
timerfd_expires ==
    /\ alive /\ alarm # 0 /\ (clock >= alarm \/ clock = MaxTime)
    /\ alarm' = 0 /\ readable' = TRUE
    /\ UNCHANGED <<heapVars, setVars, batchVars, clockVars, reported, userVars, cancelled, ran,
                   alive>>

\* epoll_wait returns the timerfd's channel; callbacks of other channels may come
\* before its own.
poll ==
    /\ alive /\ readable /\ ~reported /\ ~calling_expired_timers_
    /\ reported' = TRUE
    /\ UNCHANGED <<heapVars, setVars, batchVars, clockVars, alarm, readable, userVars,
                   cancelled, ran, alive>>

-----------------------------------------------------------------------------
Next ==
    \/ \E p \in Addrs, d \in Delays, i \in Intervals : add_timer_here(p, d, i) \/ add_timer(p, d, i)
    \/ add_timer_returns
    \/ \E id \in ids : cancel_here(id) \/ cancel(id)
    \/ functor \/ handle_read \/ run \/ reset \/ dtor
    \/ tick \/ clock_set \/ timerfd_expires \/ poll

Spec == Init /\ [][Next]_vars

\* The loop keeps running, its callbacks return, and time passes.
Fairness ==
    /\ WF_vars(functor) /\ WF_vars(handle_read) /\ WF_vars(run) /\ WF_vars(reset)
    /\ WF_vars(tick) /\ WF_vars(timerfd_expires) /\ WF_vars(poll)

FairSpec == Spec /\ Fairness

-----------------------------------------------------------------------------
(* Properties.                                                             *)

Live == {p \in Addrs : timer[p] # NoTimer}

\* The asserts on the sizes of timers_ and active_timers_ and on what emplace and
\* erase return: between two steps the two sets name the same timers, each
\* entry of timers_ under the time at which its timer expires now.
IndexesAgree ==
    /\ \A e \in timers_ : e[2] \in Live /\ e[1] = timer[e[2]].expiration_
                            /\ Id(e[2]) \in active_timers_
    /\ \A a \in active_timers_ : a[1] \in Live /\ a = Id(a[1])
                            /\ <<timer[a[1]].expiration_, a[1]>> \in timers_

QueuedAdds == {pending[i].id[1] : i \in {j \in DOMAIN pending : pending[j].op = "add"}}

\* delete: while the queue lives, every Timer has exactly one owner, the set
\* timers_, the running batch or a queued add_timer_in_loop, and the owner's
\* pointer is to a Timer that is alive, even if a callback cancels timers of its
\* own batch: the loop's own thread deletes none twice, forgets none and runs none
\* after delete.  It says nothing of the Timer that add_timer still reads on another
\* thread, nor of the Timers that ~Timer_Queue leaves behind.
OneOwner ==
    alive =>
        LET inSet == {e[2] : e \in timers_}
            inBatch == {e[2] : e \in expired}
        IN  /\ Live = inSet \cup inBatch \cup QueuedAdds
            /\ inSet \cap inBatch = {} /\ inSet \cap QueuedAdds = {}
            /\ inBatch \cap QueuedAdds = {}

\* cancel: a timer that cancel_in_loop found, in the set or in the batch that is
\* running, is never put back.
CancelSticks == cancelled \cap active_timers_ = {}

\* delete in reset and cancel_in_loop: a timer is not deleted before it ran at
\* least once, unless it was cancelled under its own Timer_ID; the Timer_ID of an
\* older timer at the same address, or a cancel of another timer in the batch,
\* does it no harm.
NoneLost ==
    \A seq \in 0 .. num_created_ - 1 :
        \/ \E p \in Live : timer[p].sequence_ = seq
        \/ seq \in ran \cup {id[2] : id \in cancelled}

\* insert, reset: whenever the loop can go to sleep with timers in the set, the
\* timerfd is readable, or armed no later than the earliest of them needs (the
\* slack is what the clock was set meanwhile).
AlarmCovers ==
    alive /\ ~calling_expired_timers_ =>
        \A e \in timers_ : readable \/ (alarm > 0 /\ alarm <= Deadline(e[1]) + steps)

\* A timer in the set runs, or is cancelled, at some time after it is due.
DueTimerRuns ==
    \A when \in 1 .. MaxTime, p \in Addrs :
        (<<when, p>> \in timers_) ~> (<<when, p>> \notin timers_ \/ ~alive)
=============================================================================
