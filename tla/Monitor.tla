------------------------------- MODULE Monitor -------------------------------
(***************************************************************************)
(* src/base/mutex.h and src/base/condition.h: mutexes, each with one       *)
(* condition variable.  The operators are pieces of actions; a module that *)
(* extends this one conjoins them with the code around the call.           *)
(***************************************************************************)
EXTENDS FiniteSets

CONSTANTS Threads, Locks, NoOne

ASSUME MonitorAssumption == NoOne \notin Threads

VARIABLES
    holder_,    \* holder_[m]: the thread that assign_holder() recorded, NoOne for 0
    waiting     \* waiting[m]: the threads blocked in pthread_cond_wait on m's condition

MonitorInit ==
    /\ holder_ = [m \in Locks |-> NoOne]
    /\ waiting = [m \in Locks |-> {}]

\* Mutex::lock, the constructor of Mutex_Lock_Guard: blocks while it is held.
lock(t, m) ==
    /\ holder_[m] = NoOne
    /\ holder_' = [holder_ EXCEPT ![m] = t]

\* Mutex::unlock, the destructor of Mutex_Lock_Guard.
unlock(m) == holder_' = [holder_ EXCEPT ![m] = NoOne]

\* Condition::wait up to the point where the thread blocks: Unassign_Guard and
\* pthread_cond_wait give the mutex up and block in one atomic step.
wait(t, m) ==
    /\ unlock(m)
    /\ waiting' = [waiting EXCEPT ![m] = @ \cup {t}]

\* The rest of Condition::wait: a thread that was woken takes the mutex back.
awake(t, m) == t \notin waiting[m] /\ lock(t, m) /\ UNCHANGED waiting

\* pthread_cond_wait may return although nobody notified.
spurious(t, m) ==
    /\ t \in waiting[m]
    /\ waiting' = [waiting EXCEPT ![m] = @ \ {t}]

\* Condition::notify: one waiting thread, if there is any, is woken.
notify(m) ==
    \/ waiting[m] = {} /\ UNCHANGED waiting
    \/ \E t \in waiting[m] : waiting' = [waiting EXCEPT ![m] = @ \ {t}]

\* Condition::notify_all.
notify_all(m) == waiting' = [waiting EXCEPT ![m] = {}]
=============================================================================
