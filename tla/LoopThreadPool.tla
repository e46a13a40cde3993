--------------------------- MODULE LoopThreadPool ----------------------------
(***************************************************************************)
(* src/net/event_loop_thread_pool.cpp, src/net/event_loop_thread.cpp,      *)
(* src/base/thread.cpp and src/base/count_down_latch.cpp: the owner starts *)
(* num_threads_ Event_Loop_Threads one after the other, uses their loops,  *)
(* and destroys them one after the other.  Child k builds an Event_Loop on *)
(* its stack, publishes its address in loop_ and runs it.  Of the loop     *)
(* only what its owner can see is kept: the flags, the eventfd, and        *)
(* whether the object is alive (module EventLoop has the rest).            *)
(***************************************************************************)
EXTENDS Monitor, Naturals

CONSTANTS
    Owner,          \* the thread of base_loop_
    num_threads_

Children == 1 .. num_threads_
mutex_(k) == <<"mutex_", k>>    \* of Event_Loop_Thread k
latch_(k) == <<"latch_", k>>    \* of its thread_.latch_

ASSUME PoolAssumption ==
    /\ num_threads_ \in Nat \ {0} /\ Owner \notin Children
    /\ Threads = Children \cup {Owner}
    /\ Locks = {mutex_(k) : k \in Children} \cup {latch_(k) : k \in Children}

VARIABLES
    opc,            \* where the owner is
    cur,            \* which of threads_ it is dealing with
    cpc,            \* where each child is
    thread_,        \* thread_[k]: started_, joined_, tid_ and the latch's count_
    loop_,          \* loop_[k]: is the pointer of Event_Loop_Thread k set?
    loop,           \* loop[k]: the Event_Loop on child k's stack
    user_quit       \* history: the loops that the owner's own code has quit

vars == <<opc, cur, cpc, thread_, loop_, loop, user_quit, holder_, waiting>>

Init ==
    /\ MonitorInit
    /\ opc = "constructed" /\ cur = 1
    /\ cpc = [k \in Children |-> "none"]
    /\ thread_ = [k \in Children |->
                    [started_ |-> FALSE, joined_ |-> FALSE, tid_ |-> 0, count_ |-> 1]]
    /\ loop_ = [k \in Children |-> FALSE]
    /\ loop = [k \in Children |->
                    [life |-> "none", looping_ |-> FALSE, quit_ |-> FALSE, wakeup_fd_ |-> FALSE]]
    /\ user_quit = {}

-----------------------------------------------------------------------------
(* The owner.                                                              *)

OwnerGoes(from, to) == opc = from /\ opc' = to
ChildGoes(k, from, to) == cpc[k] = from /\ cpc' = [cpc EXCEPT ![k] = to]

\* Thread::start of the next thread; a failed pthread_create is passed over in
\* silence and start_loop goes on.
start ==
    /\ opc = "constructed"
    /\ \/ /\ opc' = "latch_lock" /\ cpc' = [cpc EXCEPT ![cur] = "born"]
          /\ thread_' = [thread_ EXCEPT ![cur].started_ = TRUE]
       \/ opc' = "start_done" /\ UNCHANGED <<cpc, thread_>>
    /\ UNCHANGED <<user_quit, cur, loop_, loop, holder_, waiting>>

\* Count_Down_Latch::wait.
latch_wait ==
    /\ \/ /\ OwnerGoes("latch_lock", "latch_test")
          /\ lock(Owner, latch_(cur)) /\ UNCHANGED waiting
       \/ OwnerGoes("latch_test", "latch_wait") /\ thread_[cur].count_ > 0
            /\ wait(Owner, latch_(cur))
       \/ OwnerGoes("latch_wait", "latch_test") /\ awake(Owner, latch_(cur))
       \/ /\ OwnerGoes("latch_test", "start_done") /\ thread_[cur].count_ = 0
          /\ unlock(latch_(cur)) /\ UNCHANGED waiting
    /\ UNCHANGED <<user_quit, cur, cpc, thread_, loop_, loop>>

\* start() of the pool: the next thread, or done.
StartNext ==
    IF cur < num_threads_ THEN opc' = "constructed" /\ cur' = cur + 1
                          ELSE opc' = "using" /\ cur' = cur

\* Mutant: loop_ is tested with if instead of while.
start_loop_tests_once ==
    /\ \/ /\ OwnerGoes("start_done", "test") /\ lock(Owner, mutex_(cur))
          /\ UNCHANGED <<cur, waiting>>
       \/ OwnerGoes("test", "wait") /\ ~loop_[cur] /\ wait(Owner, mutex_(cur)) /\ UNCHANGED cur
       \/ /\ opc = "wait" /\ Owner \notin waiting[mutex_(cur)] /\ StartNext
          /\ holder_[mutex_(cur)] = NoOne /\ UNCHANGED <<holder_, waiting>>
       \/ opc = "test" /\ loop_[cur] /\ StartNext /\ unlock(mutex_(cur)) /\ UNCHANGED waiting
    /\ UNCHANGED <<user_quit, cpc, thread_, loop_, loop>>

\* The rest of start_loop: wait for loop_ under mutex_.
start_loop ==
    /\ \/ /\ OwnerGoes("start_done", "test") /\ lock(Owner, mutex_(cur))
          /\ UNCHANGED <<cur, waiting>>
       \/ OwnerGoes("test", "wait") /\ ~loop_[cur] /\ wait(Owner, mutex_(cur)) /\ UNCHANGED cur
       \/ OwnerGoes("wait", "test") /\ awake(Owner, mutex_(cur)) /\ UNCHANGED cur
       \/ opc = "test" /\ loop_[cur] /\ StartNext /\ unlock(mutex_(cur)) /\ UNCHANGED waiting
    /\ UNCHANGED <<user_quit, cpc, thread_, loop_, loop>>

owner_spurious ==
    /\ opc \in {"latch_wait", "wait"}
    /\ spurious(Owner, IF opc = "wait" THEN mutex_(cur) ELSE latch_(cur))
    /\ UNCHANGED <<user_quit, opc, cur, cpc, thread_, loop_, loop, holder_>>

\* Event_Loop::quit through a pointer: the flag, then the eventfd.  On a dead
\* object both writes are lost (the stack of a thread that was not joined stays
\* mapped, and ~Event_Loop leaves the eventfd open).
Alive(k) == loop[k].life = "alive"
quit_flag(k) == loop' = [loop EXCEPT ![k].quit_ = @ \/ Alive(k)]
quit_wakeup(k) == loop' = [loop EXCEPT ![k].wakeup_fd_ = @ \/ Alive(k)]

\* The owner's code quits one of the loops it got from start_loop, as
\* tests/event_loop_thread_test.cpp does.
quit(k) ==
    /\ \/ /\ OwnerGoes("using", "user_wakeup") /\ cur' = k
          /\ quit_flag(k) /\ user_quit' = user_quit \cup {k}
       \/ /\ OwnerGoes("user_wakeup", "using") /\ cur = k
          /\ quit_wakeup(k) /\ UNCHANGED <<cur, user_quit>>
    /\ UNCHANGED <<cpc, thread_, loop_, holder_, waiting>>

\* The destruction of the pool begins.
begin_destruction ==
    /\ OwnerGoes("using", "dtor") /\ cur' = 1
    /\ UNCHANGED <<cpc, thread_, loop_, loop, user_quit, holder_, waiting>>

\* ~Event_Loop_Thread reads loop_ without mutex_.
dtor_reads_loop ==
    /\ OwnerGoes("dtor", IF loop_[cur] THEN "dtor_quit" ELSE "dtor_members")
    /\ UNCHANGED <<user_quit, cur, cpc, thread_, loop_, loop, holder_, waiting>>

\* Mutant: the destructor joins without telling the loop to quit.
dtor_quits_nothing ==
    /\ OwnerGoes("dtor_quit", "dtor_join")
    /\ UNCHANGED <<user_quit, cur, cpc, thread_, loop_, loop, holder_, waiting>>

\* loop_->quit(): a build that reads loop_ again may find nullptr there.
dtor_quits ==
    /\ \/ OwnerGoes("dtor_quit", "dtor_wakeup") /\ quit_flag(cur)
       \/ OwnerGoes("dtor_quit", "crashed") /\ ~loop_[cur] /\ UNCHANGED loop
       \/ OwnerGoes("dtor_wakeup", "dtor_join") /\ quit_wakeup(cur)
    /\ UNCHANGED <<user_quit, cur, cpc, thread_, loop_, holder_, waiting>>

\* Mutant: the destructor does not wait for the child.
join_forgotten ==
    /\ OwnerGoes("dtor_join", "dtor_members")
    /\ UNCHANGED <<user_quit, cur, cpc, thread_, loop_, loop, holder_, waiting>>

\* Thread::join.
join ==
    /\ OwnerGoes("dtor_join", "dtor_members") /\ cpc[cur] = "finished"
    /\ thread_' = [thread_ EXCEPT ![cur].joined_ = TRUE]
    /\ UNCHANGED <<user_quit, cur, cpc, loop_, loop, holder_, waiting>>

\* ~Condition, ~Mutex and ~Thread, then the next Event_Loop_Thread.  A thread
\* that was not joined is detached and goes on.
destroy_members ==
    /\ opc = "dtor_members"
    /\ IF cur < num_threads_ THEN opc' = "dtor" /\ cur' = cur + 1
                             ELSE opc' = "destroyed" /\ cur' = cur
    /\ UNCHANGED <<user_quit, cpc, thread_, loop_, loop, holder_, waiting>>

-----------------------------------------------------------------------------
(* Child k.                                                                *)

\* Mutant: the tid is stored after the latch was released.
run_in_thread_stores_late(k) ==
    /\ \/ ChildGoes(k, "born", "latch_lock") /\ UNCHANGED <<thread_, holder_, waiting>>
       \/ ChildGoes(k, "latch_lock", "latch_dec") /\ lock(k, latch_(k))
            /\ UNCHANGED <<thread_, waiting>>
       \/ /\ ChildGoes(k, "latch_dec", "latch_unlock")
          /\ thread_' = [thread_ EXCEPT ![k].count_ = @ - 1]
          /\ notify_all(latch_(k)) /\ UNCHANGED holder_
       \/ ChildGoes(k, "latch_unlock", "thread_func") /\ unlock(latch_(k))
            /\ UNCHANGED <<thread_, waiting>>
       \/ /\ cpc[k] = "thread_func" /\ thread_[k].tid_ = 0
          /\ thread_' = [thread_ EXCEPT ![k].tid_ = k] /\ UNCHANGED <<cpc, holder_, waiting>>
    /\ UNCHANGED <<user_quit, opc, cur, loop_, loop>>

\* Thread_Data::run_in_thread up to func_(): store the tid, count the latch down.
run_in_thread(k) ==
    /\ \/ /\ ChildGoes(k, "born", "latch_lock")
          /\ thread_' = [thread_ EXCEPT ![k].tid_ = k] /\ UNCHANGED <<holder_, waiting>>
       \/ ChildGoes(k, "latch_lock", "latch_dec") /\ lock(k, latch_(k))
            /\ UNCHANGED <<thread_, waiting>>
       \/ /\ ChildGoes(k, "latch_dec", "latch_unlock")
          /\ thread_' = [thread_ EXCEPT ![k].count_ = @ - 1]
          /\ IF thread_'[k].count_ = 0 THEN notify_all(latch_(k)) ELSE UNCHANGED waiting
          /\ UNCHANGED holder_
       \/ ChildGoes(k, "latch_unlock", "thread_func") /\ unlock(latch_(k))
            /\ UNCHANGED <<thread_, waiting>>
    /\ UNCHANGED <<user_quit, opc, cur, loop_, loop>>

\* The head of thread_func: the loop is constructed and callback_ runs.
construct_loop(k) ==
    /\ ChildGoes(k, "thread_func", "publish_lock")
    /\ loop' = [loop EXCEPT ![k].life = "alive"]
    /\ UNCHANGED <<user_quit, opc, cur, thread_, loop_, holder_, waiting>>

\* Mutant: the child never calls cond_.notify().
publish_silently(k) ==
    /\ \/ ChildGoes(k, "publish_lock", "publish") /\ lock(k, mutex_(k)) /\ UNCHANGED loop_
       \/ ChildGoes(k, "publish", "publish_unlock") /\ loop_' = [loop_ EXCEPT ![k] = TRUE]
            /\ UNCHANGED holder_
       \/ ChildGoes(k, "publish_unlock", "loop") /\ unlock(mutex_(k)) /\ UNCHANGED loop_
    /\ UNCHANGED <<user_quit, opc, cur, thread_, loop, waiting>>

\* loop_ = &loop and cond_.notify() under mutex_.
publish(k) ==
    /\ \/ ChildGoes(k, "publish_lock", "publish") /\ lock(k, mutex_(k))
            /\ UNCHANGED <<loop_, waiting>>
       \/ /\ ChildGoes(k, "publish", "publish_unlock")
          /\ loop_' = [loop_ EXCEPT ![k] = TRUE]
          /\ notify(mutex_(k)) /\ UNCHANGED holder_
       \/ ChildGoes(k, "publish_unlock", "loop") /\ unlock(mutex_(k))
            /\ UNCHANGED <<loop_, waiting>>
    /\ UNCHANGED <<user_quit, opc, cur, thread_, loop>>

\* Event_Loop::loop: at its head looping_ is set and then, in a second store,
\* quit_ reset; quit_ is tested once per iteration; epoll_wait returns for the
\* eventfd or, at the latest, at its timeout.
run_loop(k) ==
    /\ \/ ChildGoes(k, "loop", "head") /\ loop' = [loop EXCEPT ![k].looping_ = TRUE]
       \/ ChildGoes(k, "head", "while") /\ loop' = [loop EXCEPT ![k].quit_ = FALSE]
       \/ ChildGoes(k, "while", "poll") /\ ~loop[k].quit_ /\ UNCHANGED loop
       \/ ChildGoes(k, "poll", "while") /\ loop' = [loop EXCEPT ![k].wakeup_fd_ = FALSE]
       \/ ChildGoes(k, "while", "leave_lock") /\ loop[k].quit_
            /\ loop' = [loop EXCEPT ![k].looping_ = FALSE]
    /\ UNCHANGED <<user_quit, opc, cur, thread_, loop_, holder_, waiting>>

\* The end of thread_func: loop_ = nullptr under mutex_; the guard, declared
\* last, unlocks before the loop is destroyed.
leave(k) ==
    /\ \/ ChildGoes(k, "leave_lock", "leave") /\ lock(k, mutex_(k)) /\ UNCHANGED <<loop_, loop>>
       \/ ChildGoes(k, "leave", "leave_unlock") /\ loop_' = [loop_ EXCEPT ![k] = FALSE]
            /\ UNCHANGED <<holder_, loop>>
       \/ ChildGoes(k, "leave_unlock", "unwind") /\ unlock(mutex_(k)) /\ UNCHANGED <<loop_, loop>>
       \/ ChildGoes(k, "unwind", "finished") /\ loop' = [loop EXCEPT ![k].life = "dead"]
            /\ UNCHANGED <<loop_, holder_>>
    /\ UNCHANGED <<user_quit, opc, cur, thread_, waiting>>

-----------------------------------------------------------------------------
OwnerStep ==
    \/ start \/ latch_wait \/ start_loop
    \/ \E k \in Children : quit(k)
    \/ begin_destruction \/ dtor_reads_loop \/ dtor_quits \/ join \/ destroy_members
ChildStep(k) ==
    run_in_thread(k) \/ construct_loop(k) \/ publish(k) \/ run_loop(k) \/ leave(k)

Next == OwnerStep \/ owner_spurious \/ \E k \in Children : ChildStep(k)

Spec == Init /\ [][Next]_vars

\* All threads keep running, and a mutex is granted to a thread that finds it
\* free again and again.  No spurious wakeup is promised.
FairSpec == Spec /\ SF_vars(OwnerStep) /\ \A k \in Children : SF_vars(ChildStep(k))

-----------------------------------------------------------------------------
(* Properties.                                                             *)

\* Thread::start, assert(tid_ > 0): the latch orders the child's store of the
\* tid before the owner's read of it.
StartedHasTid ==
    opc = "start_done" /\ thread_[cur].started_ => thread_[cur].tid_ > 0

\* start_loop: whatever the spurious wakeups, every loop that start() put into
\* loops_ had been constructed.
StartReturnsLoops == opc \in {"using", "user_wakeup"} => \A k \in Children : loop[k].life # "none"

MutexFree(k) == holder_[mutex_(k)] = NoOne /\ holder_[latch_(k)] = NoOne

\* ~Event_Loop_Thread: as long as nobody else quit the loop, join() orders all
\* of the child, its last unlock of mutex_ included, before the destruction
\* of the members the child uses.
ChildEndsFirst ==
    opc = "dtor_members" /\ cur \notin user_quit => cpc[cur] = "finished" /\ MutexFree(cur)

\* start_loop returns for every thread that could be created: neither the
\* latch nor cond_ loses its notification.
StartReturns ==
    \A k \in Children :
        (opc = "latch_lock" /\ cur = k) ~> (opc = "using" \/ (opc = "constructed" /\ cur = k + 1))

\* ~Event_Loop_Thread returns for every thread that is past the head of loop(),
\* where quit_ was reset, and that nobody else quit: quit() stops the loop and
\* join() ends.  That looping_ is set is not enough.
DestructorReturnsIfLooping ==
    \A k \in Children :
        (opc = "dtor_quit" /\ cur = k /\ cpc[k] \in {"while", "poll"} /\ k \notin user_quit)
            ~> (opc = "destroyed" \/ (opc = "dtor" /\ cur = k + 1))

\* ~Mutex, assert(holder_ == 0): nobody holds mutex_ or the latch's mutex when
\* the members of an Event_Loop_Thread are destroyed, whoever quit the loop.
MutexFreeAtDestruction == opc = "dtor_members" => MutexFree(cur)

\* tests/event_loop_thread_test.cpp, printf("exit main().\n") and the end of
\* main: the destructor of an Event_Loop_Thread that was started returns.
DestructorReturns == (opc = "dtor") ~> (opc = "destroyed")
=============================================================================
