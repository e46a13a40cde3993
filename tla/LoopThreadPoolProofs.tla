------------------------- MODULE LoopThreadPoolProofs -------------------------
(***************************************************************************)
(* Proofs about LoopThreadPool, for any number of threads in the pool: the *)
(* tid is there when start() reads it, start_loop returns loops that were  *)
(* constructed, and a child ends before the members it uses are destroyed. *)
(***************************************************************************)
EXTENDS LoopThreadPool, Integers, TLAPS

OwnerPlaces == {"constructed", "latch_lock", "latch_test", "latch_wait", "start_done",
    "test", "wait", "using", "user_wakeup", "dtor", "dtor_quit", "dtor_wakeup",
    "dtor_join", "dtor_members", "destroyed", "crashed"}
ChildPlaces == {"none", "born", "latch_lock", "latch_dec", "latch_unlock", "thread_func",
    "publish_lock", "publish", "publish_unlock", "loop", "head", "while", "poll",
    "leave_lock", "leave", "leave_unlock", "unwind", "finished"}

ThreadObject == [started_ : BOOLEAN, joined_ : BOOLEAN, tid_ : Nat, count_ : Int]
LoopObject ==
    [life : {"none", "alive", "dead"}, looping_ : BOOLEAN, quit_ : BOOLEAN, wakeup_fd_ : BOOLEAN]

PoolType ==
    /\ opc \in OwnerPlaces /\ cur \in Children
    /\ cpc \in [Children -> ChildPlaces]
    /\ thread_ \in [Children -> ThreadObject]
    /\ loop_ \in [Children -> BOOLEAN]
    /\ loop \in [Children -> LoopObject]
    /\ user_quit \subseteq Children
    /\ holder_ \in [Locks -> Threads \cup {NoOne}]
    /\ waiting \in [Locks -> SUBSET Threads]

\* Who holds the two mutexes of Event_Loop_Thread k follows from where the child
\* and the owner are.
Holders(k) ==
    /\ holder_[latch_(k)] \in {k, Owner, NoOne} /\ holder_[mutex_(k)] \in {k, Owner, NoOne}
    /\ holder_[latch_(k)] = k <=> cpc[k] \in {"latch_dec", "latch_unlock"}
    /\ holder_[latch_(k)] = Owner <=> opc = "latch_test" /\ cur = k
    /\ holder_[mutex_(k)] = k <=>
        cpc[k] \in {"publish", "publish_unlock", "leave", "leave_unlock"}
    /\ holder_[mutex_(k)] = Owner <=> opc = "test" /\ cur = k

\* What the child has done by the time it is where it is.
ChildDid(k) ==
    /\ thread_[k].started_ <=> cpc[k] # "none"
    /\ cpc[k] \notin {"none", "born"} => thread_[k].tid_ = k
    /\ thread_[k].count_ =
        IF cpc[k] \in {"none", "born", "latch_lock", "latch_dec"} THEN 1 ELSE 0
    /\ loop_[k] <=> cpc[k] \in {"publish_unlock", "loop", "head", "while", "poll",
                                 "leave_lock", "leave"}
    /\ loop[k].life = "none" <=> cpc[k] \in {"none", "born", "latch_lock", "latch_dec",
                                             "latch_unlock", "thread_func"}

\* The child has passed the assignment of loop_.
Published(k) ==
    cpc[k] \in {"publish_unlock", "loop", "head", "while", "poll", "leave_lock", "leave",
                "leave_unlock", "unwind", "finished"}

Starting == opc \in {"constructed", "latch_lock", "latch_test", "latch_wait", "start_done",
                     "test", "wait"}

\* Threads are started one after the other, each when the one before it has
\* published its loop.
OneByOne(k) ==
    /\ ~Starting \/ k < cur => Published(k)
    /\ Starting /\ k > cur => cpc[k] = "none"
    /\ opc = "constructed" /\ k = cur => cpc[k] = "none"
    /\ opc \in {"start_done", "test", "wait"} /\ k = cur /\ thread_[k].started_
        => thread_[k].count_ = 0

\* ~Event_Loop_Thread of k has called quit().
DtorQuit(k) ==
    /\ opc \in {"dtor", "dtor_quit", "dtor_wakeup", "dtor_join", "dtor_members", "destroyed",
                "crashed"}
    /\ k < cur \/ (k = cur /\ opc \in {"dtor_wakeup", "dtor_join", "dtor_members", "destroyed"})

\* A loop ends only because it was told to.
QuitByOwner(k) ==
    loop[k].quit_ \/ cpc[k] \in {"leave_lock", "leave", "leave_unlock", "unwind", "finished"}
        => k \in user_quit \/ DtorQuit(k)

\* The inductive invariant.
PoolInv ==
    /\ PoolType
    /\ \A k \in Children :
        Holders(k) /\ ChildDid(k) /\ OneByOne(k) /\ QuitByOwner(k)
    /\ ChildEndsFirst

-----------------------------------------------------------------------------
\* The mutexes of the pool are different objects.
LEMMA LocksDiffer ==
    ASSUME NEW j \in Children, NEW k \in Children
    PROVE  /\ mutex_(k) \in Locks /\ latch_(k) \in Locks
           /\ mutex_(j) # latch_(k)
           /\ mutex_(j) = mutex_(k) <=> j = k
           /\ latch_(j) = latch_(k) <=> j = k
BY PoolAssumption DEF mutex_, latch_

\* The owner is none of the children, and NoOne is neither.
LEMMA ThreadsDiffer ==
    ASSUME NEW k \in Children
    PROVE  k \in Threads /\ Owner \in Threads /\ k # Owner /\ k # NoOne /\ Owner # NoOne
BY PoolAssumption, MonitorAssumption

\* threads_ is numbered from 1 to num_threads_.
LEMMA Numbered ==
    /\ 1 \in Children /\ Children \subseteq Nat \ {0}
    /\ \A k \in Children : k < num_threads_ => k + 1 \in Children
    /\ \A j, k \in Children : j < k \/ j = k \/ k < j
    /\ \A j, k \in Children : ~(k < num_threads_) => ~(k < j)
    /\ \A j, k \in Children : (j < k + 1 <=> j < k \/ j = k) /\ (k + 1 < j => k < j)
    /\ \A j, k \in Children : j < k => ~(k < j) /\ j # k
    /\ \A j \in Children : ~(j < 1)
    /\ \A j, k \in Children : j > k <=> k < j
BY PoolAssumption DEF Children

-----------------------------------------------------------------------------
(* What the pieces of the actions do to one thread, loop or mutex, and that *)
(* they leave the others alone.                                             *)

\* A child moves on: no other child does.
LEMMA ChildGoesEffect ==
    ASSUME NEW k \in Children, NEW from, NEW to \in ChildPlaces,
           cpc \in [Children -> ChildPlaces], ChildGoes(k, from, to)
    PROVE  /\ cpc' \in [Children -> ChildPlaces]
           /\ cpc[k] = from /\ cpc'[k] = to
           /\ \A j \in Children : j # k => cpc'[j] = cpc[j]
BY DEF ChildGoes

\* Mutex::lock takes this mutex and no other.
LEMMA LockEffect ==
    ASSUME NEW t \in Threads, NEW m \in Locks,
           holder_ \in [Locks -> Threads \cup {NoOne}], lock(t, m)
    PROVE  /\ holder_' \in [Locks -> Threads \cup {NoOne}]
           /\ holder_[m] = NoOne /\ holder_'[m] = t
           /\ \A l \in Locks : l # m => holder_'[l] = holder_[l]
BY DEF lock

\* Mutex::unlock gives up this mutex and no other.
LEMMA UnlockEffect ==
    ASSUME NEW m \in Locks, holder_ \in [Locks -> Threads \cup {NoOne}], unlock(m)
    PROVE  /\ holder_' \in [Locks -> Threads \cup {NoOne}]
           /\ holder_'[m] = NoOne
           /\ \A l \in Locks : l # m => holder_'[l] = holder_[l]
BY DEF unlock

\* The condition variables only ever hold threads of the pool.
LEMMA WaitingType ==
    ASSUME NEW t \in Threads, NEW m \in Locks, waiting \in [Locks -> SUBSET Threads],
           wait(t, m) \/ spurious(t, m) \/ notify(m) \/ notify_all(m)
    PROVE  waiting' \in [Locks -> SUBSET Threads]
BY DEF wait, spurious, notify, notify_all

\* Event_Loop::quit, first half: quit_ of a live loop is set, nothing else is.
LEMMA QuitFlagEffect ==
    ASSUME NEW k \in Children, loop \in [Children -> LoopObject], quit_flag(k)
    PROVE  /\ loop' \in [Children -> LoopObject]
           /\ \A j \in Children :
                /\ loop'[j].life = loop[j].life
                /\ loop'[j].quit_ => loop[j].quit_ \/ j = k
BY DEF quit_flag, Alive, LoopObject

\* Event_Loop::quit, second half: the eventfd is written, no flag changes.
LEMMA QuitWakeupEffect ==
    ASSUME NEW k \in Children, loop \in [Children -> LoopObject], quit_wakeup(k)
    PROVE  /\ loop' \in [Children -> LoopObject]
           /\ \A j \in Children :
                loop'[j].life = loop[j].life /\ (loop'[j].quit_ => loop[j].quit_)
BY DEF quit_wakeup, Alive, LoopObject

\* Thread::start of one thread.
LEMMA StartedEffect ==
    ASSUME NEW k \in Children, thread_ \in [Children -> ThreadObject],
           thread_' = [thread_ EXCEPT ![k].started_ = TRUE]
    PROVE  /\ thread_' \in [Children -> ThreadObject]
           /\ thread_'[k].started_
           /\ \A j \in Children :
                /\ thread_'[j].tid_ = thread_[j].tid_ /\ thread_'[j].count_ = thread_[j].count_
                /\ j # k => (thread_'[j].started_ <=> thread_[j].started_)
BY DEF ThreadObject

\* Thread::join of one thread.
LEMMA JoinedEffect ==
    ASSUME NEW k \in Children, thread_ \in [Children -> ThreadObject],
           thread_' = [thread_ EXCEPT ![k].joined_ = TRUE]
    PROVE  /\ thread_' \in [Children -> ThreadObject]
           /\ \A j \in Children :
                /\ thread_'[j].tid_ = thread_[j].tid_ /\ thread_'[j].count_ = thread_[j].count_
                /\ thread_'[j].started_ <=> thread_[j].started_
BY DEF ThreadObject

\* The child's store of its tid.
LEMMA TidEffect ==
    ASSUME NEW k \in Children, k \in Nat, thread_ \in [Children -> ThreadObject],
           thread_' = [thread_ EXCEPT ![k].tid_ = k]
    PROVE  /\ thread_' \in [Children -> ThreadObject]
           /\ thread_'[k].tid_ = k
           /\ \A j \in Children :
                /\ thread_'[j].started_ <=> thread_[j].started_
                /\ thread_'[j].count_ = thread_[j].count_
                /\ j # k => thread_'[j].tid_ = thread_[j].tid_
BY DEF ThreadObject

\* Count_Down_Latch::count_down.
LEMMA CountEffect ==
    ASSUME NEW k \in Children, thread_ \in [Children -> ThreadObject],
           thread_' = [thread_ EXCEPT ![k].count_ = @ - 1]
    PROVE  /\ thread_' \in [Children -> ThreadObject]
           /\ thread_'[k].count_ = thread_[k].count_ - 1
           /\ \A j \in Children :
                /\ thread_'[j].started_ <=> thread_[j].started_
                /\ thread_'[j].tid_ = thread_[j].tid_
                /\ j # k => thread_'[j].count_ = thread_[j].count_
BY DEF ThreadObject

\* The construction and the destruction of the loop on the child's stack.
LEMMA LifeEffect ==
    ASSUME NEW k \in Children, loop \in [Children -> LoopObject], NEW l \in {"alive", "dead"},
           loop' = [loop EXCEPT ![k].life = l]
    PROVE  /\ loop' \in [Children -> LoopObject]
           /\ loop'[k].life = l
           /\ \A j \in Children :
                /\ loop'[j].quit_ <=> loop[j].quit_
                /\ j # k => loop'[j].life = loop[j].life
BY DEF LoopObject

\* Event_Loop::loop changes the flags of its own loop and never sets quit_.
LEMMA RunLoopEffect ==
    ASSUME NEW k \in Children, loop \in [Children -> LoopObject], run_loop(k)
    PROVE  /\ loop' \in [Children -> LoopObject]
           /\ \A j \in Children :
                loop'[j].life = loop[j].life /\ (loop'[j].quit_ => loop[j].quit_)
<1>1. CASE loop' = [loop EXCEPT ![k].looping_ = TRUE]
    BY <1>1 DEF LoopObject
<1>5. CASE loop' = [loop EXCEPT ![k].quit_ = FALSE]
    BY <1>5 DEF LoopObject
<1>2. CASE loop' = [loop EXCEPT ![k].wakeup_fd_ = FALSE]
    BY <1>2 DEF LoopObject
<1>3. CASE loop' = [loop EXCEPT ![k].looping_ = FALSE]
    BY <1>3 DEF LoopObject
<1>4. CASE loop' = loop
    BY <1>4
<1> QED
    BY <1>1, <1>2, <1>3, <1>4, <1>5 DEF run_loop

-----------------------------------------------------------------------------
(* Every step keeps the invariant.                                         *)

Kid(k) == Holders(k) /\ ChildDid(k) /\ OneByOne(k) /\ QuitByOwner(k)

\* Thread::start, one thread of start_loop.
LEMMA StartKeeps == ASSUME PoolInv, start PROVE PoolInv'
<1>t. PoolType /\ cur \in Children /\ \A k \in Children : Kid(k)
    BY DEF PoolInv, PoolType, Kid
<1>1. CASE opc' = "start_done" /\ UNCHANGED <<cpc, thread_>>
  <2>1. PoolType'
    BY <1>t, <1>1 DEF start, PoolType, OwnerPlaces
  <2>2. ASSUME NEW k \in Children PROVE Kid(k)'
    BY <1>t, <1>1 DEF start, Kid, Holders, ChildDid, OneByOne, QuitByOwner, DtorQuit,
                      Published, Starting
  <2> QED
    BY <1>1, <2>1, <2>2 DEF PoolInv, Kid, ChildEndsFirst
<1>2. CASE /\ opc' = "latch_lock" /\ cpc' = [cpc EXCEPT ![cur] = "born"]
           /\ thread_' = [thread_ EXCEPT ![cur].started_ = TRUE]
  <2>e. /\ cpc' \in [Children -> ChildPlaces] /\ cpc'[cur] = "born"
        /\ \A j \in Children : j # cur => cpc'[j] = cpc[j]
    BY <1>2, <1>t DEF PoolType, ChildPlaces
  <2>f. thread_ \in [Children -> ThreadObject]
    BY <1>t DEF PoolType
  <2>1. PoolType'
    BY <1>t, <1>2, <2>e, <2>f, StartedEffect DEF start, PoolType, OwnerPlaces
  <2>2. ASSUME NEW k \in Children PROVE Kid(k)'
    <3>1. Kid(k) /\ k # cur => cpc'[k] = cpc[k] /\ (thread_'[k].started_ <=> thread_[k].started_)
        BY <1>t, <2>e, <2>f, <1>2, StartedEffect
    <3>2. thread_'[cur].started_ /\ thread_'[k].tid_ = thread_[k].tid_
            /\ thread_'[k].count_ = thread_[k].count_
        BY <1>t, <2>f, <1>2, StartedEffect
    <3> QED
        BY <1>t, <1>2, <2>e, <3>1, <3>2 DEF start, Kid, Holders, ChildDid, OneByOne, QuitByOwner,
                      DtorQuit, Published, Starting
  <2> QED
    BY <1>2, <2>1, <2>2 DEF PoolInv, Kid, ChildEndsFirst
<1> QED
    BY <1>1, <1>2 DEF start

\* Count_Down_Latch::wait.
LEMMA LatchWaitKeeps == ASSUME PoolInv, latch_wait PROVE PoolInv'
<1> DEFINE m == latch_(cur)
<1>t. PoolType /\ cur \in Children /\ \A k \in Children : Kid(k)
    BY DEF PoolInv, PoolType, Kid
<1>m. /\ m \in Locks /\ Owner \in Threads
      /\ \A k \in Children : mutex_(k) \in Locks /\ latch_(k) \in Locks /\ mutex_(k) # m
      /\ \A k \in Children : latch_(k) = m <=> k = cur
      /\ \A k \in Children : k # Owner /\ k # NoOne /\ Owner # NoOne
    BY <1>t, LocksDiffer, ThreadsDiffer
<1>h. holder_ \in [Locks -> Threads \cup {NoOne}] /\ waiting \in [Locks -> SUBSET Threads]
    BY <1>t DEF PoolType
<1> HIDE DEF m
<1>u. UNCHANGED <<user_quit, cur, cpc, thread_, loop_, loop>>
    BY DEF latch_wait
<1>1. CASE OwnerGoes("latch_lock", "latch_test") /\ lock(Owner, m) /\ UNCHANGED waiting
  <2>e. /\ holder_' \in [Locks -> Threads \cup {NoOne}]
        /\ holder_[m] = NoOne /\ holder_'[m] = Owner
        /\ \A l \in Locks : l # m => holder_'[l] = holder_[l]
    BY <1>1, <1>m, <1>h, LockEffect
  <2>1. PoolType'
    BY <1>t, <1>1, <1>u, <2>e DEF PoolType, OwnerPlaces, OwnerGoes
  <2>2. ASSUME NEW k \in Children PROVE Kid(k)'
    BY <1>t, <1>m, <1>1, <1>u, <2>e DEF OwnerGoes, Kid, Holders, ChildDid, OneByOne, QuitByOwner,
                                   DtorQuit, Published, Starting
  <2> QED
    BY <1>1, <2>1, <2>2 DEF PoolInv, Kid, ChildEndsFirst, OwnerGoes
<1>2. CASE OwnerGoes("latch_test", "latch_wait") /\ wait(Owner, m)
  <2>e. /\ holder_' \in [Locks -> Threads \cup {NoOne}]
        /\ holder_'[m] = NoOne
        /\ \A l \in Locks : l # m => holder_'[l] = holder_[l]
    BY <1>2, <1>m, <1>h, UnlockEffect DEF wait
  <2>w. waiting' \in [Locks -> SUBSET Threads]
    BY <1>2, <1>m, <1>h, WaitingType
  <2>1. PoolType'
    BY <1>t, <1>2, <1>u, <2>e, <2>w DEF PoolType, OwnerPlaces, OwnerGoes
  <2>2. ASSUME NEW k \in Children PROVE Kid(k)'
    BY <1>t, <1>m, <1>2, <1>u, <2>e DEF OwnerGoes, Kid, Holders, ChildDid, OneByOne, QuitByOwner,
                                   DtorQuit, Published, Starting
  <2> QED
    BY <1>2, <2>1, <2>2 DEF PoolInv, Kid, ChildEndsFirst, OwnerGoes
<1>3. CASE OwnerGoes("latch_wait", "latch_test") /\ awake(Owner, m)
  <2>e. /\ holder_' \in [Locks -> Threads \cup {NoOne}]
        /\ holder_[m] = NoOne /\ holder_'[m] = Owner
        /\ \A l \in Locks : l # m => holder_'[l] = holder_[l]
        /\ UNCHANGED waiting
    BY <1>3, <1>m, <1>h, LockEffect DEF awake
  <2>1. PoolType'
    BY <1>t, <1>3, <1>u, <2>e DEF PoolType, OwnerPlaces, OwnerGoes
  <2>2. ASSUME NEW k \in Children PROVE Kid(k)'
    BY <1>t, <1>m, <1>3, <1>u, <2>e DEF OwnerGoes, Kid, Holders, ChildDid, OneByOne, QuitByOwner,
                                   DtorQuit, Published, Starting
  <2> QED
    BY <1>3, <2>1, <2>2 DEF PoolInv, Kid, ChildEndsFirst, OwnerGoes
<1>4. CASE /\ OwnerGoes("latch_test", "start_done") /\ thread_[cur].count_ = 0
           /\ unlock(m) /\ UNCHANGED waiting
  <2>e. /\ holder_' \in [Locks -> Threads \cup {NoOne}]
        /\ holder_'[m] = NoOne
        /\ \A l \in Locks : l # m => holder_'[l] = holder_[l]
    BY <1>4, <1>m, <1>h, UnlockEffect
  <2>1. PoolType'
    BY <1>t, <1>4, <1>u, <2>e DEF PoolType, OwnerPlaces, OwnerGoes
  <2>2. ASSUME NEW k \in Children PROVE Kid(k)'
    BY <1>t, <1>m, <1>4, <1>u, <2>e DEF OwnerGoes, Kid, Holders, ChildDid, OneByOne, QuitByOwner,
                                   DtorQuit, Published, Starting
  <2> QED
    BY <1>4, <2>1, <2>2 DEF PoolInv, Kid, ChildEndsFirst, OwnerGoes
<1> QED
    BY <1>1, <1>2, <1>3, <1>4 DEF latch_wait, m

\* start_loop: a loop is waited for, and the next thread is started only when
\* the pointer to this one is there.
LEMMA StartLoopKeeps == ASSUME PoolInv, start_loop PROVE PoolInv'
<1> DEFINE m == mutex_(cur)
<1>t. PoolType /\ cur \in Children /\ \A k \in Children : Kid(k)
    BY DEF PoolInv, PoolType, Kid
<1>m. /\ m \in Locks /\ Owner \in Threads
      /\ \A k \in Children : mutex_(k) \in Locks /\ latch_(k) \in Locks /\ latch_(k) # m
      /\ \A k \in Children : mutex_(k) = m <=> k = cur
      /\ \A k \in Children : k # Owner /\ k # NoOne /\ Owner # NoOne
    BY <1>t, LocksDiffer, ThreadsDiffer
<1>h. holder_ \in [Locks -> Threads \cup {NoOne}] /\ waiting \in [Locks -> SUBSET Threads]
    BY <1>t DEF PoolType
<1> HIDE DEF m
<1>u. UNCHANGED <<user_quit, cpc, thread_, loop_, loop>>
    BY DEF start_loop
<1>1. CASE /\ OwnerGoes("start_done", "test") \/ OwnerGoes("wait", "test")
           /\ lock(Owner, m) /\ UNCHANGED <<cur, waiting>>
  <2>e. /\ holder_' \in [Locks -> Threads \cup {NoOne}]
        /\ holder_[m] = NoOne /\ holder_'[m] = Owner
        /\ \A l \in Locks : l # m => holder_'[l] = holder_[l]
    BY <1>1, <1>m, <1>h, LockEffect
  <2>1. PoolType'
    BY <1>t, <1>1, <1>u, <2>e DEF PoolType, OwnerPlaces, OwnerGoes
  <2>2. ASSUME NEW k \in Children PROVE Kid(k)'
    BY <1>t, <1>m, <1>1, <1>u, <2>e DEF OwnerGoes, Kid, Holders, ChildDid, OneByOne, QuitByOwner,
                                   DtorQuit, Published, Starting
  <2> QED
    BY <1>1, <2>1, <2>2 DEF PoolInv, Kid, ChildEndsFirst, OwnerGoes
<1>2. CASE OwnerGoes("test", "wait") /\ wait(Owner, m) /\ UNCHANGED cur
  <2>e. /\ holder_' \in [Locks -> Threads \cup {NoOne}]
        /\ holder_'[m] = NoOne
        /\ \A l \in Locks : l # m => holder_'[l] = holder_[l]
    BY <1>2, <1>m, <1>h, UnlockEffect DEF wait
  <2>w. waiting' \in [Locks -> SUBSET Threads]
    BY <1>2, <1>m, <1>h, WaitingType
  <2>1. PoolType'
    BY <1>t, <1>2, <1>u, <2>e, <2>w DEF PoolType, OwnerPlaces, OwnerGoes
  <2>2. ASSUME NEW k \in Children PROVE Kid(k)'
    BY <1>t, <1>m, <1>2, <1>u, <2>e DEF OwnerGoes, Kid, Holders, ChildDid, OneByOne, QuitByOwner,
                                   DtorQuit, Published, Starting
  <2> QED
    BY <1>2, <2>1, <2>2 DEF PoolInv, Kid, ChildEndsFirst, OwnerGoes
<1>3. CASE opc = "test" /\ loop_[cur] /\ StartNext /\ unlock(m) /\ UNCHANGED waiting
  <2>e. /\ holder_' \in [Locks -> Threads \cup {NoOne}]
        /\ holder_'[m] = NoOne
        /\ \A l \in Locks : l # m => holder_'[l] = holder_[l]
    BY <1>3, <1>m, <1>h, UnlockEffect
  <2>n. \/ opc' = "constructed" /\ cur' = cur + 1 /\ cur' \in Children
        \/ opc' = "using" /\ cur' = cur /\ ~(cur < num_threads_)
    BY <1>3, <1>t, Numbered DEF StartNext
  <2>1. PoolType'
    BY <1>t, <1>3, <1>u, <2>e, <2>n DEF PoolType, OwnerPlaces
  <2>2. ASSUME NEW k \in Children PROVE Kid(k)'
    <3>0. Published(cur)
        BY <1>t, <1>3 DEF Kid, ChildDid, Published
    <3>1. CASE opc' = "constructed"
      <4>1. cur' = cur + 1 /\ cur' \in Children /\ (k < cur' <=> k < cur \/ k = cur)
              /\ (k > cur' => k > cur) /\ (k = cur' => k > cur)
        BY <3>1, <2>n, <1>t, Numbered
      <4> QED
        BY <1>t, <1>m, <1>3, <1>u, <2>e, <3>0, <3>1, <4>1 DEF Kid, Holders, ChildDid, OneByOne,
                                   QuitByOwner, DtorQuit, Published, Starting
    <3>2. CASE opc' = "using"
      <4>1. cur' = cur /\ (k < cur \/ k = cur)
        BY <3>2, <2>n, <1>t, Numbered
      <4> QED
        BY <1>t, <1>m, <1>3, <1>u, <2>e, <3>0, <3>2, <4>1 DEF Kid, Holders, ChildDid, OneByOne,
                                   QuitByOwner, DtorQuit, Published, Starting
    <3> QED
        BY <2>n, <3>1, <3>2
  <2> QED
    BY <2>n, <2>1, <2>2 DEF PoolInv, Kid, ChildEndsFirst
<1> QED
    BY <1>1, <1>2, <1>3 DEF start_loop, awake, m

\* A spurious wakeup changes nothing but who waits.
LEMMA SpuriousKeeps == ASSUME PoolInv, owner_spurious PROVE PoolInv'
<1>t. PoolType /\ cur \in Children /\ \A k \in Children : Kid(k)
    BY DEF PoolInv, PoolType, Kid
<1>u. UNCHANGED <<user_quit, opc, cur, cpc, thread_, loop_, loop, holder_>>
    BY DEF owner_spurious
<1>m. /\ Owner \in Threads /\ mutex_(cur) \in Locks /\ latch_(cur) \in Locks
      /\ waiting \in [Locks -> SUBSET Threads]
    BY <1>t, LocksDiffer, ThreadsDiffer DEF PoolType
<1>w. waiting' \in [Locks -> SUBSET Threads]
    BY <1>m, WaitingType DEF owner_spurious
<1>1. PoolType'
    BY <1>t, <1>u, <1>w DEF PoolType
<1>2. ASSUME NEW k \in Children PROVE Kid(k)'
    BY <1>t, <1>u DEF Kid, Holders, ChildDid, OneByOne, QuitByOwner, DtorQuit, Published, Starting
<1> QED
    BY <1>u, <1>1, <1>2 DEF PoolInv, Kid, ChildEndsFirst, MutexFree

\* Event_Loop::quit called by the owner's own code.
LEMMA QuitKeeps == ASSUME PoolInv, NEW q \in Children, quit(q) PROVE PoolInv'
<1>t. PoolType /\ cur \in Children /\ \A k \in Children : Kid(k)
    BY DEF PoolInv, PoolType, Kid
<1>u. UNCHANGED <<cpc, thread_, loop_, holder_, waiting>> /\ loop \in [Children -> LoopObject]
    BY <1>t DEF quit, PoolType
<1>1. CASE /\ OwnerGoes("using", "user_wakeup") /\ cur' = q
           /\ quit_flag(q) /\ user_quit' = user_quit \cup {q}
  <2>e. /\ loop' \in [Children -> LoopObject]
        /\ \A j \in Children :
                loop'[j].life = loop[j].life /\ (loop'[j].quit_ => loop[j].quit_ \/ j = q)
    BY <1>1, <1>u, QuitFlagEffect
  <2>1. PoolType'
    BY <1>t, <1>1, <1>u, <2>e DEF PoolType, OwnerPlaces, OwnerGoes
  <2>2. ASSUME NEW k \in Children PROVE Kid(k)'
    BY <1>t, <1>1, <1>u, <2>e DEF OwnerGoes, Kid, Holders, ChildDid, OneByOne, QuitByOwner,
                                  DtorQuit, Published, Starting
  <2> QED
    BY <1>1, <2>1, <2>2 DEF PoolInv, Kid, ChildEndsFirst, OwnerGoes
<1>2. CASE /\ OwnerGoes("user_wakeup", "using") /\ quit_wakeup(q)
           /\ UNCHANGED <<cur, user_quit>>
  <2>e. /\ loop' \in [Children -> LoopObject]
        /\ \A j \in Children :
                loop'[j].life = loop[j].life /\ (loop'[j].quit_ => loop[j].quit_)
    BY <1>2, <1>u, QuitWakeupEffect
  <2>1. PoolType'
    BY <1>t, <1>2, <1>u, <2>e DEF PoolType, OwnerPlaces, OwnerGoes
  <2>2. ASSUME NEW k \in Children PROVE Kid(k)'
    BY <1>t, <1>2, <1>u, <2>e DEF OwnerGoes, Kid, Holders, ChildDid, OneByOne, QuitByOwner,
                                  DtorQuit, Published, Starting
  <2> QED
    BY <1>2, <2>1, <2>2 DEF PoolInv, Kid, ChildEndsFirst, OwnerGoes
<1> QED
    BY <1>1, <1>2 DEF quit

\* The destruction of the pool begins: nothing has been quit by it yet.
LEMMA BeginDestructionKeeps == ASSUME PoolInv, begin_destruction PROVE PoolInv'
<1>t. PoolType /\ cur \in Children /\ \A k \in Children : Kid(k)
    BY DEF PoolInv, PoolType, Kid
<1>n. 1 \in Children
    BY Numbered
<1>1. PoolType'
    BY <1>t, <1>n DEF begin_destruction, PoolType, OwnerPlaces, OwnerGoes
<1>2. ASSUME NEW k \in Children PROVE Kid(k)'
    BY <1>t DEF begin_destruction, OwnerGoes, Kid, Holders, ChildDid, OneByOne, QuitByOwner,
                DtorQuit, Published, Starting
<1> QED
    BY <1>1, <1>2 DEF PoolInv, Kid, ChildEndsFirst, begin_destruction, OwnerGoes

\* ~Event_Loop_Thread finds no pointer only after the child took it away, and
\* the child does that only when somebody else has quit its loop.
LEMMA DtorReadsKeeps == ASSUME PoolInv, dtor_reads_loop PROVE PoolInv'
<1>t. PoolType /\ cur \in Children /\ \A k \in Children : Kid(k)
    BY DEF PoolInv, PoolType, Kid
<1>u. /\ UNCHANGED <<user_quit, cur, cpc, thread_, loop_, loop, holder_, waiting>>
      /\ opc = "dtor" /\ opc' \in {"dtor_quit", "dtor_members"}
      /\ opc' = "dtor_members" => ~loop_[cur]
    BY DEF dtor_reads_loop, OwnerGoes
<1>1. PoolType'
    BY <1>t, <1>u DEF PoolType, OwnerPlaces
<1>2. ASSUME NEW k \in Children PROVE Kid(k)'
    BY <1>t, <1>u DEF Kid, Holders, ChildDid, OneByOne, QuitByOwner, DtorQuit, Published, Starting
<1>3. ASSUME ~loop_[cur] PROVE cur \in user_quit
  <2>1. Kid(cur) /\ ~(cur < cur)
    BY <1>t, Numbered
  <2>2. Published(cur)
    BY <1>u, <2>1 DEF Kid, OneByOne, Starting
  <2>3. cpc[cur] \in {"leave_unlock", "unwind", "finished"}
    BY <1>3, <2>1, <2>2 DEF Kid, ChildDid, Published
  <2> QED
    BY <1>u, <2>1, <2>3 DEF Kid, QuitByOwner, DtorQuit
<1> QED
    BY <1>u, <1>1, <1>2, <1>3 DEF PoolInv, Kid, ChildEndsFirst

\* ~Event_Loop_Thread tells the loop to quit.
LEMMA DtorQuitsKeeps == ASSUME PoolInv, dtor_quits PROVE PoolInv'
<1>t. PoolType /\ cur \in Children /\ \A k \in Children : Kid(k)
    BY DEF PoolInv, PoolType, Kid
<1>u. /\ UNCHANGED <<user_quit, cur, cpc, thread_, loop_, holder_, waiting>>
      /\ loop \in [Children -> LoopObject]
    BY <1>t DEF dtor_quits, PoolType
<1>e. /\ loop' \in [Children -> LoopObject]
      /\ \A j \in Children : loop'[j].life = loop[j].life
      /\ \/ opc = "dtor_quit" /\ opc' = "dtor_wakeup"
              /\ \A j \in Children : loop'[j].quit_ => loop[j].quit_ \/ j = cur
         \/ opc = "dtor_quit" /\ opc' = "crashed"
              /\ \A j \in Children : loop'[j].quit_ => loop[j].quit_
         \/ opc = "dtor_wakeup" /\ opc' = "dtor_join"
              /\ \A j \in Children : loop'[j].quit_ => loop[j].quit_
    BY <1>t, <1>u, QuitFlagEffect, QuitWakeupEffect DEF dtor_quits, OwnerGoes
<1>1. PoolType'
    BY <1>t, <1>u, <1>e DEF PoolType, OwnerPlaces
<1>2. ASSUME NEW k \in Children PROVE Kid(k)'
    BY <1>t, <1>u, <1>e DEF Kid, Holders, ChildDid, OneByOne, QuitByOwner, DtorQuit, Published,
                            Starting
<1> QED
    BY <1>e, <1>1, <1>2 DEF PoolInv, Kid, ChildEndsFirst

\* Thread::join returns when the child has ended.
LEMMA JoinKeeps == ASSUME PoolInv, join PROVE PoolInv'
<1>t. PoolType /\ cur \in Children /\ \A k \in Children : Kid(k)
    BY DEF PoolInv, PoolType, Kid
<1>u. /\ UNCHANGED <<user_quit, cur, cpc, loop_, loop, holder_, waiting>>
      /\ opc = "dtor_join" /\ opc' = "dtor_members" /\ cpc[cur] = "finished"
      /\ thread_ \in [Children -> ThreadObject]
    BY <1>t DEF join, OwnerGoes, PoolType
<1>e. /\ thread_' \in [Children -> ThreadObject]
      /\ \A j \in Children :
            /\ thread_'[j].tid_ = thread_[j].tid_ /\ thread_'[j].count_ = thread_[j].count_
            /\ thread_'[j].started_ <=> thread_[j].started_
    BY <1>t, <1>u, JoinedEffect DEF join
<1>1. PoolType'
    BY <1>t, <1>u, <1>e DEF PoolType, OwnerPlaces
<1>2. ASSUME NEW k \in Children PROVE Kid(k)'
    BY <1>t, <1>u, <1>e DEF Kid, Holders, ChildDid, OneByOne, QuitByOwner, DtorQuit, Published,
                            Starting
<1>3. MutexFree(cur)
    BY <1>t, <1>u DEF Kid, Holders, MutexFree
<1> QED
    BY <1>u, <1>1, <1>2, <1>3 DEF PoolInv, Kid, ChildEndsFirst, MutexFree

\* The next Event_Loop_Thread is destroyed, or the pool is gone.
LEMMA DestroyMembersKeeps == ASSUME PoolInv, destroy_members PROVE PoolInv'
<1>t. PoolType /\ cur \in Children /\ \A k \in Children : Kid(k)
    BY DEF PoolInv, PoolType, Kid
<1>u. /\ UNCHANGED <<user_quit, cpc, thread_, loop_, loop, holder_, waiting>>
      /\ opc = "dtor_members"
      /\ \/ opc' = "dtor" /\ cur' = cur + 1 /\ cur' \in Children
         \/ opc' = "destroyed" /\ cur' = cur
    BY <1>t, Numbered DEF destroy_members
<1>1. PoolType'
    BY <1>t, <1>u DEF PoolType, OwnerPlaces
<1>2. ASSUME NEW k \in Children PROVE Kid(k)'
  <2>0. Kid(k) /\ Published(k)
    BY <1>t, <1>u DEF Kid, OneByOne, Starting
  <2>1. Holders(k)' /\ ChildDid(k)' /\ OneByOne(k)'
    BY <1>u, <2>0 DEF Kid, Holders, ChildDid, OneByOne, Published, Starting
  <2>2. QuitByOwner(k)'
    <3>1. CASE opc' = "dtor"
      <4>1. k < cur' <=> k < cur \/ k = cur
        BY <3>1, <1>t, <1>u, Numbered
      <4> QED
        BY <1>u, <2>0, <3>1, <4>1 DEF Kid, QuitByOwner, DtorQuit
    <3>2. CASE opc' = "destroyed"
        BY <1>u, <2>0, <3>2 DEF Kid, QuitByOwner, DtorQuit
    <3> QED
        BY <1>u, <3>1, <3>2
  <2> QED
    BY <2>1, <2>2 DEF Kid
<1> QED
    BY <1>u, <1>1, <1>2 DEF PoolInv, Kid, ChildEndsFirst

\* A child's step does not disturb ChildEndsFirst: a child that has finished
\* takes no step.
LEMMA ChildKeepsEnd ==
    ASSUME PoolInv, NEW c \in Children, UNCHANGED <<opc, cur, user_quit>>,
           cpc[c] # "finished", \A j \in Children : j # c => cpc'[j] = cpc[j],
           \A j \in Children : Holders(j)'
    PROVE  ChildEndsFirst'
<1> SUFFICES ASSUME opc = "dtor_members", cur \notin user_quit
             PROVE  cpc'[cur] = "finished" /\ MutexFree(cur)'
    BY DEF ChildEndsFirst
<1>1. cur \in Children /\ cpc[cur] = "finished" /\ cur # c
    BY DEF PoolInv, PoolType, ChildEndsFirst
<1> QED
    BY <1>1 DEF Holders, MutexFree

\* Thread_Data::run_in_thread up to func_().
LEMMA RunInThreadKeeps == ASSUME PoolInv, NEW c \in Children, run_in_thread(c) PROVE PoolInv'
<1> DEFINE m == latch_(c)
<1>t. PoolType /\ cur \in Children /\ \A k \in Children : Kid(k)
    BY DEF PoolInv, PoolType, Kid
<1>m. /\ m \in Locks /\ c \in Threads /\ c \in Nat
      /\ \A k \in Children : mutex_(k) \in Locks /\ latch_(k) \in Locks /\ mutex_(k) # m
      /\ \A k \in Children : latch_(k) = m <=> k = c
      /\ \A k \in Children : k # Owner /\ k # NoOne /\ Owner # NoOne
    BY LocksDiffer, ThreadsDiffer, Numbered
<1>h. /\ holder_ \in [Locks -> Threads \cup {NoOne}] /\ waiting \in [Locks -> SUBSET Threads]
      /\ cpc \in [Children -> ChildPlaces] /\ thread_ \in [Children -> ThreadObject]
    BY <1>t DEF PoolType
<1>l. m = latch_(c)
    OBVIOUS
<1> HIDE DEF m
<1>u. UNCHANGED <<user_quit, opc, cur, loop_, loop>>
    BY DEF run_in_thread
<1>p. {"latch_lock", "latch_dec", "latch_unlock", "thread_func"} \subseteq ChildPlaces
    BY DEF ChildPlaces
<1>1. CASE /\ ChildGoes(c, "born", "latch_lock") /\ thread_' = [thread_ EXCEPT ![c].tid_ = c]
           /\ UNCHANGED <<holder_, waiting>>
  <2>c. /\ cpc' \in [Children -> ChildPlaces]
        /\ cpc[c] = "born" /\ cpc'[c] = "latch_lock"
        /\ \A j \in Children : j # c => cpc'[j] = cpc[j]
    BY <1>1, <1>h, <1>p, ChildGoesEffect
  <2>e. /\ thread_' \in [Children -> ThreadObject] /\ thread_'[c].tid_ = c
        /\ \A j \in Children :
            /\ (thread_'[j].started_ <=> thread_[j].started_)
            /\ thread_'[j].count_ = thread_[j].count_
            /\ j # c => thread_'[j].tid_ = thread_[j].tid_
    BY <1>1, <1>h, <1>m, TidEffect
  <2>1. PoolType'
    BY <1>t, <1>1, <1>u, <2>c, <2>e DEF PoolType
  <2>2. ASSUME NEW k \in Children PROVE Kid(k)'
    BY <1>t, <1>m, <1>1, <1>u, <2>c, <2>e DEF Kid, Holders, ChildDid, OneByOne, QuitByOwner,
                                   DtorQuit, Published, Starting
  <2> QED
    BY <1>u, <2>1, <2>2, <2>c, ChildKeepsEnd DEF PoolInv, Kid
<1>2. CASE ChildGoes(c, "latch_lock", "latch_dec") /\ lock(c, m) /\ UNCHANGED <<thread_, waiting>>
  <2>c. /\ cpc' \in [Children -> ChildPlaces]
        /\ cpc[c] = "latch_lock" /\ cpc'[c] = "latch_dec"
        /\ \A j \in Children : j # c => cpc'[j] = cpc[j]
    BY <1>2, <1>h, <1>p, ChildGoesEffect
  <2>e. /\ holder_' \in [Locks -> Threads \cup {NoOne}]
        /\ holder_[m] = NoOne /\ holder_'[m] = c
        /\ \A l \in Locks : l # m => holder_'[l] = holder_[l]
    BY <1>2, <1>m, <1>h, LockEffect
  <2>1. PoolType'
    BY <1>t, <1>2, <1>u, <2>c, <2>e DEF PoolType
  <2>2. ASSUME NEW k \in Children PROVE Kid(k)'
    BY <1>t, <1>m, <1>2, <1>u, <2>c, <2>e DEF Kid, Holders, ChildDid, OneByOne, QuitByOwner,
                                   DtorQuit, Published, Starting
  <2> QED
    BY <1>u, <2>1, <2>2, <2>c, ChildKeepsEnd DEF PoolInv, Kid
<1>3. CASE /\ ChildGoes(c, "latch_dec", "latch_unlock")
           /\ thread_' = [thread_ EXCEPT ![c].count_ = @ - 1]
           /\ notify_all(m) \/ UNCHANGED waiting
           /\ UNCHANGED holder_
  <2>c. /\ cpc' \in [Children -> ChildPlaces]
        /\ cpc[c] = "latch_dec" /\ cpc'[c] = "latch_unlock"
        /\ \A j \in Children : j # c => cpc'[j] = cpc[j]
    BY <1>3, <1>h, <1>p, ChildGoesEffect
  <2>e. /\ thread_' \in [Children -> ThreadObject] /\ thread_'[c].count_ = thread_[c].count_ - 1
        /\ \A j \in Children :
            /\ (thread_'[j].started_ <=> thread_[j].started_)
            /\ thread_'[j].tid_ = thread_[j].tid_
            /\ j # c => thread_'[j].count_ = thread_[j].count_
    BY <1>3, <1>h, CountEffect
  <2>w. waiting' \in [Locks -> SUBSET Threads]
    BY <1>3, <1>m, <1>h, WaitingType
  <2>1. PoolType'
    BY <1>t, <1>3, <1>u, <2>c, <2>e, <2>w DEF PoolType
  <2>z. thread_'[c].count_ = 0
    BY <1>t, <2>c, <2>e DEF Kid, ChildDid
  <2>2. ASSUME NEW k \in Children PROVE Kid(k)'
    BY <1>t, <1>m, <1>3, <1>u, <2>c, <2>e, <2>z DEF Kid, Holders, ChildDid, OneByOne, QuitByOwner,
                                   DtorQuit, Published, Starting
  <2> QED
    BY <1>u, <2>1, <2>2, <2>c, ChildKeepsEnd DEF PoolInv, Kid
<1>4. CASE ChildGoes(c, "latch_unlock", "thread_func") /\ unlock(m)
            /\ UNCHANGED <<thread_, waiting>>
  <2>c. /\ cpc' \in [Children -> ChildPlaces]
        /\ cpc[c] = "latch_unlock" /\ cpc'[c] = "thread_func"
        /\ \A j \in Children : j # c => cpc'[j] = cpc[j]
    BY <1>4, <1>h, <1>p, ChildGoesEffect
  <2>e. /\ holder_' \in [Locks -> Threads \cup {NoOne}]
        /\ holder_'[m] = NoOne
        /\ \A l \in Locks : l # m => holder_'[l] = holder_[l]
    BY <1>4, <1>m, <1>h, UnlockEffect
  <2>1. PoolType'
    BY <1>t, <1>4, <1>u, <2>c, <2>e DEF PoolType
  <2>2. ASSUME NEW k \in Children PROVE Kid(k)'
    BY <1>t, <1>m, <1>4, <1>u, <2>c, <2>e DEF Kid, Holders, ChildDid, OneByOne, QuitByOwner,
                                   DtorQuit, Published, Starting
  <2> QED
    BY <1>u, <2>1, <2>2, <2>c, ChildKeepsEnd DEF PoolInv, Kid
<1> QED
    BY <1>1, <1>2, <1>3, <1>4, <1>l DEF run_in_thread

\* The loop is constructed on the child's stack.
LEMMA ConstructKeeps == ASSUME PoolInv, NEW c \in Children, construct_loop(c) PROVE PoolInv'
<1>t. PoolType /\ cur \in Children /\ \A k \in Children : Kid(k)
    BY DEF PoolInv, PoolType, Kid
<1>u. /\ UNCHANGED <<user_quit, opc, cur, thread_, loop_, holder_, waiting>>
      /\ cpc \in [Children -> ChildPlaces] /\ loop \in [Children -> LoopObject]
      /\ "publish_lock" \in ChildPlaces
    BY <1>t DEF construct_loop, PoolType, ChildPlaces
<1>c. /\ cpc' \in [Children -> ChildPlaces]
      /\ cpc[c] = "thread_func" /\ cpc'[c] = "publish_lock"
      /\ \A j \in Children : j # c => cpc'[j] = cpc[j]
    BY <1>u, ChildGoesEffect DEF construct_loop
<1>e. /\ loop' \in [Children -> LoopObject] /\ loop'[c].life = "alive"
      /\ \A j \in Children :
            (loop'[j].quit_ <=> loop[j].quit_) /\ (j # c => loop'[j].life = loop[j].life)
    BY <1>u, LifeEffect DEF construct_loop
<1>1. PoolType'
    BY <1>t, <1>u, <1>c, <1>e DEF PoolType
<1>2. ASSUME NEW k \in Children PROVE Kid(k)'
    BY <1>t, <1>u, <1>c, <1>e DEF Kid, Holders, ChildDid, OneByOne, QuitByOwner,
                                  DtorQuit, Published, Starting
<1> QED
    BY <1>u, <1>1, <1>2, <1>c, ChildKeepsEnd DEF PoolInv, Kid

\* The child publishes its loop under mutex_.
LEMMA PublishKeeps == ASSUME PoolInv, NEW c \in Children, publish(c) PROVE PoolInv'
<1> DEFINE m == mutex_(c)
<1>t. PoolType /\ cur \in Children /\ \A k \in Children : Kid(k)
    BY DEF PoolInv, PoolType, Kid
<1>m. /\ m \in Locks /\ c \in Threads
      /\ \A k \in Children : mutex_(k) \in Locks /\ latch_(k) \in Locks /\ latch_(k) # m
      /\ \A k \in Children : mutex_(k) = m <=> k = c
      /\ \A k \in Children : k # Owner /\ k # NoOne /\ Owner # NoOne
    BY LocksDiffer, ThreadsDiffer
<1>h. /\ holder_ \in [Locks -> Threads \cup {NoOne}] /\ waiting \in [Locks -> SUBSET Threads]
      /\ cpc \in [Children -> ChildPlaces] /\ loop_ \in [Children -> BOOLEAN]
      /\ loop \in [Children -> LoopObject]
    BY <1>t DEF PoolType
<1>l. m = mutex_(c)
    OBVIOUS
<1> HIDE DEF m
<1>u. UNCHANGED <<user_quit, opc, cur, thread_, loop>>
    BY DEF publish
<1>p. {"publish", "publish_unlock", "loop"} \subseteq ChildPlaces
    BY DEF ChildPlaces
<1>1. CASE ChildGoes(c, "publish_lock", "publish") /\ lock(c, m) /\ UNCHANGED <<loop_, waiting>>
  <2>c. /\ cpc' \in [Children -> ChildPlaces]
        /\ cpc[c] = "publish_lock" /\ cpc'[c] = "publish"
        /\ \A j \in Children : j # c => cpc'[j] = cpc[j]
    BY <1>1, <1>h, <1>p, ChildGoesEffect
  <2>e. /\ holder_' \in [Locks -> Threads \cup {NoOne}]
        /\ holder_[m] = NoOne /\ holder_'[m] = c
        /\ \A l \in Locks : l # m => holder_'[l] = holder_[l]
    BY <1>1, <1>m, <1>h, LockEffect
  <2>1. PoolType'
    BY <1>t, <1>1, <1>u, <2>c, <2>e DEF PoolType
  <2>2. ASSUME NEW k \in Children PROVE Kid(k)'
    BY <1>t, <1>m, <1>1, <1>u, <2>c, <2>e DEF Kid, Holders, ChildDid, OneByOne, QuitByOwner,
                                   DtorQuit, Published, Starting
  <2> QED
    BY <1>u, <2>1, <2>2, <2>c, ChildKeepsEnd DEF PoolInv, Kid
<1>2. CASE /\ ChildGoes(c, "publish", "publish_unlock")
           /\ loop_' = [loop_ EXCEPT ![c] = TRUE]
           /\ notify(m) /\ UNCHANGED holder_
  <2>c. /\ cpc' \in [Children -> ChildPlaces]
        /\ cpc[c] = "publish" /\ cpc'[c] = "publish_unlock"
        /\ \A j \in Children : j # c => cpc'[j] = cpc[j]
    BY <1>2, <1>h, <1>p, ChildGoesEffect
  <2>e. /\ loop_' \in [Children -> BOOLEAN] /\ loop_'[c] = TRUE
        /\ \A j \in Children : j # c => loop_'[j] = loop_[j]
    BY <1>2, <1>h
  <2>w. waiting' \in [Locks -> SUBSET Threads]
    BY <1>2, <1>m, <1>h, WaitingType
  <2>1. PoolType'
    BY <1>t, <1>2, <1>u, <2>c, <2>e, <2>w DEF PoolType
  <2>2. ASSUME NEW k \in Children PROVE Kid(k)'
    BY <1>t, <1>m, <1>2, <1>u, <2>c, <2>e DEF Kid, Holders, ChildDid, OneByOne, QuitByOwner,
                                   DtorQuit, Published, Starting
  <2> QED
    BY <1>u, <2>1, <2>2, <2>c, ChildKeepsEnd DEF PoolInv, Kid
<1>3. CASE ChildGoes(c, "publish_unlock", "loop") /\ unlock(m) /\ UNCHANGED <<loop_, waiting>>
  <2>c. /\ cpc' \in [Children -> ChildPlaces]
        /\ cpc[c] = "publish_unlock" /\ cpc'[c] = "loop"
        /\ \A j \in Children : j # c => cpc'[j] = cpc[j]
    BY <1>3, <1>h, <1>p, ChildGoesEffect
  <2>e. /\ holder_' \in [Locks -> Threads \cup {NoOne}]
        /\ holder_'[m] = NoOne
        /\ \A l \in Locks : l # m => holder_'[l] = holder_[l]
    BY <1>3, <1>m, <1>h, UnlockEffect
  <2>1. PoolType'
    BY <1>t, <1>3, <1>u, <2>c, <2>e DEF PoolType
  <2>2. ASSUME NEW k \in Children PROVE Kid(k)'
    BY <1>t, <1>m, <1>3, <1>u, <2>c, <2>e DEF Kid, Holders, ChildDid, OneByOne, QuitByOwner,
                                   DtorQuit, Published, Starting
  <2> QED
    BY <1>u, <2>1, <2>2, <2>c, ChildKeepsEnd DEF PoolInv, Kid
<1> QED
    BY <1>1, <1>2, <1>3, <1>l DEF publish

\* Event_Loop::loop leaves its while loop only when it was told to quit.
LEMMA RunLoopKeeps == ASSUME PoolInv, NEW c \in Children, run_loop(c) PROVE PoolInv'
<1>t. PoolType /\ cur \in Children /\ \A k \in Children : Kid(k)
    BY DEF PoolInv, PoolType, Kid
<1>u. /\ UNCHANGED <<user_quit, opc, cur, thread_, loop_, holder_, waiting>>
      /\ cpc \in [Children -> ChildPlaces] /\ loop \in [Children -> LoopObject]
      /\ {"head", "while", "poll", "leave_lock"} \subseteq ChildPlaces
    BY <1>t DEF run_loop, PoolType, ChildPlaces
<1>c. /\ cpc' \in [Children -> ChildPlaces]
      /\ \/ cpc[c] \in {"loop", "head", "while", "poll"} /\ cpc'[c] \in {"head", "while", "poll"}
         \/ cpc[c] = "while" /\ cpc'[c] = "leave_lock" /\ loop[c].quit_
      /\ \A j \in Children : j # c => cpc'[j] = cpc[j]
    BY <1>u, ChildGoesEffect DEF run_loop
<1>e. /\ loop' \in [Children -> LoopObject]
      /\ \A j \in Children : loop'[j].life = loop[j].life /\ (loop'[j].quit_ => loop[j].quit_)
    BY <1>u, RunLoopEffect
<1>1. PoolType'
    BY <1>t, <1>u, <1>c, <1>e DEF PoolType
<1>2. ASSUME NEW k \in Children PROVE Kid(k)'
    BY <1>t, <1>u, <1>c, <1>e DEF Kid, Holders, ChildDid, OneByOne, QuitByOwner,
                                  DtorQuit, Published, Starting
<1> QED
    BY <1>u, <1>1, <1>2, <1>c, ChildKeepsEnd DEF PoolInv, Kid

\* The end of thread_func.
LEMMA LeaveKeeps == ASSUME PoolInv, NEW c \in Children, leave(c) PROVE PoolInv'
<1> DEFINE m == mutex_(c)
<1>t. PoolType /\ cur \in Children /\ \A k \in Children : Kid(k)
    BY DEF PoolInv, PoolType, Kid
<1>m. /\ m \in Locks /\ c \in Threads
      /\ \A k \in Children : mutex_(k) \in Locks /\ latch_(k) \in Locks /\ latch_(k) # m
      /\ \A k \in Children : mutex_(k) = m <=> k = c
      /\ \A k \in Children : k # Owner /\ k # NoOne /\ Owner # NoOne
    BY LocksDiffer, ThreadsDiffer
<1>h. /\ holder_ \in [Locks -> Threads \cup {NoOne}] /\ waiting \in [Locks -> SUBSET Threads]
      /\ cpc \in [Children -> ChildPlaces] /\ loop_ \in [Children -> BOOLEAN]
      /\ loop \in [Children -> LoopObject]
    BY <1>t DEF PoolType
<1>l. m = mutex_(c)
    OBVIOUS
<1> HIDE DEF m
<1>u. UNCHANGED <<user_quit, opc, cur, thread_, waiting>>
    BY DEF leave
<1>p. {"leave", "leave_unlock", "unwind", "finished"} \subseteq ChildPlaces
    BY DEF ChildPlaces
<1>1. CASE ChildGoes(c, "leave_lock", "leave") /\ lock(c, m) /\ UNCHANGED <<loop_, loop>>
  <2>c. /\ cpc' \in [Children -> ChildPlaces]
        /\ cpc[c] = "leave_lock" /\ cpc'[c] = "leave"
        /\ \A j \in Children : j # c => cpc'[j] = cpc[j]
    BY <1>1, <1>h, <1>p, ChildGoesEffect
  <2>e. /\ holder_' \in [Locks -> Threads \cup {NoOne}]
        /\ holder_[m] = NoOne /\ holder_'[m] = c
        /\ \A l \in Locks : l # m => holder_'[l] = holder_[l]
    BY <1>1, <1>m, <1>h, LockEffect
  <2>1. PoolType'
    BY <1>t, <1>1, <1>u, <2>c, <2>e DEF PoolType
  <2>2. ASSUME NEW k \in Children PROVE Kid(k)'
    BY <1>t, <1>m, <1>1, <1>u, <2>c, <2>e DEF Kid, Holders, ChildDid, OneByOne, QuitByOwner,
                                   DtorQuit, Published, Starting
  <2> QED
    BY <1>u, <2>1, <2>2, <2>c, ChildKeepsEnd DEF PoolInv, Kid
<1>2. CASE /\ ChildGoes(c, "leave", "leave_unlock") /\ loop_' = [loop_ EXCEPT ![c] = FALSE]
           /\ UNCHANGED <<holder_, loop>>
  <2>c. /\ cpc' \in [Children -> ChildPlaces]
        /\ cpc[c] = "leave" /\ cpc'[c] = "leave_unlock"
        /\ \A j \in Children : j # c => cpc'[j] = cpc[j]
    BY <1>2, <1>h, <1>p, ChildGoesEffect
  <2>e. /\ loop_' \in [Children -> BOOLEAN] /\ loop_'[c] = FALSE
        /\ \A j \in Children : j # c => loop_'[j] = loop_[j]
    BY <1>2, <1>h
  <2>1. PoolType'
    BY <1>t, <1>2, <1>u, <2>c, <2>e DEF PoolType
  <2>2. ASSUME NEW k \in Children PROVE Kid(k)'
    BY <1>t, <1>m, <1>2, <1>u, <2>c, <2>e DEF Kid, Holders, ChildDid, OneByOne, QuitByOwner,
                                   DtorQuit, Published, Starting
  <2> QED
    BY <1>u, <2>1, <2>2, <2>c, ChildKeepsEnd DEF PoolInv, Kid
<1>3. CASE ChildGoes(c, "leave_unlock", "unwind") /\ unlock(m) /\ UNCHANGED <<loop_, loop>>
  <2>c. /\ cpc' \in [Children -> ChildPlaces]
        /\ cpc[c] = "leave_unlock" /\ cpc'[c] = "unwind"
        /\ \A j \in Children : j # c => cpc'[j] = cpc[j]
    BY <1>3, <1>h, <1>p, ChildGoesEffect
  <2>e. /\ holder_' \in [Locks -> Threads \cup {NoOne}]
        /\ holder_'[m] = NoOne
        /\ \A l \in Locks : l # m => holder_'[l] = holder_[l]
    BY <1>3, <1>m, <1>h, UnlockEffect
  <2>1. PoolType'
    BY <1>t, <1>3, <1>u, <2>c, <2>e DEF PoolType
  <2>2. ASSUME NEW k \in Children PROVE Kid(k)'
    BY <1>t, <1>m, <1>3, <1>u, <2>c, <2>e DEF Kid, Holders, ChildDid, OneByOne, QuitByOwner,
                                   DtorQuit, Published, Starting
  <2> QED
    BY <1>u, <2>1, <2>2, <2>c, ChildKeepsEnd DEF PoolInv, Kid
<1>4. CASE /\ ChildGoes(c, "unwind", "finished") /\ loop' = [loop EXCEPT ![c].life = "dead"]
           /\ UNCHANGED <<loop_, holder_>>
  <2>c. /\ cpc' \in [Children -> ChildPlaces]
        /\ cpc[c] = "unwind" /\ cpc'[c] = "finished"
        /\ \A j \in Children : j # c => cpc'[j] = cpc[j]
    BY <1>4, <1>h, <1>p, ChildGoesEffect
  <2>e. /\ loop' \in [Children -> LoopObject] /\ loop'[c].life = "dead"
        /\ \A j \in Children :
            (loop'[j].quit_ <=> loop[j].quit_) /\ (j # c => loop'[j].life = loop[j].life)
    BY <1>4, <1>h, LifeEffect
  <2>1. PoolType'
    BY <1>t, <1>4, <1>u, <2>c, <2>e DEF PoolType
  <2>2. ASSUME NEW k \in Children PROVE Kid(k)'
    BY <1>t, <1>m, <1>4, <1>u, <2>c, <2>e DEF Kid, Holders, ChildDid, OneByOne, QuitByOwner,
                                   DtorQuit, Published, Starting
  <2> QED
    BY <1>u, <2>1, <2>2, <2>c, ChildKeepsEnd DEF PoolInv, Kid
<1> QED
    BY <1>1, <1>2, <1>3, <1>4, <1>l DEF leave

-----------------------------------------------------------------------------
\* Nothing has been started: the invariant holds at first.
LEMMA PoolInvInit == Init => PoolInv
<1> SUFFICES ASSUME Init PROVE PoolInv
    OBVIOUS
<1>n. /\ 1 \in Children /\ \A k \in Children : ~(k < 1)
      /\ \A k \in Children : mutex_(k) \in Locks /\ latch_(k) \in Locks
      /\ \A k \in Children : k # Owner /\ k # NoOne /\ Owner # NoOne
    BY Numbered, LocksDiffer, ThreadsDiffer
<1>1. PoolType
    BY <1>n DEF Init, MonitorInit, PoolType, OwnerPlaces, ChildPlaces, ThreadObject, LoopObject
<1>2. ASSUME NEW k \in Children PROVE Holders(k) /\ ChildDid(k) /\ OneByOne(k) /\ QuitByOwner(k)
    BY <1>n DEF Init, MonitorInit, Holders, ChildDid, OneByOne, QuitByOwner, DtorQuit, Published,
                Starting
<1> QED
    BY <1>1, <1>2 DEF PoolInv, ChildEndsFirst, Init

\* Every step of the owner and of the children keeps the invariant.
LEMMA PoolInvStep == PoolInv /\ [Next]_vars => PoolInv'
<1> SUFFICES ASSUME PoolInv, [Next]_vars PROVE PoolInv'
    OBVIOUS
<1>1. CASE OwnerStep
    BY <1>1, StartKeeps, LatchWaitKeeps, StartLoopKeeps, QuitKeeps, BeginDestructionKeeps,
       DtorReadsKeeps, DtorQuitsKeeps, JoinKeeps, DestroyMembersKeeps DEF OwnerStep
<1>2. CASE owner_spurious
    BY <1>2, SpuriousKeeps
<1>3. ASSUME NEW k \in Children, ChildStep(k) PROVE PoolInv'
    BY <1>3, RunInThreadKeeps, ConstructKeeps, PublishKeeps, RunLoopKeeps, LeaveKeeps
       DEF ChildStep
<1>4. CASE UNCHANGED vars
  <2>1. PoolType'
    BY <1>4 DEF PoolInv, PoolType, vars
  <2>2. ASSUME NEW k \in Children PROVE Kid(k)'
    BY <1>4 DEF PoolInv, Kid, Holders, ChildDid, OneByOne, QuitByOwner, DtorQuit, Published,
                Starting, vars
  <2>3. ChildEndsFirst'
    BY <1>4 DEF PoolInv, ChildEndsFirst, MutexFree, vars
  <2> QED
    BY <2>1, <2>2, <2>3 DEF PoolInv, Kid
<1> QED
    BY <1>1, <1>2, <1>3, <1>4 DEF Next

\* The inductive invariant holds in every reachable state, for every size of
\* the pool.
THEOREM PoolInvariant == Spec => []PoolInv
BY PoolInvInit, PoolInvStep, PTL DEF Spec

\* Thread::start, assert(tid_ > 0): whichever thread runs first, the owner
\* finds the tid of a thread that was created.
THEOREM StartedThreadsHaveTids == Spec => []StartedHasTid
<1>1. PoolInv => StartedHasTid
  <2> SUFFICES ASSUME PoolInv, opc = "start_done", thread_[cur].started_
               PROVE  thread_[cur].tid_ > 0
    BY DEF StartedHasTid
  <2>1. cur \in Children /\ ChildDid(cur) /\ OneByOne(cur)
    BY DEF PoolInv, PoolType
  <2>2. thread_[cur].count_ = 0
    BY <2>1 DEF OneByOne
  <2>3. thread_[cur].tid_ = cur
    BY <2>1, <2>2 DEF ChildDid
  <2> QED
    BY <2>1, <2>3, Numbered
<1> QED
    BY <1>1, PoolInvariant, PTL

\* start_loop returns the address of a loop that was constructed, for every
\* thread of the pool and whatever the spurious wakeups.
THEOREM StartReturnsConstructedLoops == Spec => []StartReturnsLoops
<1>1. PoolInv => StartReturnsLoops
  <2> SUFFICES ASSUME PoolInv, opc \in {"using", "user_wakeup"}, NEW k \in Children
               PROVE  loop[k].life # "none"
    BY DEF StartReturnsLoops
  <2>1. Published(k) /\ ChildDid(k)
    BY DEF PoolInv, OneByOne, Starting
  <2> QED
    BY <2>1 DEF Published, ChildDid
<1> QED
    BY <1>1, PoolInvariant, PTL

\* ~Event_Loop_Thread: a child whose loop nobody else quit has ended, and has
\* given up both mutexes, before the members it uses are destroyed.
THEOREM ChildrenEndFirst == Spec => []ChildEndsFirst
<1>1. PoolInv => ChildEndsFirst
    BY DEF PoolInv
<1> QED
    BY <1>1, PoolInvariant, PTL
=============================================================================
