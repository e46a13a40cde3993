--------------------------- MODULE TimerQueueProofs ---------------------------
(***************************************************************************)
(* Proofs about TimerQueue, for any heap, any delays and intervals and any *)
(* number of timers: the two indexes agree, every Timer has one owner, a   *)
(* cancelled timer stays cancelled, none is lost, and the timerfd is armed *)
(* in time.                                                                *)
(***************************************************************************)
EXTENDS TimerQueue, SequenceTheorems, TLAPS

USE TimerAssumption

Timer == [sequence_ : Nat, expiration_ : Nat, interval_ : Nat]
TimerIds == Addrs \X Nat
Entries == Nat \X Addrs
Functors == [op : {"add", "cancel"}, id : TimerIds]

TimerType ==
    /\ timer \in [Addrs -> Timer \cup {NoTimer}] /\ num_created_ \in Nat
    /\ timers_ \subseteq Entries /\ active_timers_ \subseteq TimerIds
    /\ canceling_timers_ \subseteq TimerIds /\ calling_expired_timers_ \in BOOLEAN
    /\ expired \subseteq Entries /\ todo \subseteq Entries /\ started \in Nat
    /\ clock \in Nat /\ steps \in Nat /\ alarm \in Nat /\ readable \in BOOLEAN
    /\ pending \in Seq(Functors) /\ adder \subseteq Addrs /\ ids \subseteq TimerIds
    /\ cancelled \subseteq TimerIds /\ ran \subseteq Nat /\ alive \in BOOLEAN

\* The batch of handle_read exists while its callbacks run; its timers are alive,
\* those whose callback returned have run, and those that cancel found are in
\* canceling_timers_.
BatchAgrees ==
    /\ calling_expired_timers_ => alive
    /\ ~calling_expired_timers_ => expired = {}
    /\ todo \subseteq expired
    /\ \A e \in expired :
        /\ e[2] \in Live
        /\ e \notin todo => timer[e[2]].sequence_ \in ran
        /\ Id(e[2]) \in cancelled => Id(e[2]) \in canceling_timers_

\* Sequence numbers are handed out once.
Numbering ==
    /\ \A p \in Live : timer[p].sequence_ < num_created_
    /\ \A id \in cancelled : id[2] < num_created_

IsAdd(i) == i \in DOMAIN pending /\ pending[i].op = "add"

\* A timer is queued once, and nobody could cancel it yet.
QueueAgrees ==
    /\ \A i, j \in DOMAIN pending : IsAdd(i) /\ IsAdd(j) /\ pending[i].id[1] = pending[j].id[1]
                                        => i = j
    /\ \A p \in QueuedAdds : Id(p) \notin cancelled

\* However often the clock is set back, neither it nor the timerfd reaches 0.
ClockAhead ==
    /\ steps <= MaxSteps /\ clock + steps > MaxSteps
    /\ alarm # 0 => alarm + steps > MaxSteps + 1

\* The inductive invariant.
TimerInv ==
    /\ TimerType /\ IndexesAgree /\ OneOwner /\ CancelSticks /\ NoneLost
    /\ AlarmCovers /\ BatchAgrees /\ Numbering /\ QueueAgrees /\ ClockAhead

InSet == {e[2] : e \in timers_}
InBatch == {e[2] : e \in expired}

-----------------------------------------------------------------------------
(* The heap.                                                               *)

\* A Timer that is alive has its fields.
LEMMA LiveTimer ==
    ASSUME TimerType, NEW p \in Live
    PROVE  /\ p \in Addrs /\ timer[p] \in Timer
           /\ timer[p].sequence_ \in Nat /\ timer[p].expiration_ \in Nat
           /\ timer[p].interval_ \in Nat
<1>1. p \in Addrs /\ timer[p] \in Timer
    BY DEF TimerType, Live
<1> QED
    BY <1>1 DEF Timer

\* The owners of OneOwner, as sets of addresses.
LEMMA OwnerForm ==
    OneOwner <=> (alive => /\ Live = InSet \cup InBatch \cup QueuedAdds
                           /\ InSet \cap InBatch = {} /\ InSet \cap QueuedAdds = {}
                           /\ InBatch \cap QueuedAdds = {})
BY DEF OneOwner, InSet, InBatch

\* The same after a step.
LEMMA OwnerFormNext ==
    OneOwner' <=> (alive' => /\ Live' = InSet' \cup InBatch' \cup QueuedAdds'
                             /\ InSet' \cap InBatch' = {} /\ InSet' \cap QueuedAdds' = {}
                             /\ InBatch' \cap QueuedAdds' = {})
BY DEF OneOwner, InSet, InBatch

\* An entry more in timers_ is an address more in the set.
LEMMA InsertEffect ==
    ASSUME NEW w, NEW p, timers_' = timers_ \cup {<<w, p>>}
    PROVE  InSet' = InSet \cup {p}
<1>1. <<w, p>>[2] = p
    OBVIOUS
<1>2. \A x : x \in InSet' <=> \E e \in timers_' : x = e[2]
    BY DEF InSet
<1>3. \A x : x \in InSet <=> \E e \in timers_ : x = e[2]
    BY DEF InSet
<1>4. ASSUME NEW x \in InSet' PROVE x \in InSet \cup {p}
    BY <1>1, <1>2, <1>3
<1>5. ASSUME NEW x \in InSet \cup {p} PROVE x \in InSet'
    BY <1>1, <1>2, <1>3
<1> QED
    BY <1>4, <1>5

\* new Timer: one more address is alive, and its Timer has the next number.
LEMMA ConstructEffect ==
    ASSUME TimerType, NEW p \in Addrs, NEW d \in Delays, NEW i \in Intervals, CanConstruct(p),
           timer' = Constructed(p, d, i)
    PROVE  /\ timer' \in [Addrs -> Timer \cup {NoTimer}]
           /\ p \notin Live /\ Live' = Live \cup {p}
           /\ timer'[p].sequence_ = num_created_ /\ timer'[p].expiration_ = clock + d
           /\ clock + d \in Nat
           /\ \A q \in Addrs : q # p => timer'[q] = timer[q]
<1> DEFINE new == [sequence_ |-> num_created_, expiration_ |-> clock + d, interval_ |-> i]
<1>1. new \in Timer /\ clock + d \in Nat
    BY DEF Timer, TimerType
<1>2. new # NoTimer
    BY <1>1 DEF Timer
<1>n. new.sequence_ = num_created_ /\ new.expiration_ = clock + d
    OBVIOUS
<1>3. timer' = [timer EXCEPT ![p] = new] /\ timer[p] = NoTimer
    BY DEF Constructed, CanConstruct
<1> HIDE DEF new
<1>4. timer'[p] = new /\ \A q \in Addrs : q # p => timer'[q] = timer[q]
    BY <1>3 DEF TimerType
<1>5. timer' \in [Addrs -> Timer \cup {NoTimer}]
    BY <1>1, <1>3 DEF TimerType
<1> QED
    BY <1>1, <1>2, <1>3, <1>n, <1>4, <1>5 DEF Live

\* delete: one address less is alive.
LEMMA DeleteEffect ==
    ASSUME TimerType, NEW p \in Addrs, timer' = Deleted(p)
    PROVE  /\ timer' \in [Addrs -> Timer \cup {NoTimer}]
           /\ Live' = Live \ {p}
           /\ \A q \in Addrs : q # p => timer'[q] = timer[q]
BY DEF TimerType, Deleted, Live

-----------------------------------------------------------------------------
(* The queue of functors.                                                  *)

\* queue_in_loop puts a functor behind the others.
LEMMA AppendFunctor ==
    ASSUME TimerType, NEW f \in Functors, pending' = Append(pending, f)
    PROVE  /\ pending' \in Seq(Functors)
           /\ Len(pending) \in Nat /\ DOMAIN pending = 1 .. Len(pending)
           /\ DOMAIN pending' = 1 .. Len(pending) + 1
           /\ \A i \in DOMAIN pending : pending'[i] = pending[i]
           /\ pending'[Len(pending) + 1] = f
BY DEF TimerType

\* The loop takes the first functor.
LEMMA TailFunctor ==
    ASSUME TimerType, pending # <<>>, pending' = Tail(pending)
    PROVE  /\ pending' \in Seq(Functors)
           /\ Len(pending) \in Nat \ {0} /\ DOMAIN pending = 1 .. Len(pending)
           /\ DOMAIN pending' = 1 .. Len(pending) - 1
           /\ \A i \in 1 .. Len(pending) - 1 : pending'[i] = pending[i + 1]
           /\ Head(pending) = pending[1] /\ Head(pending) \in Functors
BY EmptySeq, HeadTailProperties DEF TimerType

\* A queued cancel is no owner of a Timer.
LEMMA AppendCancel ==
    ASSUME TimerType, QueueAgrees, NEW id \in TimerIds,
           pending' = Append(pending, [op |-> "cancel", id |-> id])
    PROVE  /\ pending' \in Seq(Functors) /\ QueuedAdds' = QueuedAdds
           /\ \A i, j \in DOMAIN pending' :
                (IsAdd(i) /\ IsAdd(j))' /\ pending'[i].id[1] = pending'[j].id[1] => i = j
<1> DEFINE f == [op |-> "cancel", id |-> id]
<1>1. f \in Functors /\ f.op # "add"
    BY DEF Functors
<1>2. pending' = Append(pending, f)
    OBVIOUS
<1> HIDE DEF f
<1>3. /\ pending' \in Seq(Functors)
      /\ Len(pending) \in Nat /\ DOMAIN pending = 1 .. Len(pending)
      /\ DOMAIN pending' = 1 .. Len(pending) + 1
      /\ \A i \in DOMAIN pending : pending'[i] = pending[i]
      /\ pending'[Len(pending) + 1] = f
    BY <1>1, <1>2, AppendFunctor
<1>4. \A i : IsAdd(i)' <=> IsAdd(i)
    BY <1>1, <1>3 DEF IsAdd
<1>5. \A i : IsAdd(i) => pending'[i] = pending[i]
    BY <1>3 DEF IsAdd
<1>6. QueuedAdds = {pending[i].id[1] : i \in {j \in DOMAIN pending : IsAdd(j)}}
    BY DEF QueuedAdds, IsAdd
<1>7. QueuedAdds' = {pending'[i].id[1] : i \in {j \in DOMAIN pending' : IsAdd(j)'}}
    BY DEF QueuedAdds, IsAdd
<1>8. QueuedAdds' = QueuedAdds
    BY <1>4, <1>5, <1>6, <1>7 DEF IsAdd
<1> QED
    BY <1>3, <1>4, <1>5, <1>8 DEF QueueAgrees, IsAdd

\* A queued add owns its Timer, and no other queued add does.
LEMMA AppendAdd ==
    ASSUME TimerType, QueueAgrees, NEW p \in Addrs, p \notin QueuedAdds,
           pending' = Append(pending, [op |-> "add", id |-> <<p, num_created_>>])
    PROVE  /\ pending' \in Seq(Functors) /\ QueuedAdds' = QueuedAdds \cup {p}
           /\ \A i, j \in DOMAIN pending' :
                (IsAdd(i) /\ IsAdd(j))' /\ pending'[i].id[1] = pending'[j].id[1] => i = j
<1> DEFINE f == [op |-> "add", id |-> <<p, num_created_>>]
<1>1. f \in Functors /\ f.op = "add" /\ f.id[1] = p
    BY DEF Functors, TimerIds, TimerType
<1>2. pending' = Append(pending, f)
    OBVIOUS
<1> HIDE DEF f
<1> DEFINE n == Len(pending) + 1
<1>3. /\ pending' \in Seq(Functors)
      /\ Len(pending) \in Nat /\ DOMAIN pending = 1 .. Len(pending)
      /\ DOMAIN pending' = 1 .. n
      /\ \A i \in DOMAIN pending : pending'[i] = pending[i]
      /\ pending'[n] = f
    BY <1>1, <1>2, AppendFunctor
<1>n. n \notin DOMAIN pending /\ n \in DOMAIN pending'
      /\ \A i \in DOMAIN pending' : i \in DOMAIN pending \/ i = n
    BY <1>3
<1> HIDE DEF n
<1>4. \A i : IsAdd(i)' <=> IsAdd(i) \/ i = n
    BY <1>1, <1>3, <1>n DEF IsAdd
<1>5. \A i : IsAdd(i) => pending'[i] = pending[i] /\ i # n
    BY <1>3, <1>n DEF IsAdd
<1>6. QueuedAdds = {pending[i].id[1] : i \in {j \in DOMAIN pending : IsAdd(j)}}
    BY DEF QueuedAdds, IsAdd
<1>7. QueuedAdds' = {pending'[i].id[1] : i \in {j \in DOMAIN pending' : IsAdd(j)'}}
    BY DEF QueuedAdds, IsAdd
<1>8. \A i : IsAdd(i) => pending[i].id[1] \in QueuedAdds
    BY <1>6 DEF IsAdd
<1>a. ASSUME NEW x \in QueuedAdds' PROVE x \in QueuedAdds \cup {p}
  <2>1. PICK i \in DOMAIN pending' : IsAdd(i)' /\ x = pending'[i].id[1]
    BY <1>7
  <2>2. CASE i = n
    BY <2>1, <2>2, <1>1, <1>3
  <2>3. CASE IsAdd(i)
    BY <2>1, <2>3, <1>5, <1>8
  <2> QED
    BY <2>1, <2>2, <2>3, <1>4
<1>b. ASSUME NEW x \in QueuedAdds \cup {p} PROVE x \in QueuedAdds'
  <2>1. CASE x = p
    BY <2>1, <1>1, <1>3, <1>n, <1>4, <1>7
  <2>2. CASE x \in QueuedAdds
    <3>1. PICK i \in DOMAIN pending : IsAdd(i) /\ x = pending[i].id[1]
        BY <2>2, <1>6
    <3> QED
        BY <3>1, <1>4, <1>5, <1>7 DEF IsAdd
  <2> QED
    BY <2>1, <2>2
<1>9. \A i, j \in DOMAIN pending' :
        (IsAdd(i) /\ IsAdd(j))' /\ pending'[i].id[1] = pending'[j].id[1] => i = j
  <2> SUFFICES ASSUME NEW i \in DOMAIN pending', NEW j \in DOMAIN pending',
                      IsAdd(i)', IsAdd(j)', pending'[i].id[1] = pending'[j].id[1]
               PROVE  i = j
    OBVIOUS
  <2>1. CASE IsAdd(i) /\ IsAdd(j)
    BY <2>1, <1>5 DEF QueueAgrees, IsAdd
  <2>2. CASE i = n /\ j = n
    BY <2>2
  <2>3. CASE IsAdd(i) /\ j = n
    BY <2>3, <1>1, <1>3, <1>5, <1>8
  <2>4. CASE IsAdd(j) /\ i = n
    BY <2>4, <1>1, <1>3, <1>5, <1>8
  <2> QED
    BY <1>4, <2>1, <2>2, <2>3, <2>4
<1> QED
    BY <1>3, <1>a, <1>b, <1>9

\* The loop takes a queued functor: if it was an add, that Timer is no longer
\* the queue's.
LEMMA TakeFunctor ==
    ASSUME TimerType, QueueAgrees, pending # <<>>, pending' = Tail(pending)
    PROVE  /\ pending' \in Seq(Functors) /\ Head(pending).id \in TimerIds
           /\ Head(pending).op = "cancel" => QueuedAdds' = QueuedAdds
           /\ Head(pending).op = "add" =>
                /\ Head(pending).id[1] \in QueuedAdds
                /\ QueuedAdds' = QueuedAdds \ {Head(pending).id[1]}
           /\ \A i, j \in DOMAIN pending' :
                (IsAdd(i) /\ IsAdd(j))' /\ pending'[i].id[1] = pending'[j].id[1] => i = j
<1> DEFINE f == Head(pending)
<1>1. /\ pending' \in Seq(Functors)
      /\ Len(pending) \in Nat \ {0} /\ DOMAIN pending = 1 .. Len(pending)
      /\ DOMAIN pending' = 1 .. Len(pending) - 1
      /\ \A i \in 1 .. Len(pending) - 1 : pending'[i] = pending[i + 1]
      /\ f = pending[1] /\ f \in Functors
    BY TailFunctor
<1>2. f.op \in {"add", "cancel"} /\ f.id \in TimerIds
    BY <1>1 DEF Functors
<1> HIDE DEF f
<1>3. \A i \in DOMAIN pending' : i + 1 \in DOMAIN pending /\ pending'[i] = pending[i + 1]
                                  /\ i + 1 # 1
    BY <1>1
<1>4. \A i \in DOMAIN pending : i = 1 \/ (i - 1 \in DOMAIN pending' /\ pending'[i - 1] = pending[i])
  <2> SUFFICES ASSUME NEW i \in DOMAIN pending, i # 1
               PROVE  i - 1 \in DOMAIN pending' /\ pending'[i - 1] = pending[i]
    OBVIOUS
  <2>1. i - 1 \in 1 .. Len(pending) - 1 /\ (i - 1) + 1 = i
    BY <1>1
  <2> QED
    BY <2>1, <1>1
<1>d. 1 \in DOMAIN pending /\ \A i, j \in DOMAIN pending' : i + 1 = j + 1 => i = j
    BY <1>1
<1>6. QueuedAdds = {pending[i].id[1] : i \in {j \in DOMAIN pending : IsAdd(j)}}
    BY DEF QueuedAdds, IsAdd
<1>7. QueuedAdds' = {pending'[i].id[1] : i \in {j \in DOMAIN pending' : IsAdd(j)'}}
    BY DEF QueuedAdds, IsAdd
<1>a. ASSUME NEW x \in QueuedAdds'
      PROVE  x \in QueuedAdds /\ (f.op = "add" => x # f.id[1])
  <2>1. PICK i \in DOMAIN pending' : IsAdd(i)' /\ x = pending'[i].id[1]
    BY <1>7
  <2>2. i + 1 \in DOMAIN pending /\ IsAdd(i + 1) /\ x = pending[i + 1].id[1] /\ i + 1 # 1
    BY <2>1, <1>3 DEF IsAdd
  <2>3. x \in QueuedAdds
    BY <2>2, <1>6
  <2>4. ASSUME f.op = "add", x = f.id[1] PROVE FALSE
    <3>1. IsAdd(1) /\ pending[1].id[1] = pending[i + 1].id[1]
        BY <2>2, <2>4, <1>1, <1>d DEF IsAdd
    <3> QED
        BY <3>1, <2>2, <1>d DEF QueueAgrees
  <2> QED
    BY <2>3, <2>4
<1>b. ASSUME NEW x \in QueuedAdds, f.op = "add" => x # f.id[1]
      PROVE  x \in QueuedAdds'
  <2>1. PICK i \in DOMAIN pending : IsAdd(i) /\ x = pending[i].id[1]
    BY <1>6
  <2>2. i # 1
    BY <2>1, <1>1, <1>b DEF IsAdd
  <2>3. i - 1 \in DOMAIN pending' /\ IsAdd(i - 1)' /\ x = pending'[i - 1].id[1]
    BY <2>1, <2>2, <1>4 DEF IsAdd
  <2> QED
    BY <2>3, <1>7
<1>8. f.op = "add" => f.id[1] \in QueuedAdds
    BY <1>1, <1>d, <1>6 DEF IsAdd
<1>9. \A i, j \in DOMAIN pending' :
        (IsAdd(i) /\ IsAdd(j))' /\ pending'[i].id[1] = pending'[j].id[1] => i = j
  <2> SUFFICES ASSUME NEW i \in DOMAIN pending', NEW j \in DOMAIN pending',
                      IsAdd(i)', IsAdd(j)', pending'[i].id[1] = pending'[j].id[1]
               PROVE  i = j
    OBVIOUS
  <2>1. /\ i + 1 \in DOMAIN pending /\ j + 1 \in DOMAIN pending
        /\ IsAdd(i + 1) /\ IsAdd(j + 1) /\ pending[i + 1].id[1] = pending[j + 1].id[1]
    BY <1>3 DEF IsAdd
  <2>2. i + 1 = j + 1
    BY <2>1 DEF QueueAgrees
  <2> QED
    BY <2>2, <1>d
<1>10. f.op = "cancel" => QueuedAdds' = QueuedAdds
    BY <1>a, <1>b
<1>11. f.op = "add" => QueuedAdds' = QueuedAdds \ {f.id[1]}
    BY <1>a, <1>b
<1> QED
    BY <1>1, <1>2, <1>8, <1>9, <1>10, <1>11 DEF f

-----------------------------------------------------------------------------
(* The timerfd.                                                            *)

\* A later time never has an earlier deadline.
LEMMA DeadlineMonotone ==
    ASSUME NEW v \in Nat, NEW w \in Nat, v <= w, clock \in Nat
    PROVE  /\ Deadline(v) \in Nat /\ Deadline(w) \in Nat
           /\ Deadline(v) > clock /\ Deadline(v) <= Deadline(w)
BY DEF Deadline

\* insert: arming the timerfd for a new earliest timer only is enough.
LEMMA InsertCovers ==
    ASSUME TimerType, AlarmCovers, ClockAhead, NEW w \in Nat, NEW p \in Addrs,
           timers_' = timers_ \cup {<<w, p>>},
           IF Earliest(w) THEN reset_timerfd(w) ELSE UNCHANGED fdVars,
           UNCHANGED <<clock, steps, calling_expired_timers_, alive>>
    PROVE  /\ AlarmCovers' /\ ClockAhead' /\ alarm' \in Nat /\ readable' \in BOOLEAN
<1>t. /\ clock \in Nat /\ steps \in Nat /\ alarm \in Nat /\ readable \in BOOLEAN
      /\ \A e \in timers_ : e[1] \in Nat
    BY DEF TimerType, Entries
<1>d. \A v \in Nat : Deadline(v)' = Deadline(v)
    BY DEF Deadline
<1>1. CASE Earliest(w)
  <2>1. alarm' = Deadline(w) /\ readable' = FALSE
    BY <1>1 DEF reset_timerfd
  <2>2. \A e \in timers_' : e[1] \in Nat /\ w <= e[1]
    BY <1>1, <1>t DEF Earliest
  <2>3. \A e \in timers_' : alarm' > 0 /\ alarm' <= Deadline(e[1])' + steps'
    <3> SUFFICES ASSUME NEW e \in timers_' PROVE alarm' > 0 /\ alarm' <= Deadline(e[1])' + steps'
        OBVIOUS
    <3>1. /\ Deadline(w) \in Nat /\ Deadline(e[1]) \in Nat
          /\ Deadline(w) > clock /\ Deadline(w) <= Deadline(e[1])
        BY <2>2, <1>t, DeadlineMonotone
    <3> QED
        BY <3>1, <2>1, <2>2, <1>d, <1>t
  <2>4. Deadline(w) \in Nat /\ Deadline(w) > clock
    BY <1>t, DeadlineMonotone
  <2>5. AlarmCovers'
    BY <2>3 DEF AlarmCovers
  <2>6. ClockAhead'
    BY <2>1, <2>4, <1>t DEF ClockAhead
  <2> QED
    BY <2>1, <2>4, <2>5, <2>6
<1>2. CASE ~Earliest(w)
  <2>1. alarm' = alarm /\ readable' = readable
    BY <1>2 DEF fdVars
  <2>2. PICK e \in timers_ : e[1] \in Nat /\ e[1] <= w
    BY <1>2, <1>t DEF Earliest
  <2>3. Deadline(e[1]) \in Nat /\ Deadline(w) \in Nat /\ Deadline(e[1]) <= Deadline(w)
    BY <2>2, <1>t, DeadlineMonotone
  <2>4. ASSUME alive, ~calling_expired_timers_, NEW f \in timers_'
        PROVE  readable \/ (alarm > 0 /\ alarm <= Deadline(f[1])' + steps)
    <3>1. CASE f \in timers_
        BY <3>1, <2>4, <1>t, <1>d DEF AlarmCovers
    <3>2. CASE f = <<w, p>>
      <4>1. f[1] = w
        BY <3>2
      <4> QED
        BY <4>1, <2>2, <2>3, <2>4, <1>t, <1>d DEF AlarmCovers
    <3> QED
        BY <3>1, <3>2
  <2> QED
    BY <2>1, <2>4, <1>t DEF AlarmCovers, ClockAhead
<1> QED
    BY <1>1, <1>2

\* Without new entries and with the timerfd as it is, nothing is uncovered.
LEMMA FewerCovers ==
    ASSUME AlarmCovers, ClockAhead, timers_' \subseteq timers_,
           alive' => alive, calling_expired_timers_' = calling_expired_timers_,
           UNCHANGED <<clock, steps, alarm, readable>>
    PROVE  AlarmCovers' /\ ClockAhead'
BY DEF AlarmCovers, ClockAhead, Deadline

-----------------------------------------------------------------------------
(* Every step keeps the invariant.                                         *)

\* What depends on the clock, the timerfd and the users' Timer_IDs only.
LEMMA Frame ==
    ASSUME TimerInv,
           UNCHANGED <<timer, num_created_, timers_, active_timers_, canceling_timers_,
                       calling_expired_timers_, expired, todo, pending, cancelled, ran, alive>>
    PROVE  /\ IndexesAgree' /\ OneOwner' /\ CancelSticks' /\ NoneLost' /\ BatchAgrees'
           /\ Numbering' /\ QueueAgrees'
<1>1. /\ Live' = Live /\ InSet' = InSet /\ InBatch' = InBatch /\ QueuedAdds' = QueuedAdds
      /\ (\A q : Id(q)' = Id(q)) /\ (\A i : IsAdd(i)' <=> IsAdd(i))
    BY DEF Live, InSet, InBatch, QueuedAdds, Id, IsAdd
<1>2. IndexesAgree'
    BY <1>1 DEF TimerInv, IndexesAgree
<1>3. OneOwner'
    BY <1>1, OwnerForm, OwnerFormNext DEF TimerInv
<1>4. CancelSticks' /\ NoneLost'
    BY <1>1 DEF TimerInv, CancelSticks, NoneLost
<1>5. BatchAgrees'
    BY <1>1 DEF TimerInv, BatchAgrees
<1>6. Numbering' /\ QueueAgrees'
    BY <1>1 DEF TimerInv, Numbering, QueueAgrees
<1> QED
    BY <1>2, <1>3, <1>4, <1>5, <1>6

\* add_timer on the loop's thread.
LEMMA AddHereKeeps ==
    ASSUME TimerInv, NEW p \in Addrs, NEW d \in Delays, NEW i \in Intervals,
           add_timer_here(p, d, i)
    PROVE  TimerInv'
<1> DEFINE w == clock + d
<1>t. TimerType
    BY DEF TimerInv
<1>u. /\ UNCHANGED <<batchVars, clockVars, pending, adder, cancelled, ran, alive>>
      /\ alive /\ num_created_' = num_created_ + 1
      /\ ids' = ids \cup {<<p, num_created_>>}
    BY DEF add_timer_here
<1>v. /\ UNCHANGED <<canceling_timers_, calling_expired_timers_, expired, todo, started>>
      /\ UNCHANGED <<clock, steps>>
    BY <1>u DEF batchVars, clockVars
<1>c. /\ timer' \in [Addrs -> Timer \cup {NoTimer}]
      /\ p \notin Live /\ Live' = Live \cup {p}
      /\ timer'[p].sequence_ = num_created_ /\ timer'[p].expiration_ = w
      /\ w \in Nat
      /\ \A q \in Addrs : q # p => timer'[q] = timer[q]
    BY <1>t, ConstructEffect DEF add_timer_here
<1>a. /\ timers_' = timers_ \cup {<<w, p>>}
      /\ active_timers_' = active_timers_ \cup {<<p, num_created_>>}
      /\ IF Earliest(w) THEN reset_timerfd(w) ELSE UNCHANGED fdVars
    BY <1>c DEF add_timer_here, add_timer_in_loop, insert
<1> HIDE DEF w
<1>l. /\ \A q \in Live : q \in Addrs /\ q # p /\ timer'[q] = timer[q]
      /\ \A q \in Live : Id(q)' = Id(q)
      /\ Id(p)' = <<p, num_created_>> /\ num_created_ \in Nat
    BY <1>c, <1>t DEF Live, Id, TimerType
<1>f. AlarmCovers' /\ ClockAhead' /\ alarm' \in Nat /\ readable' \in BOOLEAN
    BY <1>t, <1>u, <1>v, <1>c, <1>a, InsertCovers DEF TimerInv
<1>1. TimerType'
    BY <1>t, <1>u, <1>v, <1>c, <1>a, <1>f DEF TimerType, Entries, TimerIds
<1>2. IndexesAgree'
  <2>0. IndexesAgree
    BY DEF TimerInv
  <2>1. ASSUME NEW e \in timers_'
        PROVE  /\ e[2] \in Live' /\ e[1] = timer'[e[2]].expiration_
               /\ Id(e[2])' \in active_timers_'
    <3>1. CASE e \in timers_
        BY <3>1, <2>0, <1>c, <1>a, <1>l DEF IndexesAgree
    <3>2. CASE e = <<w, p>>
        BY <3>2, <1>c, <1>a, <1>l
    <3> QED
        BY <3>1, <3>2, <1>a
  <2>2. ASSUME NEW a \in active_timers_'
        PROVE  /\ a[1] \in Live' /\ a = Id(a[1])'
               /\ <<timer'[a[1]].expiration_, a[1]>> \in timers_'
    <3>1. CASE a \in active_timers_
        BY <3>1, <2>0, <1>c, <1>a, <1>l DEF IndexesAgree
    <3>2. CASE a = <<p, num_created_>>
        BY <3>2, <1>c, <1>a, <1>l
    <3> QED
        BY <3>1, <3>2, <1>a
  <2> QED
    BY <2>1, <2>2 DEF IndexesAgree
<1>3. OneOwner'
  <2>1. InSet' = InSet \cup {p}
    BY <1>a, InsertEffect
  <2>2. InBatch' = InBatch /\ QueuedAdds' = QueuedAdds
    BY <1>u, <1>v DEF InBatch, QueuedAdds
  <2>3. OneOwner
    BY DEF TimerInv
  <2> QED
    BY <2>1, <2>2, <2>3, <1>u, <1>c, OwnerForm, OwnerFormNext DEF TimerInv
<1>4. CancelSticks'
    BY <1>u, <1>a, <1>l DEF TimerInv, CancelSticks, Numbering
<1>5. NoneLost'
  <2> SUFFICES ASSUME NEW s \in 0 .. num_created_' - 1
               PROVE  \/ \E q \in Live' : timer'[q].sequence_ = s
                      \/ s \in ran' \cup {id[2] : id \in cancelled'}
    BY DEF NoneLost
  <2>1. CASE s = num_created_
    BY <2>1, <1>c
  <2>2. CASE s \in 0 .. num_created_ - 1
    BY <2>2, <1>u, <1>c, <1>l DEF TimerInv, NoneLost
  <2> QED
    BY <2>1, <2>2, <1>u, <1>l
<1>6. BatchAgrees'
    BY <1>u, <1>v, <1>c, <1>l DEF TimerInv, BatchAgrees
<1>7. Numbering'
  <2>1. ASSUME NEW q \in Live' PROVE timer'[q].sequence_ < num_created_'
    <3>1. CASE q = p
        BY <3>1, <1>u, <1>c, <1>l
    <3>2. CASE q \in Live
        BY <3>2, <1>u, <1>t, <1>l, LiveTimer DEF TimerInv, Numbering
    <3> QED
        BY <3>1, <3>2, <1>c
  <2>2. ASSUME NEW id \in cancelled PROVE id[2] < num_created_'
    BY <1>u, <1>t, <1>l DEF TimerInv, Numbering, TimerType, TimerIds
  <2> QED
    BY <2>1, <2>2, <1>u DEF Numbering
<1>8. QueueAgrees'
  <2>1. QueuedAdds \subseteq Live
    BY <1>u, OwnerForm DEF TimerInv
  <2>2. QueuedAdds' = QueuedAdds
    BY <1>u DEF QueuedAdds
  <2> QED
    BY <2>1, <2>2, <1>u, <1>l DEF TimerInv, QueueAgrees, IsAdd
<1> QED
    BY <1>f, <1>1, <1>2, <1>3, <1>4, <1>5, <1>6, <1>7, <1>8 DEF TimerInv

\* add_timer on another thread, the first half: the Timer is the queue's.
LEMMA AddOtherKeeps ==
    ASSUME TimerInv, NEW p \in Addrs, NEW d \in Delays, NEW i \in Intervals,
           add_timer(p, d, i)
    PROVE  TimerInv'
<1>t. TimerType /\ OneOwner /\ QueueAgrees
    BY DEF TimerInv
<1>u. /\ UNCHANGED <<timers_, active_timers_, canceling_timers_, calling_expired_timers_,
                     expired, todo, started, clock, steps, alarm, readable, ids, cancelled,
                     ran, alive>>
      /\ alive /\ num_created_' = num_created_ + 1 /\ adder' = {p}
    BY DEF add_timer, setVars, batchVars, clockVars, fdVars
<1>c. /\ timer' \in [Addrs -> Timer \cup {NoTimer}]
      /\ p \notin Live /\ Live' = Live \cup {p}
      /\ timer'[p].sequence_ = num_created_
      /\ \A q \in Addrs : q # p => timer'[q] = timer[q]
    BY <1>t, ConstructEffect DEF add_timer
<1>o. /\ Live = InSet \cup InBatch \cup QueuedAdds
      /\ InSet \cap InBatch = {} /\ InSet \cap QueuedAdds = {}
      /\ InBatch \cap QueuedAdds = {}
    BY <1>t, <1>u, OwnerForm
<1>q. /\ pending' \in Seq(Functors) /\ QueuedAdds' = QueuedAdds \cup {p}
      /\ \A k, j \in DOMAIN pending' :
            (IsAdd(k) /\ IsAdd(j))' /\ pending'[k].id[1] = pending'[j].id[1] => k = j
    BY <1>t, <1>c, <1>o, AppendAdd DEF add_timer
<1>l. /\ \A q \in Live : q \in Addrs /\ q # p /\ timer'[q] = timer[q]
      /\ \A q \in Live : Id(q)' = Id(q)
      /\ Id(p)' = <<p, num_created_>> /\ num_created_ \in Nat
    BY <1>c, <1>t DEF Live, Id, TimerType
<1>f. AlarmCovers' /\ ClockAhead'
    BY <1>u, FewerCovers DEF TimerInv
<1>1. TimerType'
    BY <1>t, <1>u, <1>c, <1>q DEF TimerType
<1>2. IndexesAgree'
    BY <1>u, <1>c, <1>l DEF TimerInv, IndexesAgree
<1>3. OneOwner'
  <2>1. InSet' = InSet /\ InBatch' = InBatch
    BY <1>u DEF InSet, InBatch
  <2> QED
    BY <2>1, <1>o, <1>q, <1>c, OwnerFormNext
<1>4. CancelSticks'
    BY <1>u DEF TimerInv, CancelSticks
<1>5. NoneLost'
  <2> SUFFICES ASSUME NEW s \in 0 .. num_created_' - 1
               PROVE  \/ \E q \in Live' : timer'[q].sequence_ = s
                      \/ s \in ran' \cup {id[2] : id \in cancelled'}
    BY DEF NoneLost
  <2>1. CASE s = num_created_
    BY <2>1, <1>c
  <2>2. CASE s \in 0 .. num_created_ - 1
    BY <2>2, <1>u, <1>c, <1>l DEF TimerInv, NoneLost
  <2> QED
    BY <2>1, <2>2, <1>u, <1>l
<1>6. BatchAgrees'
    BY <1>u, <1>c, <1>l DEF TimerInv, BatchAgrees
<1>7. Numbering'
  <2>1. ASSUME NEW q \in Live' PROVE timer'[q].sequence_ < num_created_'
    <3>1. CASE q = p
        BY <3>1, <1>u, <1>c, <1>l
    <3>2. CASE q \in Live
        BY <3>2, <1>u, <1>t, <1>l, LiveTimer DEF TimerInv, Numbering
    <3> QED
        BY <3>1, <3>2, <1>c
  <2>2. ASSUME NEW id \in cancelled PROVE id[2] < num_created_'
    BY <1>u, <1>t, <1>l DEF TimerInv, Numbering, TimerType, TimerIds
  <2> QED
    BY <2>1, <2>2, <1>u DEF Numbering
<1>8. QueueAgrees'
  <2>1. ASSUME NEW q \in QueuedAdds' PROVE Id(q)' \notin cancelled'
    <3>1. CASE q = p
        BY <3>1, <1>u, <1>l DEF TimerInv, Numbering
    <3>2. CASE q \in QueuedAdds
        BY <3>2, <1>t, <1>o, <1>u, <1>l DEF QueueAgrees
    <3> QED
        BY <3>1, <3>2, <1>q
  <2> QED
    BY <2>1, <1>q DEF QueueAgrees
<1> QED
    BY <1>f, <1>1, <1>2, <1>3, <1>4, <1>5, <1>6, <1>7, <1>8 DEF TimerInv

\* add_timer on another thread, the second half: whatever it reads for the
\* sequence number is a number.
LEMMA AddReturnsKeeps == ASSUME TimerInv, add_timer_returns PROVE TimerInv'
<1>t. TimerType
    BY DEF TimerInv
<1>u. /\ UNCHANGED <<timer, num_created_, timers_, active_timers_, canceling_timers_,
                     calling_expired_timers_, expired, todo, started, clock, steps, alarm,
                     readable, pending, cancelled, ran, alive>>
      /\ adder' = {}
    BY DEF add_timer_returns, heapVars, setVars, batchVars, clockVars, fdVars
<1>1. ids' \subseteq TimerIds
  <2>1. PICK p \in adder :
            \E seq \in (IF timer[p] = NoTimer THEN 0 .. MaxTimers - 1 ELSE {timer[p].sequence_}) :
                ids' = ids \cup {<<p, seq>>}
    BY DEF add_timer_returns
  <2>2. p \in Addrs
    BY <1>t DEF TimerType
  <2>3. CASE timer[p] = NoTimer
    BY <2>1, <2>2, <2>3, <1>t DEF TimerType, TimerIds
  <2>4. CASE timer[p] # NoTimer
    <3>1. p \in Live
        BY <2>2, <2>4 DEF Live
    <3>2. timer[p].sequence_ \in Nat
        BY <3>1, <1>t, LiveTimer
    <3> QED
        BY <2>1, <2>2, <2>4, <3>2, <1>t DEF TimerType, TimerIds
  <2> QED
    BY <2>3, <2>4
<1>2. TimerType'
    BY <1>t, <1>u, <1>1 DEF TimerType
<1>3. /\ IndexesAgree' /\ OneOwner' /\ CancelSticks' /\ NoneLost' /\ BatchAgrees'
      /\ Numbering' /\ QueueAgrees'
    BY <1>u, Frame
<1>4. AlarmCovers' /\ ClockAhead'
    BY <1>u, FewerCovers DEF TimerInv
<1> QED
    BY <1>2, <1>3, <1>4 DEF TimerInv

\* cancel_in_loop, called directly or by a functor: a timer in the set is
\* deleted with its entries, one in the running batch is remembered.
LEMMA CancelInLoopKeeps ==
    ASSUME TimerInv, alive, NEW id \in TimerIds, cancel_in_loop(id),
           UNCHANGED <<num_created_, calling_expired_timers_, expired, todo, started, clock,
                       steps, alarm, readable, adder, ran, alive>>,
           ids' \subseteq TimerIds, pending' \in Seq(Functors), QueuedAdds' = QueuedAdds,
           \A i, j \in DOMAIN pending' :
                (IsAdd(i) /\ IsAdd(j))' /\ pending'[i].id[1] = pending'[j].id[1] => i = j
    PROVE  TimerInv'
<1> DEFINE p == id[1]
<1>t. TimerType /\ IndexesAgree /\ QueueAgrees /\ p \in Addrs
    BY DEF TimerInv, TimerIds
<1>o. /\ Live = InSet \cup InBatch \cup QueuedAdds
      /\ InSet \cap InBatch = {} /\ InSet \cap QueuedAdds = {}
      /\ InBatch \cap QueuedAdds = {}
    BY OwnerForm DEF TimerInv
<1>c. cancelled' = cancelled \cup ((active_timers_ \cup Batch) \cap {id})
    BY DEF cancel_in_loop
<1>b. \A x \in Batch : \E e \in expired : x = Id(e[2]) /\ e[2] \in InBatch /\ e[2] \in Live
    BY DEF Batch, InBatch, TimerInv, BatchAgrees
<1>n. Numbering'
  <2>1. ASSUME NEW q \in Live' PROVE q \in Live /\ timer'[q] = timer[q]
    <3>1. CASE timer' = timer
        BY <3>1 DEF Live
    <3>2. CASE timer' = Deleted(p)
        BY <3>2, <1>t, DeleteEffect DEF Live
    <3> QED
        BY <3>1, <3>2 DEF cancel_in_loop
  <2>2. ASSUME NEW x \in cancelled' PROVE x[2] < num_created_
    <3>1. CASE x \in cancelled
        BY <3>1 DEF TimerInv, Numbering
    <3>2. CASE x \in active_timers_
      <4>1. x[1] \in Live /\ x = Id(x[1])
        BY <3>2, <1>t DEF IndexesAgree
      <4>2. x[2] = timer[x[1]].sequence_
        BY <4>1 DEF Id
      <4> QED
        BY <4>1, <4>2 DEF TimerInv, Numbering
    <3>3. CASE x \in Batch
        BY <3>3, <1>b DEF TimerInv, Numbering, Id
    <3> QED
        BY <3>1, <3>2, <3>3, <1>c
  <2> QED
    BY <2>1, <2>2 DEF TimerInv, Numbering
<1>q. ASSUME NEW q \in QueuedAdds, timer'[q] = timer[q] PROVE Id(q)' \notin cancelled'
  <2>1. Id(q)' = Id(q) /\ Id(q)[1] = q
    BY <1>q DEF Id
  <2>2. Id(q) \notin cancelled
    BY <1>t DEF QueueAgrees
  <2>3. Id(q) \notin active_timers_
    <3> SUFFICES ASSUME Id(q) \in active_timers_ PROVE FALSE
        OBVIOUS
    <3>1. \E e \in timers_ : e[2] = q
        BY <1>t, <2>1 DEF IndexesAgree
    <3> QED
        BY <3>1, <1>o DEF InSet
  <2>4. Id(q) \notin Batch
    BY <2>1, <1>b, <1>o DEF Id
  <2> QED
    BY <2>1, <2>2, <2>3, <2>4, <1>c
<1>1. CASE id \in active_timers_
  <2> DEFINE en == <<timer[p].expiration_, p>>
  <2>a. /\ timers_' = timers_ \ {en} /\ active_timers_' = active_timers_ \ {id}
        /\ timer' = Deleted(p) /\ UNCHANGED canceling_timers_
    BY <1>1 DEF cancel_in_loop
  <2>b. p \in Live /\ id = Id(p) /\ en \in timers_ /\ en[2] = p
    BY <1>1, <1>t DEF IndexesAgree
  <2>e. \A e \in timers_ : e[2] = p => e = en
    BY <1>t DEF IndexesAgree, TimerType, Entries
  <2>c. /\ timer' \in [Addrs -> Timer \cup {NoTimer}]
        /\ Live' = Live \ {p}
        /\ \A q \in Addrs : q # p => timer'[q] = timer[q]
    BY <2>a, <1>t, DeleteEffect
  <2>l. /\ \A q \in Live' : q \in Live /\ q # p /\ q \in Addrs /\ timer'[q] = timer[q]
        /\ \A q \in Live' : Id(q)' = Id(q)
        /\ \A q \in Live : q # p => q \in Live'
    BY <2>c DEF Live, Id
  <2>s. InSet' = InSet \ {p} /\ p \in InSet /\ InBatch' = InBatch
    <3>1. \A x : x \in InSet' <=> \E e \in timers_' : x = e[2]
        BY DEF InSet
    <3>2. \A x : x \in InSet <=> \E e \in timers_ : x = e[2]
        BY DEF InSet
    <3>3. ASSUME NEW x \in InSet' PROVE x \in InSet /\ x # p
        BY <3>1, <3>2, <2>a, <2>e
    <3>4. ASSUME NEW x \in InSet, x # p PROVE x \in InSet'
        BY <3>1, <3>2, <3>4, <2>a, <2>b
    <3>5. InBatch' = InBatch
        BY DEF InBatch
    <3> QED
        BY <3>2, <3>3, <3>4, <3>5, <2>b
  <2> HIDE DEF en, p
  <2>1. TimerType'
    BY <1>t, <1>c, <2>a, <2>c DEF TimerType
  <2>2. IndexesAgree'
    <3>1. ASSUME NEW e \in timers_'
          PROVE  /\ e[2] \in Live' /\ e[1] = timer'[e[2]].expiration_
                 /\ Id(e[2])' \in active_timers_'
      <4>1. e \in timers_ /\ e[2] # p /\ e[2] \in Live /\ e[2] \in Live'
        BY <2>a, <2>e, <2>l, <1>t DEF IndexesAgree
      <4>2. Id(e[2]) # id
        BY <4>1, <2>b DEF Id
      <4> QED
        BY <4>1, <4>2, <2>a, <2>l, <1>t DEF IndexesAgree
    <3>2. ASSUME NEW a \in active_timers_'
          PROVE  /\ a[1] \in Live' /\ a = Id(a[1])'
                 /\ <<timer'[a[1]].expiration_, a[1]>> \in timers_'
      <4>1. a \in active_timers_ /\ a # id /\ a[1] \in Live /\ a = Id(a[1])
        BY <2>a, <1>t DEF IndexesAgree
      <4>2. a[1] # p
        BY <4>1, <2>b
      <4>3. a[1] \in Live' /\ timer'[a[1]] = timer[a[1]] /\ Id(a[1])' = Id(a[1])
        BY <4>1, <4>2, <2>l
      <4>4. <<timer[a[1]].expiration_, a[1]>> \in timers_
        BY <4>1, <1>t DEF IndexesAgree
      <4>5. <<timer[a[1]].expiration_, a[1]>> # en
        BY <4>2, <2>b
      <4> QED
        BY <4>1, <4>3, <4>4, <4>5, <2>a
    <3> QED
        BY <3>1, <3>2 DEF IndexesAgree
  <2>3. OneOwner'
    BY <1>o, <2>c, <2>s, OwnerFormNext
  <2>4. CancelSticks'
    BY <1>c, <2>a DEF TimerInv, CancelSticks
  <2>5. NoneLost'
    <3> SUFFICES ASSUME NEW s \in 0 .. num_created_ - 1
                 PROVE  \/ \E q \in Live' : timer'[q].sequence_ = s
                        \/ s \in ran \cup {x[2] : x \in cancelled'}
        BY DEF NoneLost
    <3>1. id[2] = timer[p].sequence_ /\ id \in cancelled' /\ cancelled \subseteq cancelled'
        BY <1>1, <1>c, <2>b DEF Id
    <3>2. CASE s \in ran \cup {x[2] : x \in cancelled}
        BY <3>1, <3>2
    <3>3. ASSUME NEW q \in Live, timer[q].sequence_ = s
          PROVE  \/ \E r \in Live' : timer'[r].sequence_ = s
                 \/ s \in {x[2] : x \in cancelled'}
      <4>1. CASE q = p
        BY <4>1, <3>1, <3>3
      <4>2. CASE q # p
        BY <4>2, <3>3, <2>l
      <4> QED
        BY <4>1, <4>2
    <3> QED
        BY <3>2, <3>3 DEF TimerInv, NoneLost
  <2>6. BatchAgrees'
    <3>1. ASSUME NEW e \in expired
          PROVE  /\ e[2] \in Live'
                 /\ e \notin todo => timer'[e[2]].sequence_ \in ran
                 /\ Id(e[2])' \in cancelled' => Id(e[2])' \in canceling_timers_
      <4>1. e[2] \in InBatch /\ e[2] \in Live /\ e[2] # p
        BY <1>o, <2>s DEF InBatch
      <4>2. e[2] \in Live' /\ timer'[e[2]] = timer[e[2]] /\ Id(e[2])' = Id(e[2])
        BY <4>1, <2>l
      <4>3. Id(e[2]) # id
        BY <4>1, <2>b DEF Id
      <4> QED
        BY <4>2, <4>3, <1>c DEF TimerInv, BatchAgrees
    <3> QED
        BY <3>1, <2>a DEF TimerInv, BatchAgrees
  <2>7. QueueAgrees'
    <3>1. \A q \in QueuedAdds' : q \in QueuedAdds /\ timer'[q] = timer[q]
        BY <1>o, <2>c, <2>s DEF Live
    <3> QED
        BY <3>1, <1>q DEF QueueAgrees
  <2>8. AlarmCovers' /\ ClockAhead'
    BY <2>a, FewerCovers DEF TimerInv
  <2> QED
    BY <1>n, <2>1, <2>2, <2>3, <2>4, <2>5, <2>6, <2>7, <2>8 DEF TimerInv
<1>2. CASE id \notin active_timers_
  <2>a. /\ canceling_timers_' = IF calling_expired_timers_
                                THEN canceling_timers_ \cup {id} ELSE canceling_timers_
        /\ UNCHANGED <<timers_, active_timers_, timer>>
    BY <1>2 DEF cancel_in_loop, setVars
  <2>l. Live' = Live /\ \A q : Id(q)' = Id(q)
    BY <2>a DEF Live, Id
  <2> HIDE DEF p
  <2>1. TimerType'
    BY <1>t, <1>c, <2>a DEF TimerType
  <2>2. IndexesAgree'
    BY <1>t, <2>a, <2>l DEF IndexesAgree
  <2>3. OneOwner'
    <3>1. InSet' = InSet /\ InBatch' = InBatch
        BY <2>a DEF InSet, InBatch
    <3> QED
        BY <3>1, <1>o, <2>l, OwnerFormNext
  <2>4. CancelSticks'
    BY <1>2, <1>c, <2>a DEF TimerInv, CancelSticks
  <2>5. NoneLost'
    <3>1. cancelled \subseteq cancelled'
        BY <1>c
    <3> QED
        BY <3>1, <2>a, <2>l DEF TimerInv, NoneLost
  <2>6. BatchAgrees'
    <3>1. id \in Batch => calling_expired_timers_
        BY <1>b DEF TimerInv, BatchAgrees
    <3>2. \A x \in cancelled' : x \in cancelled \/ x \in canceling_timers_'
        BY <3>1, <1>2, <1>c, <2>a
    <3> QED
        BY <3>2, <2>a, <2>l DEF TimerInv, BatchAgrees
  <2>7. QueueAgrees'
    BY <1>q, <2>a DEF QueueAgrees
  <2>8. AlarmCovers' /\ ClockAhead'
    BY <2>a, FewerCovers DEF TimerInv
  <2> QED
    BY <1>n, <2>1, <2>2, <2>3, <2>4, <2>5, <2>6, <2>7, <2>8 DEF TimerInv
<1> QED
    BY <1>1, <1>2

\* cancel on the loop's thread.
LEMMA CancelHereKeeps == ASSUME TimerInv, NEW id \in ids, cancel_here(id) PROVE TimerInv'
<1>t. TimerType /\ QueueAgrees
    BY DEF TimerInv
<1>u. /\ UNCHANGED <<num_created_, calling_expired_timers_, expired, todo, started, clock,
                     steps, alarm, readable, adder, ran, alive>>
      /\ UNCHANGED pending /\ alive /\ cancel_in_loop(id) /\ ids' = ids \ {id}
    BY DEF cancel_here, clockVars, fdVars
<1>1. id \in TimerIds /\ ids' \subseteq TimerIds /\ pending' \in Seq(Functors)
    BY <1>t, <1>u DEF TimerType
<1>2. /\ QueuedAdds' = QueuedAdds
      /\ \A i, j \in DOMAIN pending' :
            (IsAdd(i) /\ IsAdd(j))' /\ pending'[i].id[1] = pending'[j].id[1] => i = j
    BY <1>t, <1>u DEF QueuedAdds, QueueAgrees, IsAdd
<1> QED
    BY <1>u, <1>1, <1>2, CancelInLoopKeeps

\* cancel on another thread: a functor more in the queue.
LEMMA CancelOtherKeeps == ASSUME TimerInv, NEW id \in ids, cancel(id) PROVE TimerInv'
<1>t. TimerType /\ QueueAgrees
    BY DEF TimerInv
<1>u. /\ UNCHANGED <<timer, num_created_, timers_, active_timers_, canceling_timers_,
                     calling_expired_timers_, expired, todo, started, clock, steps, alarm,
                     readable, adder, cancelled, ran, alive>>
      /\ ids' = ids \ {id} /\ id \in TimerIds
    BY <1>t DEF cancel, heapVars, setVars, batchVars, clockVars, fdVars, TimerType
<1>q. /\ pending' \in Seq(Functors) /\ QueuedAdds' = QueuedAdds
      /\ \A i, j \in DOMAIN pending' :
            (IsAdd(i) /\ IsAdd(j))' /\ pending'[i].id[1] = pending'[j].id[1] => i = j
    BY <1>t, <1>u, AppendCancel DEF cancel
<1>l. Live' = Live /\ InSet' = InSet /\ InBatch' = InBatch /\ \A q : Id(q)' = Id(q)
    BY <1>u DEF Live, InSet, InBatch, Id
<1>1. TimerType'
    BY <1>t, <1>u, <1>q DEF TimerType
<1>2. IndexesAgree'
    BY <1>u, <1>l DEF TimerInv, IndexesAgree
<1>3. OneOwner'
    BY <1>u, <1>l, <1>q, OwnerForm, OwnerFormNext DEF TimerInv
<1>4. CancelSticks' /\ NoneLost'
    BY <1>u, <1>l DEF TimerInv, CancelSticks, NoneLost
<1>5. BatchAgrees'
    BY <1>u, <1>l DEF TimerInv, BatchAgrees
<1>6. Numbering'
    BY <1>u, <1>l DEF TimerInv, Numbering
<1>7. QueueAgrees'
    BY <1>u, <1>l, <1>q DEF TimerInv, QueueAgrees
<1>8. AlarmCovers' /\ ClockAhead'
    BY <1>u, FewerCovers DEF TimerInv
<1> QED
    BY <1>1, <1>2, <1>3, <1>4, <1>5, <1>6, <1>7, <1>8 DEF TimerInv

\* The loop runs a functor: the Timer of an add goes from the queue to the set.
LEMMA FunctorKeeps == ASSUME TimerInv, functor PROVE TimerInv'
<1> DEFINE f == Head(pending)
           p == f.id[1]
           w == timer[p].expiration_
<1>t. TimerType /\ QueueAgrees /\ IndexesAgree
    BY DEF TimerInv
<1>u. /\ UNCHANGED <<num_created_, calling_expired_timers_, expired, todo, started, clock,
                     steps, adder, ids, ran, alive>>
      /\ alive /\ ~calling_expired_timers_ /\ pending # <<>> /\ pending' = Tail(pending)
    BY DEF functor, clockVars
<1>q. /\ pending' \in Seq(Functors) /\ f.id \in TimerIds
      /\ f.op = "cancel" => QueuedAdds' = QueuedAdds
      /\ f.op = "add" => p \in QueuedAdds /\ QueuedAdds' = QueuedAdds \ {p}
      /\ \A i, j \in DOMAIN pending' :
            (IsAdd(i) /\ IsAdd(j))' /\ pending'[i].id[1] = pending'[j].id[1] => i = j
    BY <1>t, <1>u, TakeFunctor
<1>1. CASE f.op = "cancel" /\ cancel_in_loop(f.id) /\ UNCHANGED fdVars
  <2>1. UNCHANGED <<alarm, readable>> /\ ids' \subseteq TimerIds
    BY <1>1, <1>t, <1>u DEF fdVars, TimerType
  <2> QED
    BY <2>1, <1>1, <1>u, <1>q, CancelInLoopKeeps
<1>2. CASE /\ f.op = "add" /\ add_timer_in_loop(timer, p)
           /\ UNCHANGED <<timer, canceling_timers_, cancelled>>
  <2>a. /\ timers_' = timers_ \cup {<<w, p>>}
        /\ active_timers_' = active_timers_ \cup {Id(p)}
        /\ IF Earliest(w) THEN reset_timerfd(w) ELSE UNCHANGED fdVars
    BY <1>2 DEF add_timer_in_loop, insert, Id
  <2>o. /\ Live = InSet \cup InBatch \cup QueuedAdds
        /\ InSet \cap InBatch = {} /\ InSet \cap QueuedAdds = {}
        /\ InBatch \cap QueuedAdds = {}
    BY <1>u, OwnerForm DEF TimerInv
  <2>p. p \in Live /\ p \in QueuedAdds /\ QueuedAdds' = QueuedAdds \ {p}
    BY <1>2, <1>q, <2>o
  <2>w. p \in Addrs /\ w \in Nat /\ Id(p) \in TimerIds /\ Id(p)[1] = p
    BY <1>t, <2>p, LiveTimer DEF Id, TimerIds
  <2>l. Live' = Live /\ InBatch' = InBatch /\ \A q : Id(q)' = Id(q)
    BY <1>2, <1>u DEF Live, InBatch, Id
  <2>x. w = timer[p].expiration_
    OBVIOUS
  <2> HIDE DEF f, p, w
  <2>f. AlarmCovers' /\ ClockAhead' /\ alarm' \in Nat /\ readable' \in BOOLEAN
    BY <1>t, <1>u, <2>a, <2>w, InsertCovers DEF TimerInv
  <2>1. TimerType'
    BY <1>t, <1>u, <1>q, <1>2, <2>a, <2>w, <2>f DEF TimerType, Entries
  <2>2. IndexesAgree'
    <3>1. ASSUME NEW e \in timers_'
          PROVE  /\ e[2] \in Live' /\ e[1] = timer'[e[2]].expiration_
                 /\ Id(e[2])' \in active_timers_'
      <4>1. CASE e \in timers_
        BY <4>1, <1>t, <1>2, <2>a, <2>l DEF IndexesAgree
      <4>2. CASE e = <<w, p>>
        BY <4>2, <1>2, <2>a, <2>l, <2>p, <2>x
      <4> QED
        BY <4>1, <4>2, <2>a
    <3>2. ASSUME NEW a \in active_timers_'
          PROVE  /\ a[1] \in Live' /\ a = Id(a[1])'
                 /\ <<timer'[a[1]].expiration_, a[1]>> \in timers_'
      <4>1. CASE a \in active_timers_
        BY <4>1, <1>t, <1>2, <2>a, <2>l DEF IndexesAgree
      <4>2. CASE a = Id(p)
        BY <4>2, <1>2, <2>a, <2>l, <2>p, <2>w, <2>x
      <4> QED
        BY <4>1, <4>2, <2>a
    <3> QED
        BY <3>1, <3>2 DEF IndexesAgree
  <2>3. OneOwner'
    <3>1. InSet' = InSet \cup {p}
        BY <2>a, InsertEffect
    <3> QED
        BY <3>1, <2>o, <2>p, <2>l, OwnerFormNext
  <2>4. CancelSticks'
    BY <1>2, <1>t, <2>a, <2>p DEF TimerInv, CancelSticks, QueueAgrees
  <2>5. NoneLost'
    BY <1>2, <1>u, <2>l DEF TimerInv, NoneLost
  <2>6. BatchAgrees'
    BY <1>2, <1>u, <2>l DEF TimerInv, BatchAgrees
  <2>7. Numbering'
    BY <1>2, <1>u, <2>l DEF TimerInv, Numbering
  <2>8. QueueAgrees'
    BY <1>2, <1>t, <1>q, <2>l, <2>p DEF QueueAgrees
  <2> QED
    BY <2>f, <2>1, <2>2, <2>3, <2>4, <2>5, <2>6, <2>7, <2>8 DEF TimerInv
<1> QED
    BY <1>1, <1>2 DEF functor

\* handle_read: the expired timers go from the set to the batch.
LEMMA HandleReadKeeps == ASSUME TimerInv, handle_read PROVE TimerInv'
<1> DEFINE G == get_expired
<1>t. TimerType /\ IndexesAgree
    BY DEF TimerInv
<1>u. /\ UNCHANGED <<timer, num_created_, clock, steps, alarm, pending, adder, ids, cancelled,
                     ran, alive>>
      /\ alive /\ ~calling_expired_timers_ /\ readable' = FALSE /\ started' = clock
      /\ expired' = G /\ todo' = G /\ timers_' = timers_ \ G
      /\ active_timers_' = active_timers_ \ {Id(e[2]) : e \in G}
      /\ calling_expired_timers_' = TRUE /\ canceling_timers_' = {}
    BY DEF handle_read, heapVars, clockVars, userVars
<1>g. G \subseteq timers_
    BY DEF get_expired
<1> HIDE DEF G
<1>l. Live' = Live /\ QueuedAdds' = QueuedAdds /\ \A q : Id(q)' = Id(q) /\ Id(q)[1] = q
    BY <1>u DEF Live, QueuedAdds, Id
<1>e. \A d, e \in timers_ : d[2] = e[2] => d = e
    BY <1>t DEF IndexesAgree, TimerType, Entries
<1>1. TimerType'
    BY <1>t, <1>u, <1>g DEF TimerType
<1>2. IndexesAgree'
  <2>1. ASSUME NEW e \in timers_'
        PROVE  /\ e[2] \in Live' /\ e[1] = timer'[e[2]].expiration_
               /\ Id(e[2])' \in active_timers_'
    <3>1. e \in timers_ /\ e \notin G
        BY <1>u
    <3>2. \A d \in G : d[2] # e[2]
        BY <3>1, <1>g, <1>e
    <3>3. Id(e[2]) \notin {Id(d[2]) : d \in G}
        BY <3>2, <1>l
    <3> QED
        BY <3>1, <3>3, <1>t, <1>u, <1>l DEF IndexesAgree
  <2>2. ASSUME NEW a \in active_timers_'
        PROVE  /\ a[1] \in Live' /\ a = Id(a[1])'
               /\ <<timer'[a[1]].expiration_, a[1]>> \in timers_'
    <3> DEFINE en == <<timer[a[1]].expiration_, a[1]>>
    <3>1. a \in active_timers_ /\ a \notin {Id(d[2]) : d \in G}
        BY <1>u
    <3>2. a[1] \in Live /\ a = Id(a[1]) /\ en \in timers_ /\ en[2] = a[1]
        BY <3>1, <1>t DEF IndexesAgree
    <3> HIDE DEF en
    <3>3. en \notin G
        BY <3>1, <3>2
    <3> QED
        BY <3>2, <3>3, <1>u, <1>l DEF en
  <2> QED
    BY <2>1, <2>2 DEF IndexesAgree
<1>3. OneOwner'
  <2>1. InBatch = {}
    BY <1>u DEF InBatch, TimerInv, BatchAgrees
  <2>2. \A x : x \in InSet <=> \E e \in timers_ : x = e[2]
    BY DEF InSet
  <2>3. \A x : x \in InSet' <=> \E e \in timers_ \ G : x = e[2]
    BY <1>u DEF InSet
  <2>4. \A x : x \in InBatch' <=> \E e \in G : x = e[2]
    BY <1>u DEF InBatch
  <2>5. InSet = InSet' \cup InBatch'
    BY <2>2, <2>3, <2>4, <1>g
  <2>6. InSet' \cap InBatch' = {}
    BY <2>3, <2>4, <1>g, <1>e
  <2>7. /\ Live = InSet \cup InBatch \cup QueuedAdds
        /\ InSet \cap QueuedAdds = {}
    BY <1>u, OwnerForm DEF TimerInv
  <2> QED
    BY <2>1, <2>5, <2>6, <2>7, <1>l, OwnerFormNext
<1>4. CancelSticks'
    BY <1>u DEF TimerInv, CancelSticks
<1>5. NoneLost'
    BY <1>u, <1>l DEF TimerInv, NoneLost
<1>6. BatchAgrees'
  <2>1. ASSUME NEW e \in G PROVE e[2] \in Live /\ Id(e[2]) \notin cancelled
    BY <1>g, <1>t DEF TimerInv, IndexesAgree, CancelSticks
  <2> QED
    BY <2>1, <1>u, <1>l DEF BatchAgrees
<1>7. Numbering'
    BY <1>u, <1>l DEF TimerInv, Numbering
<1>8. QueueAgrees'
    BY <1>u, <1>l DEF TimerInv, QueueAgrees, IsAdd
<1>9. AlarmCovers' /\ ClockAhead'
    BY <1>u DEF TimerInv, AlarmCovers, ClockAhead
<1> QED
    BY <1>1, <1>2, <1>3, <1>4, <1>5, <1>6, <1>7, <1>8, <1>9 DEF TimerInv

\* A callback of the batch runs.
LEMMA RunKeeps == ASSUME TimerInv, run PROVE TimerInv'
<1>t. TimerType /\ BatchAgrees
    BY DEF TimerInv
<1>u. UNCHANGED <<timer, num_created_, timers_, active_timers_, canceling_timers_,
                  calling_expired_timers_, expired, started, clock, steps, alarm, readable,
                  pending, adder, ids, cancelled, alive>>
    BY DEF run, heapVars, setVars, clockVars, fdVars, userVars
<1>e. PICK e \in todo : todo' = todo \ {e} /\ ran' = ran \cup {timer[e[2]].sequence_}
    BY DEF run
<1>s. timer[e[2]].sequence_ \in Nat
    BY <1>t, LiveTimer DEF BatchAgrees
<1>l. /\ Live' = Live /\ InSet' = InSet /\ InBatch' = InBatch /\ QueuedAdds' = QueuedAdds
      /\ \A q : Id(q)' = Id(q)
    BY <1>u DEF Live, InSet, InBatch, QueuedAdds, Id
<1>1. TimerType'
    BY <1>t, <1>u, <1>e, <1>s DEF TimerType
<1>2. IndexesAgree'
    BY <1>u, <1>l DEF TimerInv, IndexesAgree
<1>3. OneOwner'
    BY <1>u, <1>l, OwnerForm, OwnerFormNext DEF TimerInv
<1>4. CancelSticks' /\ NoneLost'
    BY <1>u, <1>l, <1>e DEF TimerInv, CancelSticks, NoneLost
<1>5. BatchAgrees'
    BY <1>t, <1>u, <1>l, <1>e DEF BatchAgrees
<1>6. Numbering'
    BY <1>u, <1>l DEF TimerInv, Numbering
<1>7. QueueAgrees'
    BY <1>u, <1>l DEF TimerInv, QueueAgrees, IsAdd
<1>8. AlarmCovers' /\ ClockAhead'
    BY <1>u, FewerCovers DEF TimerInv
<1> QED
    BY <1>1, <1>2, <1>3, <1>4, <1>5, <1>6, <1>7, <1>8 DEF TimerInv

AgainAddrs == {e[2] : e \in Again}

\* reset leaves the timers outside the batch alone, restarts the ones that
\* repeat and were not cancelled, and deletes the others.
LEMMA ResetHeapEffect ==
    ASSUME TimerType, BatchAgrees, timer' = ResetHeap
    PROVE  /\ timer' \in [Addrs -> Timer \cup {NoTimer}]
           /\ AgainAddrs \subseteq InBatch
           /\ \A p \in AgainAddrs : /\ p \in Live /\ p \in Live' /\ Id(p) \notin canceling_timers_
                                    /\ timer'[p].sequence_ = timer[p].sequence_
                                    /\ timer'[p].expiration_ \in Nat
           /\ \A p \in Addrs : p \in InBatch \ AgainAddrs => p \notin Live'
           /\ \A p \in Addrs : p \notin InBatch => timer'[p] = timer[p]
<1>a. \A p : p \in AgainAddrs <=> \E e \in Again : e[2] = p
    BY DEF AgainAddrs
<1>b. \A p : p \in InBatch <=> \E e \in expired : e[2] = p
    BY DEF InBatch
<1>1. AgainAddrs \subseteq InBatch
    BY <1>a, <1>b DEF Again
<1>2. timer' = [p \in Addrs |-> IF p \in AgainAddrs THEN restart(timer[p])
                                ELSE IF p \in InBatch THEN NoTimer ELSE timer[p]]
    BY <1>a, <1>b DEF ResetHeap
<1>3. ASSUME NEW p \in AgainAddrs
      PROVE  /\ p \in Live /\ p \in Addrs /\ Id(p) \notin canceling_timers_
             /\ restart(timer[p]) \in Timer
             /\ restart(timer[p]).sequence_ = timer[p].sequence_
             /\ restart(timer[p]).expiration_ \in Nat
  <2>1. p \in Live /\ Id(p) \notin canceling_timers_
    BY <1>a DEF Again, BatchAgrees
  <2>2. p \in Addrs /\ timer[p] \in Timer /\ timer[p].interval_ \in Nat /\ started \in Nat
    BY <2>1, LiveTimer DEF TimerType
  <2>3. started + timer[p].interval_ \in Nat
    BY <2>2
  <2>4. \A t \in Timer, x \in Nat :
            /\ [t EXCEPT !.expiration_ = x] \in Timer
            /\ [t EXCEPT !.expiration_ = x].sequence_ = t.sequence_
            /\ [t EXCEPT !.expiration_ = x].expiration_ = x
    BY DEF Timer
  <2> QED
    BY <2>1, <2>2, <2>3, <2>4 DEF restart
<1>4. \A t \in Timer : t # NoTimer
    BY DEF Timer
<1>5. timer' \in [Addrs -> Timer \cup {NoTimer}]
    BY <1>2, <1>3 DEF TimerType
<1>6. \A p \in Addrs : p \notin InBatch => timer'[p] = timer[p]
    BY <1>1, <1>2
<1>7. \A p \in Addrs : p \in InBatch \ AgainAddrs => timer'[p] = NoTimer
    BY <1>2
<1>8. \A p \in AgainAddrs : p \in Addrs /\ timer'[p] = restart(timer[p])
    BY <1>2, <1>3
<1>9. \A p \in AgainAddrs : /\ p \in Live /\ p \in Live' /\ Id(p) \notin canceling_timers_
                            /\ timer'[p].sequence_ = timer[p].sequence_
                            /\ timer'[p].expiration_ \in Nat
    BY <1>3, <1>4, <1>8 DEF Live
<1> QED
    BY <1>1, <1>5, <1>6, <1>7, <1>9 DEF Live

\* reset: the batch is put back or deleted, and the timerfd armed for the
\* earliest timer that is left.
LEMMA ResetKeeps == ASSUME TimerInv, reset PROVE TimerInv'
<1> DEFINE new == {<<timer'[p].expiration_, p>> : p \in AgainAddrs}
           newIds == {Id(p) : p \in AgainAddrs}
<1>t. TimerType /\ IndexesAgree /\ BatchAgrees /\ CancelSticks /\ ClockAhead
    BY DEF TimerInv
<1>u. /\ UNCHANGED <<num_created_, canceling_timers_, todo, clock, steps, pending, adder, ids,
                     cancelled, ran, alive>>
      /\ calling_expired_timers_ /\ todo = {} /\ expired' = {} /\ started' = 0
      /\ calling_expired_timers_' = FALSE /\ timer' = ResetHeap
    BY DEF reset, clockVars, userVars
<1>h. /\ timer' \in [Addrs -> Timer \cup {NoTimer}]
      /\ AgainAddrs \subseteq InBatch
      /\ \A p \in AgainAddrs : /\ p \in Live /\ p \in Live' /\ Id(p) \notin canceling_timers_
                               /\ timer'[p].sequence_ = timer[p].sequence_
                               /\ timer'[p].expiration_ \in Nat
      /\ \A p \in Addrs : p \in InBatch \ AgainAddrs => p \notin Live'
      /\ \A p \in Addrs : p \notin InBatch => timer'[p] = timer[p]
    BY <1>t, <1>u, ResetHeapEffect
<1>a. timers_' = timers_ \cup new /\ active_timers_' = active_timers_ \cup newIds
  <2>1. new = {<<ResetHeap[e[2]].expiration_, e[2]>> : e \in Again}
    BY <1>u DEF AgainAddrs
  <2>2. newIds = {Id(e[2]) : e \in Again}
    BY DEF AgainAddrs
  <2> QED
    BY <2>1, <2>2 DEF reset
<1>o. /\ Live = InSet \cup InBatch \cup QueuedAdds
      /\ InSet \cap InBatch = {} /\ InSet \cap QueuedAdds = {}
      /\ InBatch \cap QueuedAdds = {}
    BY <1>t, <1>u, OwnerForm DEF TimerInv, BatchAgrees
<1>i. /\ \A p \in AgainAddrs : p \in Addrs /\ Id(p)' = Id(p) /\ Id(p) \in TimerIds
      /\ \A p \in Live : p \notin InBatch => p \in Live' /\ timer'[p] = timer[p] /\ Id(p)' = Id(p)
      /\ \A p \in Live' : p \in Live /\ timer'[p].sequence_ = timer[p].sequence_
      /\ \A p : Id(p)[1] = p
  <2>1. \A p \in Live : p \in Addrs
    BY DEF Live
  <2>2. \A p \in AgainAddrs : p \in Addrs /\ timer[p].sequence_ \in Nat
    BY <1>h, <1>t, LiveTimer
  <2>3. \A p \in Live : p \notin InBatch => p \in Live' /\ timer'[p] = timer[p]
    BY <1>h DEF Live
  <2>4. \A p \in Live' : p \in Live /\ timer'[p].sequence_ = timer[p].sequence_
    BY <1>h DEF Live
  <2> QED
    BY <2>2, <2>3, <2>4, <1>h DEF Id, TimerIds
<1>s. \A e \in timers_ : e[2] \in InSet /\ e[2] \notin InBatch
    BY <1>o DEF InSet
<1>n. /\ \A e \in new : e[2] \in AgainAddrs /\ e[1] = timer'[e[2]].expiration_ /\ e \in Entries
      /\ \A p \in AgainAddrs : <<timer'[p].expiration_, p>> \in new
      /\ \A p \in AgainAddrs : Id(p) \in newIds
      /\ \A x \in newIds : \E p \in AgainAddrs : x = Id(p)
  <2>1. ASSUME NEW e \in new
        PROVE  e[2] \in AgainAddrs /\ e[1] = timer'[e[2]].expiration_ /\ e \in Entries
    <3>1. PICK p \in AgainAddrs : e = <<timer'[p].expiration_, p>>
        OBVIOUS
    <3>2. e[1] = timer'[p].expiration_ /\ e[2] = p
        BY <3>1
    <3>3. e \in Entries
        BY <3>1, <1>h, <1>i DEF Entries
    <3> QED
        BY <3>2, <3>3
  <2> QED
    BY <2>1
<1> HIDE DEF new, newIds
<1>1. /\ IndexesAgree'
  <2>1. ASSUME NEW e \in timers_'
        PROVE  /\ e[2] \in Live' /\ e[1] = timer'[e[2]].expiration_
               /\ Id(e[2])' \in active_timers_'
    <3>1. CASE e \in timers_
        BY <3>1, <1>t, <1>a, <1>i, <1>s DEF IndexesAgree
    <3>2. CASE e \in new
      <4>1. e[2] \in AgainAddrs /\ e[1] = timer'[e[2]].expiration_
        BY <3>2, <1>n
      <4> QED
        BY <4>1, <1>a, <1>h, <1>i, <1>n
    <3> QED
        BY <3>1, <3>2, <1>a
  <2>2. ASSUME NEW a \in active_timers_'
        PROVE  /\ a[1] \in Live' /\ a = Id(a[1])'
               /\ <<timer'[a[1]].expiration_, a[1]>> \in timers_'
    <3>1. CASE a \in active_timers_
      <4>1. a[1] \in Live /\ a = Id(a[1]) /\ <<timer[a[1]].expiration_, a[1]>> \in timers_
        BY <3>1, <1>t DEF IndexesAgree
      <4>2. a[1] \notin InBatch
        BY <4>1, <1>s
      <4> QED
        BY <4>1, <4>2, <1>a, <1>i
    <3>2. CASE a \in newIds
      <4>1. PICK p \in AgainAddrs : a = Id(p)
        BY <3>2, <1>n
      <4>2. a[1] = p
        BY <4>1, <1>i
      <4> QED
        BY <4>1, <4>2, <1>a, <1>h, <1>i, <1>n
    <3> QED
        BY <3>1, <3>2, <1>a
  <2> QED
    BY <2>1, <2>2 DEF IndexesAgree
<1>2. OneOwner'
  <2>1. InSet' = InSet \cup AgainAddrs
    <3>1. \A x : x \in InSet' <=> \E e \in timers_' : x = e[2]
        BY DEF InSet
    <3>2. \A x : x \in InSet <=> \E e \in timers_ : x = e[2]
        BY DEF InSet
    <3>3. ASSUME NEW x \in InSet' PROVE x \in InSet \cup AgainAddrs
        BY <3>1, <3>2, <1>a, <1>n
    <3>4. ASSUME NEW x \in InSet PROVE x \in InSet'
        BY <3>1, <3>2, <1>a
    <3>5. ASSUME NEW x \in AgainAddrs PROVE x \in InSet'
      <4>1. <<timer'[x].expiration_, x>> \in timers_' /\ <<timer'[x].expiration_, x>>[2] = x
        BY <1>a, <1>n
      <4> QED
        BY <4>1, <3>1
    <3> QED
        BY <3>3, <3>4, <3>5
  <2>2. InBatch' = {} /\ QueuedAdds' = QueuedAdds
    BY <1>u DEF InBatch, QueuedAdds
  <2>3. ASSUME NEW p PROVE p \in Live' <=> p \in InSet \cup AgainAddrs \cup QueuedAdds
    <3>1. CASE p \in Live' \/ p \in Live
      <4>1. p \in Live /\ p \in Addrs
        BY <3>1, <1>i DEF Live
      <4>2. CASE p \in InBatch
        BY <4>1, <4>2, <1>h, <1>o
      <4>3. CASE p \notin InBatch
        BY <4>1, <4>3, <1>h, <1>i, <1>o
      <4> QED
        BY <4>2, <4>3
    <3>2. CASE p \notin Live' /\ p \notin Live
        BY <3>2, <1>h, <1>o
    <3> QED
        BY <3>1, <3>2
  <2>4. AgainAddrs \cap QueuedAdds = {}
    BY <1>h, <1>o
  <2>5. Live' = InSet' \cup InBatch' \cup QueuedAdds'
    BY <2>1, <2>2, <2>3
  <2> QED
    BY <2>1, <2>2, <2>4, <2>5, <1>o, OwnerFormNext
<1>3. CancelSticks'
  <2>1. \A p \in AgainAddrs : Id(p) \notin cancelled
    <3> SUFFICES ASSUME NEW p \in AgainAddrs PROVE Id(p) \notin cancelled
        OBVIOUS
    <3>1. PICK e \in expired : e[2] = p
        BY <1>h DEF InBatch
    <3> QED
        BY <3>1, <1>h, <1>t DEF BatchAgrees
  <2> QED
    BY <2>1, <1>t, <1>u, <1>a, <1>n DEF CancelSticks
<1>4. NoneLost'
  <2> SUFFICES ASSUME NEW s \in 0 .. num_created_ - 1
               PROVE  \/ \E q \in Live' : timer'[q].sequence_ = s
                      \/ s \in ran \cup {id[2] : id \in cancelled}
    BY <1>u DEF NoneLost
  <2>1. ASSUME NEW q \in Live, timer[q].sequence_ = s
        PROVE  (\E r \in Live' : timer'[r].sequence_ = s) \/ s \in ran
    <3>1. CASE q \in InBatch
      <4>1. PICK e \in expired : e[2] = q
        BY <3>1 DEF InBatch
      <4> QED
        BY <4>1, <2>1, <1>t, <1>u DEF BatchAgrees
    <3>2. CASE q \notin InBatch
        BY <3>2, <2>1, <1>i
    <3> QED
        BY <3>1, <3>2
  <2> QED
    BY <2>1 DEF TimerInv, NoneLost
<1>5. BatchAgrees'
    BY <1>u DEF BatchAgrees
<1>6. Numbering'
    BY <1>u, <1>i DEF TimerInv, Numbering
<1>7. QueueAgrees'
  <2>1. QueuedAdds' = QueuedAdds
    BY <1>u DEF QueuedAdds
  <2>2. \A p \in QueuedAdds : Id(p)' = Id(p)
    BY <1>o, <1>i
  <2> QED
    BY <2>1, <2>2, <1>u DEF TimerInv, QueueAgrees, IsAdd
<1>8. AlarmCovers' /\ ClockAhead' /\ alarm' \in Nat /\ readable' \in BOOLEAN
  <2>t. clock \in Nat /\ steps \in Nat /\ \A e \in timers_' : e[1] \in Nat
    BY <1>t, <1>a, <1>n DEF TimerType, Entries
  <2>d. \A v \in Nat : Deadline(v)' = Deadline(v)
    BY <1>u DEF Deadline
  <2>1. CASE timers_' = {} /\ UNCHANGED fdVars
    BY <2>1, <1>t, <1>u DEF fdVars, AlarmCovers, ClockAhead, TimerType
  <2>2. CASE \E e \in timers_' : (\A d \in timers_' : e[1] <= d[1]) /\ reset_timerfd(e[1])
    <3>1. PICK e \in timers_' : (\A d \in timers_' : e[1] <= d[1]) /\ reset_timerfd(e[1])
        BY <2>2
    <3>2. alarm' = Deadline(e[1]) /\ readable' = FALSE
        BY <3>1 DEF reset_timerfd
    <3>3. ASSUME NEW d \in timers_'
          PROVE  /\ Deadline(e[1]) \in Nat /\ Deadline(d[1]) \in Nat
                 /\ Deadline(e[1]) > clock /\ Deadline(e[1]) <= Deadline(d[1])
        BY <3>1, <2>t, DeadlineMonotone
    <3>4. Deadline(e[1]) \in Nat /\ Deadline(e[1]) > clock
        BY <3>3
    <3>5. AlarmCovers'
        BY <3>2, <3>3, <3>4, <2>t, <2>d, <1>u DEF AlarmCovers
    <3>6. ClockAhead'
        BY <3>2, <3>4, <2>t, <1>t, <1>u DEF ClockAhead
    <3> QED
        BY <3>2, <3>4, <3>5, <3>6
  <2> QED
    BY <2>1, <2>2 DEF reset
<1>9. TimerType'
  <2>1. timers_' \subseteq Entries /\ active_timers_' \subseteq TimerIds
    BY <1>t, <1>a, <1>i, <1>n DEF TimerType
  <2> QED
    BY <1>t, <1>u, <1>h, <1>8, <2>1 DEF TimerType
<1> QED
    BY <1>1, <1>2, <1>3, <1>4, <1>5, <1>6, <1>7, <1>8, <1>9 DEF TimerInv

\* ~Timer_Queue: nobody owns the timers any more, and no callback runs.
LEMMA DtorKeeps == ASSUME TimerInv, dtor PROVE TimerInv'
<1>t. TimerType /\ BatchAgrees
    BY DEF TimerInv
<1>u. /\ UNCHANGED <<timer, num_created_, timers_, active_timers_, canceling_timers_,
                     calling_expired_timers_, expired, todo, started, clock, steps, alarm,
                     readable, adder, ids, cancelled, ran>>
      /\ ~calling_expired_timers_ /\ alive' = FALSE /\ pending' = <<>>
    BY DEF dtor, heapVars, setVars, batchVars, clockVars, fdVars
<1>l. Live' = Live /\ \A q : Id(q)' = Id(q)
    BY <1>u DEF Live, Id
<1>s. <<>> \in Seq(Functors)
    OBVIOUS
<1>1. TimerType'
    BY <1>t, <1>u, <1>s DEF TimerType
<1>2. IndexesAgree'
    BY <1>u, <1>l DEF TimerInv, IndexesAgree
<1>3. OneOwner' /\ CancelSticks' /\ NoneLost'
    BY <1>u, <1>l DEF TimerInv, OneOwner, CancelSticks, NoneLost
<1>4. BatchAgrees'
    BY <1>t, <1>u, <1>l DEF BatchAgrees
<1>5. Numbering'
    BY <1>u, <1>l DEF TimerInv, Numbering
<1>6. QueueAgrees'
    BY <1>u DEF QueueAgrees, QueuedAdds
<1>7. AlarmCovers' /\ ClockAhead'
    BY <1>u DEF TimerInv, AlarmCovers, ClockAhead
<1> QED
    BY <1>1, <1>2, <1>3, <1>4, <1>5, <1>6, <1>7 DEF TimerInv

\* The clock and the timerfd: time passes, the clock is set, the timerfd goes off.
LEMMA ClockKeeps == ASSUME TimerInv, tick \/ clock_set \/ timerfd_expires PROVE TimerInv'
<1>t. TimerType /\ AlarmCovers /\ ClockAhead
    BY DEF TimerInv
<1>u. UNCHANGED <<timer, num_created_, timers_, active_timers_, canceling_timers_,
                  calling_expired_timers_, expired, todo, started, pending, adder, ids,
                  cancelled, ran, alive>>
    BY DEF tick, clock_set, timerfd_expires, heapVars, setVars, batchVars, userVars
<1>e. /\ clock \in Nat /\ steps \in Nat /\ alarm \in Nat /\ readable \in BOOLEAN
      /\ \A e \in timers_ : e[1] \in Nat
    BY <1>t DEF TimerType, Entries
<1>f. /\ IndexesAgree' /\ OneOwner' /\ CancelSticks' /\ NoneLost' /\ BatchAgrees'
      /\ Numbering' /\ QueueAgrees'
    BY <1>u, Frame
<1>g. ASSUME clock' \in Nat, steps' \in Nat, alarm' \in Nat, readable' \in BOOLEAN,
             ClockAhead', AlarmCovers'
      PROVE  TimerInv'
  <2>1. TimerType'
    BY <1>t, <1>u, <1>g DEF TimerType
  <2> QED
    BY <2>1, <1>f, <1>g DEF TimerInv
<1>1. CASE tick
  <2>1. clock' = clock + 1 /\ UNCHANGED <<steps, alarm, readable>>
    BY <1>1 DEF tick, fdVars
  <2>2. ClockAhead'
    BY <2>1, <1>t, <1>e DEF ClockAhead
  <2>3. \A v \in Nat : Deadline(v) \in Nat /\ Deadline(v)' \in Nat /\ Deadline(v) <= Deadline(v)'
    BY <2>1, <1>e DEF Deadline
  <2>4. AlarmCovers'
    BY <2>1, <2>3, <1>t, <1>u, <1>e DEF AlarmCovers
  <2> QED
    BY <2>1, <2>2, <2>4, <1>e, <1>g
<1>2. CASE clock_set
  <2>1. /\ steps < MaxSteps /\ steps' = steps + 1 /\ UNCHANGED readable
        /\ \/ clock > 1 /\ clock' = clock - 1 /\ alarm' = IF alarm = 0 THEN 0 ELSE alarm - 1
           \/ clock' = clock + 1 /\ alarm' = IF alarm = 0 THEN 0 ELSE alarm + 1
    BY <1>2 DEF clock_set
  <2>2. clock' \in Nat /\ steps' \in Nat /\ alarm' \in Nat
    BY <2>1, <1>e
  <2>3. ClockAhead'
    BY <2>1, <1>t, <1>e DEF ClockAhead
  <2>4. \A v \in Nat :
            /\ Deadline(v) \in Nat /\ Deadline(v)' \in Nat
            /\ clock' = clock - 1 => Deadline(v) <= Deadline(v)' + 1
            /\ clock' = clock + 1 => Deadline(v) <= Deadline(v)'
    <3>1. CASE clock' = clock - 1
        BY <3>1, <2>2, <1>e DEF Deadline
    <3>2. CASE clock' = clock + 1
        BY <3>2, <2>2, <1>e DEF Deadline
    <3> QED
        BY <3>1, <3>2, <2>1
  <2>5. ASSUME alarm > 0, NEW x \in Nat, NEW y \in Nat, alarm <= x + steps,
               clock' = clock - 1 => x <= y + 1, clock' = clock + 1 => x <= y
        PROVE  alarm' > 0 /\ alarm' <= y + steps'
    BY <2>1, <2>5, <1>t, <1>e DEF ClockAhead
  <2>6. AlarmCovers'
    <3> SUFFICES ASSUME alive, ~calling_expired_timers_, NEW e \in timers_, ~readable
                 PROVE  alarm' > 0 /\ alarm' <= Deadline(e[1])' + steps'
        BY <1>u, <2>1 DEF AlarmCovers
    <3>1. alarm > 0 /\ alarm <= Deadline(e[1]) + steps
        BY <1>t DEF AlarmCovers
    <3> QED
        BY <3>1, <2>4, <2>5, <1>e
  <2> QED
    BY <2>1, <2>2, <2>3, <2>6, <1>e, <1>g
<1>3. CASE timerfd_expires
  <2>1. alarm' = 0 /\ readable' = TRUE /\ UNCHANGED <<clock, steps>>
    BY <1>3 DEF timerfd_expires, clockVars
  <2> QED
    BY <2>1, <1>t, <1>e, <1>g DEF AlarmCovers, ClockAhead
<1> QED
    BY <1>1, <1>2, <1>3

-----------------------------------------------------------------------------
\* An empty queue: the invariant holds at first.
LEMMA TimerInvInit == Init => TimerInv
<1> SUFFICES ASSUME Init PROVE TimerInv
    OBVIOUS
<1>1. Live = {} /\ QueuedAdds = {}
    BY DEF Init, Live, QueuedAdds
<1>s. <<>> \in Seq(Functors) /\ MaxSteps + 1 \in Nat
    OBVIOUS
<1>2. TimerType
    BY <1>s DEF Init, TimerType
<1>3. IndexesAgree /\ CancelSticks /\ NoneLost /\ AlarmCovers
    BY <1>1 DEF Init, IndexesAgree, CancelSticks, NoneLost, AlarmCovers
<1>4. OneOwner
    BY <1>1 DEF Init, OneOwner
<1>5. BatchAgrees /\ Numbering /\ QueueAgrees /\ ClockAhead
    BY <1>1 DEF Init, BatchAgrees, Numbering, QueueAgrees, ClockAhead
<1> QED
    BY <1>2, <1>3, <1>4, <1>5 DEF TimerInv

\* Every step keeps the invariant.
LEMMA TimerInvStep == TimerInv /\ [Next]_vars => TimerInv'
<1> SUFFICES ASSUME TimerInv, [Next]_vars PROVE TimerInv'
    OBVIOUS
<1>1. ASSUME NEW p \in Addrs, NEW d \in Delays, NEW i \in Intervals,
             add_timer_here(p, d, i) \/ add_timer(p, d, i)
      PROVE  TimerInv'
    BY <1>1, AddHereKeeps, AddOtherKeeps
<1>2. ASSUME NEW id \in ids, cancel_here(id) \/ cancel(id) PROVE TimerInv'
    BY <1>2, CancelHereKeeps, CancelOtherKeeps
<1>3. CASE add_timer_returns \/ functor \/ handle_read \/ run \/ reset \/ dtor
    BY <1>3, AddReturnsKeeps, FunctorKeeps, HandleReadKeeps, RunKeeps, ResetKeeps, DtorKeeps
<1>4. CASE tick \/ clock_set \/ timerfd_expires
    BY <1>4, ClockKeeps
<1>5. CASE poll \/ UNCHANGED vars
  <2>1. UNCHANGED <<timer, num_created_, timers_, active_timers_, canceling_timers_,
                    calling_expired_timers_, expired, todo, started, clock, steps, alarm,
                    readable, pending, adder, ids, cancelled, ran, alive>>
    BY <1>5 DEF poll, vars, heapVars, setVars, batchVars, clockVars, fdVars, userVars
  <2>2. TimerType'
    BY <2>1 DEF TimerInv, TimerType
  <2> QED
    BY <2>1, <2>2, Frame, FewerCovers DEF TimerInv
<1> QED
    BY <1>1, <1>2, <1>3, <1>4, <1>5 DEF Next

\* The inductive invariant holds in every reachable state.
THEOREM TimerInvariant == Spec => []TimerInv
BY TimerInvInit, TimerInvStep, PTL DEF Spec

\* insert, cancel_in_loop, get_expired and reset: the asserts on the sizes of the
\* two sets hold, however adds, cancels and expirations interleave.
THEOREM TheIndexesAgree == Spec => []IndexesAgree
<1>1. TimerInv => IndexesAgree
    BY DEF TimerInv
<1> QED
    BY <1>1, TimerInvariant, PTL

\* delete: every Timer has one owner, which deletes it once.
THEOREM EveryTimerHasOneOwner == Spec => []OneOwner
<1>1. TimerInv => OneOwner
    BY DEF TimerInv
<1> QED
    BY <1>1, TimerInvariant, PTL

\* cancel_in_loop and reset: a timer that cancel found is never put back.
THEOREM CancelledStays == Spec => []CancelSticks
<1>1. TimerInv => CancelSticks
    BY DEF TimerInv
<1> QED
    BY <1>1, TimerInvariant, PTL

\* reset and cancel_in_loop delete no timer that neither ran nor was cancelled.
THEOREM NoTimerIsLost == Spec => []NoneLost
<1>1. TimerInv => NoneLost
    BY DEF TimerInv
<1> QED
    BY <1>1, TimerInvariant, PTL

\* insert and reset: the timerfd goes off no later than the earliest timer
\* needs, wherever the clock is set meanwhile.
THEOREM TheAlarmCovers == Spec => []AlarmCovers
<1>1. TimerInv => AlarmCovers
    BY DEF TimerInv
<1> QED
    BY <1>1, TimerInvariant, PTL
=============================================================================
