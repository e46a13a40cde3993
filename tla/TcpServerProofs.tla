--------------------------- MODULE TcpServerProofs ---------------------------
(***************************************************************************)
(* The invariants of TcpServer, for any number of connections, loops,      *)
(* messages and descriptors.                                               *)
(*                                                                         *)
(* The argument follows one connection.  It is constructed, established,   *)
(* closed and removed, and in each of these phases it is known which of    *)
(* the functors connect_established, remove_connection_in_loop and         *)
(* connect_destroyed are queued for it, and where, and whether it is in    *)
(* connections_.  TcpConnectionProofs has what the handlers do to the      *)
(* connection; here is who calls them and when.                            *)
(***************************************************************************)
EXTENDS TcpServer, TcpConnectionProofs, FiniteSetTheorems

-----------------------------------------------------------------------------
(* Queues of functors.                                                     *)

Functors == [op : Ops, c : Conns]
Est(c) == Functor("connect_established", c)
Des(c) == Functor("connect_destroyed", c)
Rem(c) == Functor("remove_connection_in_loop", c)

\* How often a functor is in a queue: never (0), once (1) or more often (2), and
\* that one functor is ahead of another one.
Never(q, f) == \A i \in DOMAIN q : q[i] # f
Once(q, f) == \E i \in DOMAIN q : q[i] = f /\ \A j \in DOMAIN q : q[j] = f => j = i
Times(q, f) == IF Never(q, f) THEN 0 ELSE IF Once(q, f) THEN 1 ELSE 2
Ahead(q, f, g) == \A i, j \in DOMAIN q : q[i] = f /\ q[j] = g => i < j

\* r has of the functors that make the life of connection c those that q has, and
\* no new functor of c.
SameFor(c, q, r) ==
    /\ \A f \in {Est(c), Des(c), Rem(c)} : Times(r, f) = Times(q, f)
    /\ Ahead(q, Est(c), Des(c)) => Ahead(r, Est(c), Des(c))
    /\ \A i \in DOMAIN r : r[i].c = c => \E j \in DOMAIN q : q[j] = r[i]

\* The elements of two queues one behind the other.
LEMMA QueueConcat ==
    ASSUME NEW q \in Seq(Functors), NEW d \in Seq(Functors)
    PROVE  /\ q \o d \in Seq(Functors) /\ DOMAIN (q \o d) = 1 .. Len(q) + Len(d)
           /\ DOMAIN q = 1 .. Len(q) /\ DOMAIN d = 1 .. Len(d)
           /\ Len(q) \in Nat /\ Len(d) \in Nat
           /\ \A i \in DOMAIN q : (q \o d)[i] = q[i]
           /\ \A i \in DOMAIN d : (q \o d)[Len(q) + i] = d[i]
           /\ \A k \in DOMAIN (q \o d) :
                k \notin DOMAIN q => k - Len(q) \in DOMAIN d /\ (q \o d)[k] = d[k - Len(q)]
  BY ConcatProperties, LenProperties

\* A functor that is not in what is added.
LEMMA TimesConcat ==
    ASSUME NEW q \in Seq(Functors), NEW d \in Seq(Functors), NEW f, Never(d, f)
    PROVE  Times(q \o d, f) = Times(q, f)
<1> DEFINE r == q \o d
<1>1. /\ DOMAIN r = 1 .. Len(q) + Len(d) /\ DOMAIN q = 1 .. Len(q) /\ DOMAIN d = 1 .. Len(d)
      /\ Len(q) \in Nat /\ Len(d) \in Nat
      /\ \A i \in DOMAIN q : r[i] = q[i]
      /\ \A k \in DOMAIN r : k \notin DOMAIN q => k - Len(q) \in DOMAIN d /\ r[k] = d[k - Len(q)]
  BY QueueConcat
<1> HIDE DEF r
<1>2. \A k \in DOMAIN r : r[k] = f => k \in DOMAIN q /\ q[k] = f
  BY <1>1 DEF Never
<1>3. \A k \in DOMAIN q : k \in DOMAIN r /\ r[k] = q[k]
  BY <1>1
<1>4. Never(r, f) <=> Never(q, f)
  BY <1>2, <1>3 DEF Never
<1>5. Once(r, f) <=> Once(q, f)
  BY <1>2, <1>3 DEF Once
<1> QED  BY <1>4, <1>5 DEF Times, r

\* A functor that is added.
LEMMA TimesAdded ==
    ASSUME NEW q \in Seq(Functors), NEW d \in Seq(Functors), NEW f, Once(d, f), Times(q, f) = 0
    PROVE  Times(q \o d, f) = 1
<1> DEFINE r == q \o d
<1>1. /\ DOMAIN r = 1 .. Len(q) + Len(d) /\ DOMAIN q = 1 .. Len(q) /\ DOMAIN d = 1 .. Len(d)
      /\ Len(q) \in Nat /\ Len(d) \in Nat
      /\ \A i \in DOMAIN q : r[i] = q[i]
      /\ \A i \in DOMAIN d : r[Len(q) + i] = d[i]
      /\ \A k \in DOMAIN r : k \notin DOMAIN q => k - Len(q) \in DOMAIN d /\ r[k] = d[k - Len(q)]
  BY QueueConcat
<1> HIDE DEF r
<1>2. Never(q, f)
  BY DEF Times
<1>3. PICK i \in DOMAIN d : d[i] = f /\ \A j \in DOMAIN d : d[j] = f => j = i
  BY DEF Once
<1>4. Len(q) + i \in DOMAIN r /\ r[Len(q) + i] = f
  BY <1>1, <1>3
<1>5. ASSUME NEW k \in DOMAIN r, r[k] = f PROVE k = Len(q) + i
  <2>1. k \notin DOMAIN q
    BY <1>1, <1>2, <1>5 DEF Never
  <2>2. k - Len(q) = i
    BY <1>1, <1>3, <1>5, <2>1
  <2> QED  BY <1>1, <2>2
<1>6. ~Never(r, f) /\ Once(r, f)
  BY <1>4, <1>5 DEF Never, Once
<1> QED  BY <1>6 DEF Times, r

\* The head of a queue is taken away.
LEMMA TimesTail ==
    ASSUME NEW q \in Seq(Functors), q # <<>>, NEW f
    PROVE  /\ Tail(q) \in Seq(Functors)
           /\ Head(q) # f => Times(Tail(q), f) = Times(q, f)
           /\ Head(q) = f => Times(q, f) # 0 /\ (Times(q, f) = 1 => Times(Tail(q), f) = 0)
<1> DEFINE r == Tail(q)
<1>1. /\ r \in Seq(Functors) /\ DOMAIN q = 1 .. Len(q) /\ Len(q) \in Nat \ {0}
      /\ DOMAIN r = 1 .. Len(q) - 1
      /\ \A i \in DOMAIN r : r[i] = q[i + 1] /\ i + 1 \in DOMAIN q
      /\ Head(q) = q[1] /\ 1 \in DOMAIN q
  BY HeadTailProperties, EmptySeq
<1> HIDE DEF r
<1>2. \A k \in DOMAIN q : k # 1 => k - 1 \in DOMAIN r /\ r[k - 1] = q[k]
  BY <1>1
<1>3. ASSUME Head(q) # f PROVE Times(r, f) = Times(q, f)
  <2>1. Never(r, f) <=> Never(q, f)
    BY <1>1, <1>2, <1>3 DEF Never
  <2>2. Once(r, f) => Once(q, f)
    <3> SUFFICES ASSUME Once(r, f) PROVE Once(q, f)
      OBVIOUS
    <3>1. PICK i \in DOMAIN r : r[i] = f /\ \A j \in DOMAIN r : r[j] = f => j = i
      BY DEF Once
    <3>2. i + 1 \in DOMAIN q /\ q[i + 1] = f
      BY <1>1, <3>1
    <3>3. ASSUME NEW j \in DOMAIN q, q[j] = f PROVE j = i + 1
      <4>1. j # 1
        BY <1>1, <1>3, <3>3
      <4>2. j - 1 \in DOMAIN r /\ r[j - 1] = f
        BY <1>2, <3>3, <4>1
      <4> QED  BY <1>1, <3>1, <4>2
    <3> QED  BY <3>2, <3>3 DEF Once
  <2>3. Once(q, f) => Once(r, f)
    <3> SUFFICES ASSUME Once(q, f) PROVE Once(r, f)
      OBVIOUS
    <3>1. PICK i \in DOMAIN q : q[i] = f /\ \A j \in DOMAIN q : q[j] = f => j = i
      BY DEF Once
    <3>2. i - 1 \in DOMAIN r /\ r[i - 1] = f
      BY <1>1, <1>2, <1>3, <3>1
    <3>3. ASSUME NEW j \in DOMAIN r, r[j] = f PROVE j = i - 1
      BY <1>1, <3>1, <3>3
    <3> QED  BY <3>2, <3>3 DEF Once
  <2> QED  BY <2>1, <2>2, <2>3 DEF Times
<1>4. ASSUME Head(q) = f PROVE Times(q, f) # 0 /\ (Times(q, f) = 1 => Times(r, f) = 0)
  <2>1. ~Never(q, f)
    BY <1>1, <1>4 DEF Never
  <2>2. Once(q, f) => Never(r, f)
    BY <1>1, <1>4 DEF Once, Never
  <2> QED  BY <2>1, <2>2 DEF Times
<1> QED  BY <1>1, <1>3, <1>4 DEF r

\* The order of two functors: the first of them is not added, or the head is taken away.
LEMMA AheadKept ==
    ASSUME NEW q \in Seq(Functors), NEW f, NEW g, Ahead(q, f, g)
    PROVE  /\ \A d \in Seq(Functors) : Never(d, f) => Ahead(q \o d, f, g)
           /\ q # <<>> => Ahead(Tail(q), f, g)
           /\ q # <<>> /\ Times(q, f) # 0 /\ f # g => Head(q) # g
<1>1. ASSUME NEW d \in Seq(Functors), Never(d, f) PROVE Ahead(q \o d, f, g)
  <2> DEFINE r == q \o d
  <2>1. /\ DOMAIN r = 1 .. Len(q) + Len(d) /\ DOMAIN q = 1 .. Len(q)
        /\ Len(q) \in Nat /\ Len(d) \in Nat
        /\ \A i \in DOMAIN q : r[i] = q[i]
        /\ \A k \in DOMAIN r : k \notin DOMAIN q => k - Len(q) \in DOMAIN d /\ r[k] = d[k - Len(q)]
    BY QueueConcat
  <2> HIDE DEF r
  <2>2. ASSUME NEW i \in DOMAIN r, NEW j \in DOMAIN r, r[i] = f, r[j] = g PROVE i < j
    <3>1. i \in DOMAIN q /\ q[i] = f
      BY <1>1, <2>1, <2>2 DEF Never
    <3>2. CASE j \in DOMAIN q
      BY <2>1, <2>2, <3>1, <3>2 DEF Ahead
    <3>3. CASE j \notin DOMAIN q
      BY <2>1, <3>1, <3>3
    <3> QED  BY <3>2, <3>3
  <2>3. Ahead(r, f, g)
    BY <2>2 DEF Ahead
  <2> QED  BY <2>3 DEF r
<1>2. ASSUME q # <<>> PROVE Ahead(Tail(q), f, g) /\ (Times(q, f) # 0 /\ f # g => Head(q) # g)
  <2> DEFINE r == Tail(q)
  <2>1. /\ DOMAIN q = 1 .. Len(q) /\ Len(q) \in Nat \ {0} /\ DOMAIN r = 1 .. Len(q) - 1
        /\ \A i \in DOMAIN r : r[i] = q[i + 1] /\ i + 1 \in DOMAIN q
        /\ Head(q) = q[1] /\ 1 \in DOMAIN q
    BY <1>2, HeadTailProperties, EmptySeq
  <2> HIDE DEF r
  <2>2. Ahead(r, f, g)
    BY <2>1 DEF Ahead
  <2>3. ASSUME Times(q, f) # 0, f # g PROVE Head(q) # g
    <3>1. PICK i \in DOMAIN q : q[i] = f
      BY <2>3 DEF Times, Never
    <3> QED  BY <2>1, <2>3, <3>1 DEF Ahead
  <2> QED  BY <2>2, <2>3 DEF r
<1> QED  BY <1>1, <1>2

\* SameFor is reflexive and transitive.
LEMMA SameForTransitive ==
    ASSUME NEW c, NEW q, NEW r, NEW s
    PROVE  SameFor(c, q, q) /\ (SameFor(c, q, r) /\ SameFor(c, r, s) => SameFor(c, q, s))
<1>1. SameFor(c, q, q)
  BY DEF SameFor
<1>2. ASSUME SameFor(c, q, r), SameFor(c, r, s) PROVE SameFor(c, q, s)
  BY <1>2 DEF SameFor
<1> QED  BY <1>1, <1>2

\* Functors of other connections are added.
LEMMA SameForConcat ==
    ASSUME NEW c, NEW q \in Seq(Functors), NEW d \in Seq(Functors),
           \A i \in DOMAIN d : d[i].c # c
    PROVE  SameFor(c, q, q \o d)
<1>1. \A f \in {Est(c), Des(c), Rem(c)} : Never(d, f)
  BY DEF Never, Functor, Est, Des, Rem
<1>2. \A f \in {Est(c), Des(c), Rem(c)} : Times(q \o d, f) = Times(q, f)
  BY <1>1, TimesConcat
<1>3. Ahead(q, Est(c), Des(c)) => Ahead(q \o d, Est(c), Des(c))
  BY <1>1, AheadKept
<1>4. \A i \in DOMAIN (q \o d) : (q \o d)[i].c = c => \E j \in DOMAIN q : q[j] = (q \o d)[i]
  <2> SUFFICES ASSUME NEW i \in DOMAIN (q \o d), (q \o d)[i].c = c
               PROVE  \E j \in DOMAIN q : q[j] = (q \o d)[i]
    OBVIOUS
  <2>1. i \in DOMAIN q /\ (q \o d)[i] = q[i]
    BY QueueConcat
  <2> QED  BY <2>1
<1> QED  BY <1>2, <1>3, <1>4 DEF SameFor

\* A functor of another connection, or of a user, is taken away.
LEMMA SameForTail ==
    ASSUME NEW c, NEW q \in Seq(Functors), q # <<>>,
           Head(q).c # c \/ Head(q).op \in {"send_in_loop", "shut_down_in_loop"}
    PROVE  SameFor(c, q, Tail(q))
<1>1. \A f \in {Est(c), Des(c), Rem(c)} : Head(q) # f
  BY DEF Functor, Est, Des, Rem
<1>2. \A f \in {Est(c), Des(c), Rem(c)} : Times(Tail(q), f) = Times(q, f)
  BY <1>1, TimesTail
<1>3. Ahead(q, Est(c), Des(c)) => Ahead(Tail(q), Est(c), Des(c))
  BY AheadKept
<1>4. \A i \in DOMAIN Tail(q) : i + 1 \in DOMAIN q /\ q[i + 1] = Tail(q)[i]
  BY HeadTailProperties, EmptySeq
<1> QED  BY <1>2, <1>3, <1>4 DEF SameFor

-----------------------------------------------------------------------------
(* What is known of a connection c with record x.                          *)

\* The connection object exists.
Born(x) == x.peer \notin {"away", "backlog", "refused"}

\* Before ~Tcp_Server an established connection is in connections_; after it
\* connect_destroyed is queued once.
Held(c, d, map, cl) == IF cl > 0 THEN d = 1 /\ c \notin map ELSE d = 0 /\ c \in map

\* The phases of a regular connection, with e, d and r the numbers of
\* connect_established, connect_destroyed and remove_connection_in_loop that are
\* queued for it, map the server's map, and cl > 0 once ~Tcp_Server has begun.
Life(c, x, e, d, r, map, cl) ==
    \/ Fresh(x) /\ x.loop_ # Base /\ e = 1 /\ r = 0 /\ Held(c, d, map, cl)
    \/ Up(x) /\ e = 0 /\ r = 0 /\ Held(c, d, map, cl)
    \/ /\ Closed(x) /\ e = 0
       /\ d = (IF c \in map THEN 0 ELSE 1)
       /\ cl = 0 => r = (IF c \in map THEN 1 ELSE 0)
    \/ Removed(x) /\ e = 0 /\ d = 0 /\ c \notin map /\ (cl = 0 => r = 0)

\* ql is the queue of the loop of the connection, qb that of the base loop.
LifeOk(c, x, ql, qb, map, cl) ==
    Born(x) /\ Steady(x) =>
        /\ Life(c, x, Times(ql, Est(c)), Times(ql, Des(c)), Times(qb, Rem(c)), map, cl)
        /\ Ahead(ql, Est(c), Des(c))

\* Functors are queued where they belong, and users' functors only for connections
\* that were announced.
Placed(x, l, f) ==
    /\ Born(x)
    /\ l = (IF f.op = "remove_connection_in_loop" THEN Base ELSE x.loop_)
    /\ f.op \in {"send_in_loop", "shut_down_in_loop"} => x.ups > 0
QueueOk(c, x, l, q) == \A i \in DOMAIN q : q[i].c = c => Placed(x, l, q[i])

\* The callbacks that end a connection.
Ends(cbs) == {i \in DOMAIN cbs : cbs[i] \in {"read", "close"}}

\* Callbacks are only called on channels that are registered, and read and close
\* only on connections that are not closed.
EntryOk(x, l, e) ==
    /\ Born(x) /\ x.loop_ = l
    /\ Steady(x) => x.mapped /\ (Ends(e.cbs) # {} => x.polled)
TodoOk(c, x, l, t) == \A i \in DOMAIN t : t[i].c = c => EntryOk(x, l, t[i])

\* What a loop has still to run.
Queue(r) == r.functors \o r.pending

\* lp is the variable loop, us what the user's thread of the connection does.
ConnOk(c, x, lp, map, us, cl) ==
    /\ x.loop_ \in Loops /\ Stream(x)
    /\ ~Born(x) => Fresh(x) /\ c \notin map /\ us = "none"
    /\ us # "none" => x.ups > 0
    /\ \A l \in Loops : QueueOk(c, x, l, Queue(lp[l])) /\ TodoOk(c, x, l, lp[l].todo)
    /\ LifeOk(c, x, Queue(lp[x.loop_]), Queue(lp[Base]), map, cl)

\* The queues have the same functors of c, and its channel the same callbacks, or
\* some of them.
SameQueues(c, lp, lq) == \A l \in Loops : SameFor(c, Queue(lp[l]), Queue(lq[l]))
SameTodo(c, lp, lq) ==
    \A l \in Loops : \A i \in DOMAIN lq[l].todo : lq[l].todo[i].c = c =>
        \E j \in DOMAIN lp[l].todo : lp[l].todo[j] = lq[l].todo[i]
FewerTodo(c, lp, lq) ==
    \A l \in Loops : \A i \in DOMAIN lq[l].todo : lq[l].todo[i].c = c =>
        \E j \in DOMAIN lp[l].todo :
            /\ lp[l].todo[j].c = c
            /\ Ends(lq[l].todo[i].cbs) # {} => Ends(lp[l].todo[j].cbs) # {}

\* A connection that a step does not concern.
LEMMA Bystander ==
    ASSUME NEW c, NEW x, NEW lp, NEW lq, NEW map, NEW mp2, NEW us, NEW cl, NEW cl2,
           ConnOk(c, x, lp, map, us, cl),
           c \in map <=> c \in mp2,
           cl > 0 <=> cl2 > 0, cl = 0 <=> cl2 = 0,
           SameQueues(c, lp, lq), SameTodo(c, lp, lq)
    PROVE  ConnOk(c, x, lq, mp2, us, cl2)
<1>0. Base \in Loops /\ x.loop_ \in Loops
  BY ServerAssumption DEF ConnOk, Base, Loops
<1>1. \A l \in Loops : QueueOk(c, x, l, Queue(lq[l]))
  <2> SUFFICES ASSUME NEW l \in Loops PROVE QueueOk(c, x, l, Queue(lq[l]))
    OBVIOUS
  <2>1. QueueOk(c, x, l, Queue(lp[l]))
    BY DEF ConnOk
  <2>2. \A i \in DOMAIN Queue(lq[l]) : Queue(lq[l])[i].c = c =>
            \E j \in DOMAIN Queue(lp[l]) : Queue(lp[l])[j] = Queue(lq[l])[i]
    BY DEF SameFor, SameQueues
  <2> QED  BY <2>1, <2>2 DEF QueueOk
<1>2. \A l \in Loops : TodoOk(c, x, l, lq[l].todo)
  BY DEF ConnOk, TodoOk, SameTodo
<1>3. LifeOk(c, x, Queue(lq[x.loop_]), Queue(lq[Base]), mp2, cl2)
  <2> DEFINE ql == Queue(lp[x.loop_])
             qb == Queue(lp[Base])
             rl == Queue(lq[x.loop_])
             rb == Queue(lq[Base])
  <2>1. SameFor(c, ql, rl) /\ SameFor(c, qb, rb)
    BY <1>0 DEF SameQueues
  <2>2. LifeOk(c, x, ql, qb, map, cl)
    BY DEF ConnOk
  <2> HIDE DEF ql, qb, rl, rb
  <2>3. /\ Times(rl, Est(c)) = Times(ql, Est(c)) /\ Times(rl, Des(c)) = Times(ql, Des(c))
        /\ Times(rb, Rem(c)) = Times(qb, Rem(c))
        /\ Ahead(ql, Est(c), Des(c)) => Ahead(rl, Est(c), Des(c))
    BY <2>1 DEF SameFor
  <2>4. ASSUME NEW e, NEW d, NEW r, Life(c, x, e, d, r, map, cl)
        PROVE  Life(c, x, e, d, r, mp2, cl2)
    BY <2>4 DEF Life, Held
  <2>5. LifeOk(c, x, rl, rb, mp2, cl2)
    BY <2>2, <2>3, <2>4 DEF LifeOk
  <2> QED  BY <2>5 DEF rl, rb
<1> QED  BY <1>1, <1>2, <1>3 DEF ConnOk

-----------------------------------------------------------------------------
(* The loops.                                                              *)

Callbacks == {"close", "error", "read", "write"}
Entries == [c : Conns \cup {"acceptor"}, cbs : Seq(Callbacks)]
LoopRecs == [at : {"poll", "events", "functors", "exited"}, todo : Seq(Entries),
             functors : Seq(Functors), pending : Seq(Functors), quit_ : BOOLEAN]

\* The list of active channels: each channel once, and with something to call.
TodoShape(l, t) ==
    /\ \A i \in DOMAIN t : /\ t[i].cbs # <<>>
                           /\ \A a, b \in Ends(t[i].cbs) : a = b
                           /\ t[i].c = "acceptor" => l = Base
    /\ \A i, j \in DOMAIN t : t[i].c = t[j].c => i = j

LoopOk(l, r) ==
    /\ r \in LoopRecs
    /\ r.at # "events" => r.todo = <<>>
    /\ r.at # "functors" => r.functors = <<>>
    /\ TodoShape(l, r.todo)

LoopsOk(lp, cl) ==
    /\ lp = [l \in Loops |-> lp[l]]
    /\ \A l \in Loops : LoopOk(l, lp[l])
    /\ cl > 0 => lp[Base].at = "exited"

\* The types of the queues.
LEMMA QueueType ==
    ASSUME NEW lp, NEW cl, LoopsOk(lp, cl), NEW l \in Loops
    PROVE  /\ lp[l] \in LoopRecs /\ lp[l].todo \in Seq(Entries)
           /\ lp[l].functors \in Seq(Functors) /\ lp[l].pending \in Seq(Functors)
           /\ Queue(lp[l]) \in Seq(Functors)
<1>1. lp[l] \in LoopRecs
  BY DEF LoopsOk, LoopOk
<1>2. lp[l].functors \in Seq(Functors) /\ lp[l].pending \in Seq(Functors)
  BY <1>1 DEF LoopRecs
<1>3. Queue(lp[l]) \in Seq(Functors)
  BY <1>2, ConcatProperties DEF Queue
<1> QED  BY <1>1, <1>2, <1>3 DEF LoopRecs

\* Queues one behind the other.
LEMMA QueueAssociative ==
    ASSUME NEW s \in Seq(Functors), NEW t \in Seq(Functors), NEW u \in Seq(Functors)
    PROVE  (s \o t) \o u = s \o (t \o u)
  BY ConcatAssociative

\* A queue of one functor.
LEMMA Singleton ==
    ASSUME NEW f \in Functors
    PROVE  /\ <<f>> \in Seq(Functors) /\ DOMAIN <<f>> = {1} /\ <<f>>[1] = f
           /\ Once(<<f>>, f) /\ \A g : g # f => Never(<<f>>, g)
<1>1. <<f>> \in Seq(Functors) /\ DOMAIN <<f>> = {1} /\ <<f>>[1] = f
  OBVIOUS
<1> QED  BY <1>1 DEF Once, Never

\* queue_in_loop.
LEMMA LoopQueues ==
    ASSUME NEW lp, NEW cl, LoopsOk(lp, cl), NEW l \in Loops, NEW f \in Functors
    PROVE  LET lq == queue_in_loop(lp, l, f)
           IN  /\ LoopsOk(lq, cl)
               /\ Queue(lq[l]) = Queue(lp[l]) \o <<f>>
               /\ \A k \in Loops : k # l => Queue(lq[k]) = Queue(lp[k])
               /\ \A k \in Loops : lq[k].todo = lp[k].todo
<1> DEFINE p == Append(lp[l].pending, f)
           lq == queue_in_loop(lp, l, f)
<1>1. /\ lp[l] \in LoopRecs /\ lp[l].functors \in Seq(Functors)
      /\ lp[l].pending \in Seq(Functors)
  BY QueueType
<1>2. p \in Seq(Functors) /\ p = lp[l].pending \o <<f>>
  BY <1>1, AppendIsConcat, SMTT(30)
<1>3. lq = [k \in Loops |-> IF k = l THEN [lp[l] EXCEPT !.pending = p] ELSE lp[k]]
  BY DEF queue_in_loop, LoopsOk
<1> HIDE DEF p, lq
<1>4. /\ lq[l] \in LoopRecs /\ lq[l].at = lp[l].at /\ lq[l].todo = lp[l].todo
      /\ lq[l].functors = lp[l].functors /\ lq[l].pending = p
  BY <1>1, <1>2, <1>3 DEF LoopRecs
<1>5. \A k \in Loops : k # l => lq[k] = lp[k]
  BY <1>3
<1>6. Queue(lq[l]) = Queue(lp[l]) \o <<f>>
  <2> DEFINE o == <<f>>
  <2>1. o \in Seq(Functors)
    BY Singleton
  <2>2. Queue(lq[l]) = lp[l].functors \o (lp[l].pending \o o)
    BY <1>2, <1>4 DEF Queue
  <2> HIDE DEF o
  <2>3. (lp[l].functors \o lp[l].pending) \o o = lp[l].functors \o (lp[l].pending \o o)
    BY <1>1, <2>1, QueueAssociative
  <2>4. Queue(lq[l]) = Queue(lp[l]) \o o
    BY <2>2, <2>3 DEF Queue
  <2> QED  BY <2>4 DEF o
<1>7. \A k \in Loops : k # l => Queue(lq[k]) = Queue(lp[k])
  BY <1>5
<1>8. LoopsOk(lq, cl)
  <2>1. LoopOk(l, lq[l])
    BY <1>4 DEF LoopsOk, LoopOk
  <2>2. \A k \in Loops : LoopOk(k, lq[k])
    BY <1>5, <2>1 DEF LoopsOk
  <2>3. cl > 0 => lq[Base].at = "exited"
    <3>1. Base \in Loops
      BY ServerAssumption DEF Base, Loops
    <3> QED  BY <1>4, <1>5, <3>1 DEF LoopsOk
  <2>4. lq = [k \in Loops |-> lq[k]]
    BY <1>3
  <2> QED  BY <2>2, <2>3, <2>4 DEF LoopsOk
<1>9. \A k \in Loops : lq[k].todo = lp[k].todo
  BY <1>4, <1>5
<1> QED  BY <1>6, <1>7, <1>8, <1>9 DEF lq

\* The next functor is taken.
LEMMA LoopTakes ==
    ASSUME NEW lp, NEW cl, LoopsOk(lp, cl), NEW l \in Loops,
           lp[l].at = "functors", lp[l].functors # <<>>
    PROVE  LET lq == [lp EXCEPT ![l].functors = Tail(@)]
               f == Head(lp[l].functors)
           IN  /\ LoopsOk(lq, cl) /\ f \in Functors
               /\ Queue(lp[l]) # <<>> /\ Head(Queue(lp[l])) = f
               /\ Queue(lq[l]) = Tail(Queue(lp[l]))
               /\ \A k \in Loops : k # l => Queue(lq[k]) = Queue(lp[k])
               /\ \A k \in Loops : lq[k].todo = lp[k].todo
               /\ lp[l].todo = <<>>
<1> DEFINE t == Tail(lp[l].functors)
           f == Head(lp[l].functors)
           lq == [lp EXCEPT ![l].functors = Tail(@)]
<1>1. /\ lp[l] \in LoopRecs /\ lp[l].functors \in Seq(Functors)
      /\ lp[l].pending \in Seq(Functors)
  BY QueueType
<1>2. t \in Seq(Functors) /\ f \in Functors /\ lp[l].functors = <<f>> \o t
  BY <1>1, HeadTailProperties
<1>3. lq = [k \in Loops |-> IF k = l THEN [lp[l] EXCEPT !.functors = t] ELSE lp[k]]
  BY DEF LoopsOk
<1> HIDE DEF t, lq, f
<1>4. /\ lq[l] \in LoopRecs /\ lq[l].at = lp[l].at /\ lq[l].todo = lp[l].todo
      /\ lq[l].functors = t /\ lq[l].pending = lp[l].pending
  BY <1>1, <1>2, <1>3 DEF LoopRecs
<1>5. \A k \in Loops : k # l => lq[k] = lp[k]
  BY <1>3
<1>6. t \o lp[l].pending \in Seq(Functors)
  BY <1>1, <1>2, ConcatProperties
<1>7. Queue(lp[l]) = <<f>> \o (t \o lp[l].pending)
  <2> DEFINE o == <<f>>
  <2>1. o \in Seq(Functors) /\ Queue(lp[l]) = (o \o t) \o lp[l].pending
    BY <1>2, Singleton DEF Queue
  <2> HIDE DEF o
  <2>2. (o \o t) \o lp[l].pending = o \o (t \o lp[l].pending)
    BY <1>1, <1>2, <2>1, QueueAssociative
  <2>3. Queue(lp[l]) = o \o (t \o lp[l].pending)
    BY <2>1, <2>2
  <2> QED  BY <2>3 DEF o
<1>8. /\ Queue(lp[l]) # <<>> /\ Head(Queue(lp[l])) = f
      /\ Tail(Queue(lp[l])) = t \o lp[l].pending
  <2> DEFINE s == t \o lp[l].pending
  <2>1. s \in Seq(Functors)
    BY <1>6
  <2> HIDE DEF s
  <2>2. <<f>> \o s # <<>> /\ Head(<<f>> \o s) = f /\ Tail(<<f>> \o s) = s
    BY <1>2, <2>1
  <2> QED  BY <1>7, <2>2 DEF s
<1>9. Queue(lq[l]) = Tail(Queue(lp[l]))
  BY <1>4, <1>8 DEF Queue
<1>10. LoopsOk(lq, cl)
  <2>1. LoopOk(l, lq[l])
    BY <1>4 DEF LoopsOk, LoopOk
  <2>2. \A k \in Loops : LoopOk(k, lq[k])
    BY <1>5, <2>1 DEF LoopsOk
  <2>3. cl > 0 => lq[Base].at = "exited"
    <3>1. Base \in Loops
      BY ServerAssumption DEF Base, Loops
    <3> QED  BY <1>4, <1>5, <3>1 DEF LoopsOk
  <2>4. lq = [k \in Loops |-> lq[k]]
    BY <1>3
  <2> QED  BY <2>2, <2>3, <2>4 DEF LoopsOk
<1>11. lp[l].todo = <<>>
  BY DEF LoopsOk, LoopOk
<1>12. /\ \A k \in Loops : k # l => Queue(lq[k]) = Queue(lp[k])
       /\ \A k \in Loops : lq[k].todo = lp[k].todo
  BY <1>4, <1>5
<1> QED  BY <1>2, <1>8, <1>9, <1>10, <1>11, <1>12 DEF lq, f

\* What is left to call on a channel after its first callback.
LEMMA CallbacksLeft ==
    ASSUME NEW cbs \in Seq(Callbacks), cbs # <<>>, \A a, b \in Ends(cbs) : a = b
    PROVE  /\ Tail(cbs) \in Seq(Callbacks) /\ Head(cbs) \in Callbacks
           /\ \A a, b \in Ends(Tail(cbs)) : a = b
           /\ Ends(Tail(cbs)) # {} => Ends(cbs) # {}
           /\ Head(cbs) \in {"read", "close"} => Ends(cbs) # {} /\ Ends(Tail(cbs)) = {}
<1> DEFINE r == Tail(cbs)
<1>1. /\ r \in Seq(Callbacks) /\ Head(cbs) \in Callbacks /\ Head(cbs) = cbs[1] /\ 1 \in DOMAIN cbs
      /\ \A i \in DOMAIN r : i \in Nat /\ i # 0 /\ i + 1 \in DOMAIN cbs /\ r[i] = cbs[i + 1]
  BY HeadTailProperties, EmptySeq
<1> HIDE DEF r
<1>2. \A a \in Ends(r) : a + 1 \in Ends(cbs) /\ a \in Nat /\ a # 0
  BY <1>1 DEF Ends
<1>3. \A a, b \in Ends(r) : a = b
  BY <1>2
<1>4. Ends(r) # {} => Ends(cbs) # {}
  BY <1>2
<1>5. ASSUME Head(cbs) \in {"read", "close"} PROVE Ends(cbs) # {} /\ Ends(r) = {}
  <2>1. 1 \in Ends(cbs)
    BY <1>1, <1>5 DEF Ends
  <2>2. ASSUME NEW a \in Ends(r) PROVE FALSE
    BY <1>2, <2>1
  <2> QED  BY <2>1, <2>2
<1> QED  BY <1>1, <1>3, <1>4, <1>5 DEF r

\* The list of active channels after the first callback of the first of them.
After(t) ==
    LET rest == Tail(Head(t).cbs)
    IN  IF rest = <<>> THEN Tail(t) ELSE <<[c |-> Head(t).c, cbs |-> rest]>> \o Tail(t)

\* Where the elements of After(t) come from.
LEMMA AfterElements ==
    ASSUME NEW t \in Seq(Entries), t # <<>>, NEW l, TodoShape(l, t)
    PROVE  /\ After(t) \in Seq(Entries)
           /\ Head(t) \in Entries /\ 1 \in DOMAIN t /\ Head(t) = t[1]
           /\ \A i \in DOMAIN After(t) :
                \/ \E j \in DOMAIN t : t[j] = After(t)[i] /\ t[j].c # Head(t).c
                \/ After(t)[i].c = Head(t).c /\ After(t)[i].cbs = Tail(Head(t).cbs)
           /\ TodoShape(l, After(t))
<1> DEFINE h == Head(t)
           u == Tail(t)
           rest == Tail(h.cbs)
           e == [c |-> h.c, cbs |-> rest]
           v == After(t)
<1>1. /\ h \in Entries /\ u \in Seq(Entries) /\ h = t[1] /\ 1 \in DOMAIN t
      /\ DOMAIN u = 1 .. Len(u) /\ Len(u) \in Nat
      /\ \A i \in DOMAIN u : i \in Nat /\ i # 0 /\ i + 1 \in DOMAIN t /\ u[i] = t[i + 1]
  BY HeadTailProperties, EmptySeq, LenProperties
<1>2. h.cbs \in Seq(Callbacks) /\ h.cbs # <<>> /\ (\A a, b \in Ends(h.cbs) : a = b)
      /\ (h.c = "acceptor" => l = Base) /\ h.c \in Conns \cup {"acceptor"}
  BY <1>1 DEF TodoShape, Entries
<1>3. rest \in Seq(Callbacks) /\ \A a, b \in Ends(rest) : a = b
  BY <1>2, CallbacksLeft
<1>4. v = IF rest = <<>> THEN u ELSE <<e>> \o u
  BY DEF After
<1>5. \A i \in DOMAIN u : u[i].c # h.c
  BY <1>1 DEF TodoShape
<1> HIDE DEF h, u, rest, v
<1>6. e \in Entries /\ e.c = h.c /\ e.cbs = rest
  BY <1>2, <1>3 DEF Entries
<1> HIDE DEF e
<1>7. \A i, j \in DOMAIN u : u[i].c = u[j].c => i = j
  <2> SUFFICES ASSUME NEW i \in DOMAIN u, NEW j \in DOMAIN u, u[i].c = u[j].c PROVE i = j
    OBVIOUS
  <2>1. i + 1 = j + 1
    BY <1>1 DEF TodoShape
  <2> QED  BY <1>1, <2>1
<1>8. \A i \in DOMAIN u : \E j \in DOMAIN t : t[j] = u[i] /\ t[j].c # h.c
  BY <1>1, <1>5
<1>9. CASE rest = <<>>
  <2>1. v = u
    BY <1>4, <1>9
  <2>2. TodoShape(l, u)
    <3>1. ASSUME NEW i \in DOMAIN u
          PROVE  /\ u[i].cbs # <<>> /\ (\A a, b \in Ends(u[i].cbs) : a = b)
                 /\ (u[i].c = "acceptor" => l = Base)
      <4>1. PICK j \in DOMAIN t : t[j] = u[i]
        BY <1>8
      <4> QED  BY <4>1 DEF TodoShape
    <3> QED  BY <1>7, <3>1 DEF TodoShape
  <2> QED  BY <1>1, <1>8, <2>1, <2>2 DEF h, v, u
<1>10. CASE rest # <<>>
  <2>1. v = <<e>> \o u
    BY <1>4, <1>10
  <2>2. /\ v \in Seq(Entries) /\ v[1] = e /\ DOMAIN v = 1 .. Len(u) + 1
        /\ \A i \in DOMAIN v : i # 1 => i - 1 \in DOMAIN u /\ v[i] = u[i - 1]
    <3> DEFINE o == <<e>>
    <3>1. o \in Seq(Entries) /\ Len(o) = 1 /\ o[1] = e
      BY <1>6
    <3>u. u \in Seq(Entries) /\ Len(u) \in Nat
      BY <1>1
    <3> HIDE DEF o
    <3>c. /\ o \o u \in Seq(Entries) /\ Len(o \o u) = Len(o) + Len(u)
          /\ \A i \in 1 .. Len(o) + Len(u) :
                (o \o u)[i] = IF i <= Len(o) THEN o[i] ELSE u[i - Len(o)]
      BY <3>1, <3>u, ConcatProperties
    <3>2. /\ o \o u \in Seq(Entries) /\ Len(o \o u) = 1 + Len(u)
          /\ \A i \in 1 .. 1 + Len(u) : (o \o u)[i] = IF i <= 1 THEN o[i] ELSE u[i - 1]
      BY <3>1, <3>u, <3>c
    <3>3. v = o \o u
      BY <2>1 DEF o
    <3> QED  BY <1>1, <3>1, <3>2, <3>3
  <2>3. \A i \in DOMAIN v :
            \/ \E j \in DOMAIN t : t[j] = v[i] /\ t[j].c # h.c
            \/ v[i].c = h.c /\ v[i].cbs = rest
    BY <1>6, <1>8, <2>2
  <2>4. ASSUME NEW i \in DOMAIN v
        PROVE  /\ v[i].cbs # <<>> /\ (\A a, b \in Ends(v[i].cbs) : a = b)
               /\ (v[i].c = "acceptor" => l = Base)
    <3>1. CASE i = 1
      BY <1>2, <1>3, <1>6, <1>10, <2>2, <3>1
    <3>2. CASE i # 1
      <4>1. PICK j \in DOMAIN t : t[j] = v[i]
        BY <1>8, <2>2, <3>2
      <4> QED  BY <4>1 DEF TodoShape
    <3> QED  BY <3>1, <3>2
  <2>5. ASSUME NEW i \in DOMAIN v, NEW j \in DOMAIN v, v[i].c = v[j].c PROVE i = j
    <3>1. CASE i = 1 \/ j = 1
      BY <1>5, <1>6, <2>2, <2>5, <3>1
    <3>2. CASE i # 1 /\ j # 1
      <4>1. i - 1 = j - 1
        BY <1>7, <2>2, <2>5, <3>2
      <4>2. i \in Nat /\ j \in Nat
        BY <1>1, <2>2
      <4> QED  BY <4>1, <4>2
    <3> QED  BY <3>1, <3>2
  <2>6. TodoShape(l, v)
    BY <2>4, <2>5 DEF TodoShape
  <2> QED  BY <1>1, <2>2, <2>3, <2>6 DEF h, v, rest
<1> QED  BY <1>9, <1>10

\* A callback of the first active channel is made.
LEMMA LoopPops ==
    ASSUME NEW lp, NEW cl, LoopsOk(lp, cl), NEW l \in Loops,
           lp[l].at = "events", lp[l].todo # <<>>
    PROVE  LET h == Head(lp[l].todo)
               lq == [lp EXCEPT ![l].todo = After(@)]
           IN  /\ LoopsOk(lq, cl)
               /\ h \in Entries /\ 1 \in DOMAIN lp[l].todo /\ h = lp[l].todo[1]
               /\ h.cbs # <<>> /\ (\A a, b \in Ends(h.cbs) : a = b)
               /\ h.c = "acceptor" => l = Base
               /\ \A k \in Loops : Queue(lq[k]) = Queue(lp[k])
               /\ \A k \in Loops : k # l => lq[k].todo = lp[k].todo
               /\ \A i \in DOMAIN lq[l].todo :
                    \/ \E j \in DOMAIN lp[l].todo :
                         lp[l].todo[j] = lq[l].todo[i] /\ lp[l].todo[j].c # h.c
                    \/ lq[l].todo[i].c = h.c /\ lq[l].todo[i].cbs = Tail(h.cbs)
<1> DEFINE h == Head(lp[l].todo)
           t == After(lp[l].todo)
           lq == [lp EXCEPT ![l].todo = After(@)]
<1>1. lp[l] \in LoopRecs /\ lp[l].todo \in Seq(Entries) /\ TodoShape(l, lp[l].todo)
  BY QueueType DEF LoopsOk, LoopOk
<1>2. /\ t \in Seq(Entries) /\ h \in Entries /\ 1 \in DOMAIN lp[l].todo /\ h = lp[l].todo[1]
      /\ \A i \in DOMAIN t :
            \/ \E j \in DOMAIN lp[l].todo : lp[l].todo[j] = t[i] /\ lp[l].todo[j].c # h.c
            \/ t[i].c = h.c /\ t[i].cbs = Tail(h.cbs)
      /\ TodoShape(l, t)
  BY <1>1, AfterElements
<1>3. lq = [k \in Loops |-> IF k = l THEN [lp[l] EXCEPT !.todo = t] ELSE lp[k]]
  BY DEF LoopsOk
<1> HIDE DEF t, lq, h
<1>4. /\ lq[l] \in LoopRecs /\ lq[l].at = lp[l].at /\ lq[l].todo = t
      /\ lq[l].functors = lp[l].functors /\ lq[l].pending = lp[l].pending
  BY <1>1, <1>2, <1>3 DEF LoopRecs
<1>5. \A k \in Loops : k # l => lq[k] = lp[k]
  BY <1>3
<1>6. \A k \in Loops : Queue(lq[k]) = Queue(lp[k])
  BY <1>4, <1>5 DEF Queue
<1>7. LoopsOk(lq, cl)
  <2>1. LoopOk(l, lq[l])
    BY <1>2, <1>4 DEF LoopsOk, LoopOk
  <2>2. \A k \in Loops : LoopOk(k, lq[k])
    BY <1>5, <2>1 DEF LoopsOk
  <2>3. cl > 0 => lq[Base].at = "exited"
    <3>1. Base \in Loops
      BY ServerAssumption DEF Base, Loops
    <3> QED  BY <1>4, <1>5, <3>1 DEF LoopsOk
  <2>4. lq = [k \in Loops |-> lq[k]]
    BY <1>3
  <2> QED  BY <2>2, <2>3, <2>4 DEF LoopsOk
<1>8. h.cbs # <<>> /\ (\A a, b \in Ends(h.cbs) : a = b) /\ (h.c = "acceptor" => l = Base)
  BY <1>1, <1>2 DEF TodoShape
<1> QED  BY <1>2, <1>4, <1>5, <1>6, <1>7, <1>8 DEF lq, h

-----------------------------------------------------------------------------
(* What the steps do to the connection they are about.                     *)

\* The connection goes on in its phase: send_in_loop, shut_down_in_loop, the
\* exchange of state_, and the callbacks that do not close it.
LEMMA OwnKeeps ==
    ASSUME NEW c, NEW x \in Conn, NEW y \in Conn, NEW lp, NEW lq, NEW map, NEW us, NEW us2, NEW cl,
           ConnOk(c, x, lp, map, us, cl), Born(x), Keeps(x, y),
           Steady(x) => ~Fresh(x),
           us2 # "none" => y.ups > 0,
           SameQueues(c, lp, lq), FewerTodo(c, lp, lq)
    PROVE  ConnOk(c, y, lq, map, us2, cl)
<1>0. Base \in Loops /\ x.loop_ \in Loops
  BY ServerAssumption DEF ConnOk, Base, Loops
<1>1. /\ y.loop_ = x.loop_ /\ Born(y) /\ x.ups <= y.ups /\ Stream(y) /\ (Steady(y) => Steady(x))
      /\ x.ups \in Nat /\ y.ups \in Nat
  BY DEF Keeps, Evolves, Born, Steady, ConnOk, Conn
<1>2. ASSUME Steady(y)
      PROVE  /\ (Up(x) /\ Up(y)) \/ (Closed(x) /\ Closed(y)) \/ (Removed(x) /\ Removed(y))
             /\ LifeOk(c, x, Queue(lp[x.loop_]), Queue(lp[Base]), map, cl)
  <2>1. LifeOk(c, x, Queue(lp[x.loop_]), Queue(lp[Base]), map, cl)
    BY DEF ConnOk
  <2>2. Steady(x) /\ ~Fresh(x)
    BY <1>1, <1>2
  <2>3. Up(x) \/ Closed(x) \/ Removed(x)
    BY <2>1, <2>2 DEF LifeOk, Life
  <2>4. (Up(x) => Up(y)) /\ (Closed(x) => Closed(y)) /\ (Removed(x) => Removed(y))
    BY <1>2 DEF Keeps
  <2> QED  BY <2>1, <2>3, <2>4
<1>3. \A l \in Loops : QueueOk(c, y, l, Queue(lq[l]))
  <2> SUFFICES ASSUME NEW l \in Loops PROVE QueueOk(c, y, l, Queue(lq[l]))
    OBVIOUS
  <2>1. QueueOk(c, x, l, Queue(lp[l]))
    BY DEF ConnOk
  <2>2. \A i \in DOMAIN Queue(lq[l]) : Queue(lq[l])[i].c = c =>
            \E j \in DOMAIN Queue(lp[l]) : Queue(lp[l])[j] = Queue(lq[l])[i]
    BY DEF SameFor, SameQueues
  <2>3. x.ups > 0 => y.ups > 0
    BY <1>1
  <2> QED  BY <1>1, <2>1, <2>2, <2>3 DEF QueueOk, Placed
<1>4. ASSUME NEW l \in Loops, NEW i \in DOMAIN lq[l].todo, lq[l].todo[i].c = c
      PROVE  EntryOk(y, l, lq[l].todo[i])
  <2>1. PICK j \in DOMAIN lp[l].todo :
            /\ lp[l].todo[j].c = c
            /\ Ends(lq[l].todo[i].cbs) # {} => Ends(lp[l].todo[j].cbs) # {}
    BY <1>4 DEF FewerTodo
  <2>2. EntryOk(x, l, lp[l].todo[j])
    BY <2>1 DEF ConnOk, TodoOk
  <2>3. Steady(y) => y.mapped /\ (Ends(lq[l].todo[i].cbs) # {} => y.polled)
    BY <1>1, <1>2, <2>1, <2>2 DEF EntryOk, Up, Closed, Removed
  <2> QED  BY <1>1, <2>2, <2>3 DEF EntryOk
<1>5. LifeOk(c, y, Queue(lq[y.loop_]), Queue(lq[Base]), map, cl)
  <2> DEFINE ql == Queue(lp[x.loop_])
             qb == Queue(lp[Base])
             rl == Queue(lq[x.loop_])
             rb == Queue(lq[Base])
  <2>1. SameFor(c, ql, rl) /\ SameFor(c, qb, rb)
    BY <1>0 DEF SameQueues
  <2>2. Steady(y) => Steady(x) /\ LifeOk(c, x, ql, qb, map, cl)
    BY <1>1, <1>2
  <2> HIDE DEF ql, qb, rl, rb
  <2>3. /\ Times(rl, Est(c)) = Times(ql, Est(c)) /\ Times(rl, Des(c)) = Times(ql, Des(c))
        /\ Times(rb, Rem(c)) = Times(qb, Rem(c))
        /\ Ahead(ql, Est(c), Des(c)) => Ahead(rl, Est(c), Des(c))
    BY <2>1 DEF SameFor
  <2>4. ASSUME NEW e, NEW d, NEW r, Life(c, x, e, d, r, map, cl), Steady(y)
        PROVE  Life(c, y, e, d, r, map, cl)
    <3>1. CASE Up(x) /\ Up(y)
      BY <2>4, <3>1 DEF Life, Up, Closed, Removed, Fresh
    <3>2. CASE Closed(x) /\ Closed(y)
      BY <2>4, <3>2 DEF Life, Up, Closed, Removed, Fresh
    <3>3. CASE Removed(x) /\ Removed(y)
      BY <2>4, <3>3 DEF Life, Up, Closed, Removed, Fresh
    <3> QED  BY <1>2, <2>4, <3>1, <3>2, <3>3
  <2>5. LifeOk(c, y, rl, rb, map, cl)
    BY <2>2, <2>3, <2>4 DEF LifeOk
  <2> QED  BY <1>1, <2>5 DEF rl, rb
<1> QED  BY <1>0, <1>1, <1>3, <1>4, <1>5 DEF ConnOk, TodoOk

\* y is x but for what the kernel keeps of the socket and for counters.
KernelStep(x, y) ==
    /\ SameButData([x EXCEPT !.peer = y.peer], y)
    /\ y.wire = x.wire /\ y.output_buffer_ = x.output_buffer_ /\ y.accepted = x.accepted
    /\ Born(y) <=> Born(x)
    /\ x.peer = "rst" => y.peer = "rst"

\* Steps of the peer, and the first half of send() on a user's thread.
LEMMA OwnKernel ==
    ASSUME NEW c, NEW x \in Conn, NEW y \in Conn, NEW lp, NEW map, NEW us, NEW us2, NEW cl,
           ConnOk(c, x, lp, map, us, cl), KernelStep(x, y), us2 # "none" => us # "none"
    PROVE  ConnOk(c, y, lp, map, us2, cl)
<1>1. /\ y.events = x.events /\ y.index = x.index /\ y.mapped = x.mapped
      /\ y.polled = x.polled /\ y.interest = x.interest /\ y.failed = x.failed
      /\ y.loop_ = x.loop_ /\ y.state_ = x.state_ /\ y.ups = x.ups /\ y.downs = x.downs
      /\ y.late = x.late /\ y.condemned = x.condemned /\ y.wrshut = x.wrshut
  BY DEF KernelStep, SameButData, Conn
<1>2. /\ y.wire = x.wire /\ y.output_buffer_ = x.output_buffer_ /\ y.accepted = x.accepted
      /\ (Born(y) <=> Born(x)) /\ (x.peer = "rst" => y.peer = "rst")
  BY DEF KernelStep
<1>3. /\ Fresh(x) <=> Fresh(y)
      /\ Up(x) <=> Up(y)
      /\ Closed(x) <=> Closed(y)
      /\ Removed(x) <=> Removed(y)
      /\ Steady(x) <=> Steady(y)
  BY <1>1, <1>2 DEF Fresh, Up, Closed, Removed, Steady
<1>4. Stream(y)
  BY <1>1, <1>2 DEF ConnOk, Stream, Broken
<1>5. LifeOk(c, y, Queue(lp[y.loop_]), Queue(lp[Base]), map, cl)
  <2>1. ASSUME NEW e, NEW d, NEW r, Life(c, x, e, d, r, map, cl) PROVE Life(c, y, e, d, r, map, cl)
    BY <1>1, <1>3, <2>1 DEF Life
  <2> QED  BY <1>1, <1>2, <1>3, <2>1 DEF ConnOk, LifeOk
<1>6. \A l \in Loops : QueueOk(c, y, l, Queue(lp[l]))
  BY <1>1, <1>2 DEF ConnOk, QueueOk, Placed
<1>7. \A l \in Loops : TodoOk(c, y, l, lp[l].todo)
  BY <1>1, <1>2, <1>3 DEF ConnOk, TodoOk, EntryOk
<1> QED  BY <1>1, <1>2, <1>3, <1>4, <1>5, <1>6, <1>7 DEF ConnOk

\* A functor that is not queued is ahead of everything, and the elements of a tail
\* were in the queue.
LEMMA QueueFacts ==
    ASSUME NEW q \in Seq(Functors)
    PROVE  /\ \A f, g : Times(q, f) = 0 => Ahead(q, f, g)
           /\ q # <<>> => \A i \in DOMAIN Tail(q) : \E j \in DOMAIN q : q[j] = Tail(q)[i]
           /\ q # <<>> => 1 \in DOMAIN q /\ q[1] = Head(q)
<1>1. \A f, g : Times(q, f) = 0 => Ahead(q, f, g)
  <2> SUFFICES ASSUME NEW f, NEW g, Times(q, f) = 0 PROVE Ahead(q, f, g)
    OBVIOUS
  <2>1. Never(q, f)
    BY DEF Times
  <2> QED  BY <2>1 DEF Never, Ahead
<1>2. ASSUME q # <<>>
      PROVE  \A i \in DOMAIN Tail(q) : \E j \in DOMAIN q : q[j] = Tail(q)[i]
  <2>1. \A i \in DOMAIN Tail(q) : i + 1 \in DOMAIN q /\ q[i + 1] = Tail(q)[i]
    BY <1>2, HeadTailProperties, EmptySeq
  <2> QED  BY <2>1
<1>3. q # <<>> => 1 \in DOMAIN q /\ q[1] = Head(q)
  BY HeadTailProperties, EmptySeq
<1> QED  BY <1>1, <1>2, <1>3

\* One functor is appended.
LEMMA QueueGrows ==
    ASSUME NEW q \in Seq(Functors), NEW f \in Functors
    PROVE  /\ q \o <<f>> \in Seq(Functors)
           /\ \A g : g # f => Times(q \o <<f>>, g) = Times(q, g)
           /\ Times(q, f) = 0 => Times(q \o <<f>>, f) = 1
           /\ \A i \in DOMAIN (q \o <<f>>) :
                (\E j \in DOMAIN q : q[j] = (q \o <<f>>)[i]) \/ (q \o <<f>>)[i] = f
           /\ \A g, h : g # f /\ Ahead(q, g, h) => Ahead(q \o <<f>>, g, h)
<1> DEFINE o == <<f>>
<1>1. /\ o \in Seq(Functors) /\ DOMAIN o = {1} /\ o[1] = f /\ Once(o, f)
      /\ \A g : g # f => Never(o, g)
  BY Singleton
<1> HIDE DEF o
<1>2. /\ q \o o \in Seq(Functors)
      /\ \A i \in DOMAIN q : (q \o o)[i] = q[i]
      /\ \A k \in DOMAIN (q \o o) :
            k \notin DOMAIN q => k - Len(q) \in DOMAIN o /\ (q \o o)[k] = o[k - Len(q)]
  BY <1>1, QueueConcat
<1>3. \A i \in DOMAIN (q \o o) : (\E j \in DOMAIN q : q[j] = (q \o o)[i]) \/ (q \o o)[i] = f
  BY <1>1, <1>2
<1>4. \A g : g # f => Times(q \o o, g) = Times(q, g)
  BY <1>1, TimesConcat
<1>5. Times(q, f) = 0 => Times(q \o o, f) = 1
  BY <1>1, TimesAdded
<1>6. \A g, h : g # f /\ Ahead(q, g, h) => Ahead(q \o o, g, h)
  BY <1>1, AheadKept
<1> QED  BY <1>2, <1>3, <1>4, <1>5, <1>6 DEF o

\* The functors of c in lq were in lp or are new and where they belong; the
\* callbacks still to be made are as they should be.
QueuedWell(c, y, lp, lq) ==
    \A l \in Loops : \A i \in DOMAIN Queue(lq[l]) : Queue(lq[l])[i].c = c =>
        \/ \E j \in DOMAIN Queue(lp[l]) : Queue(lp[l])[j] = Queue(lq[l])[i]
        \/ Placed(y, l, Queue(lq[l])[i])
Todos(c, y, lq) == \A l \in Loops : TodoOk(c, y, l, lq[l].todo)

\* A step about a connection: what has to be shown of it.
LEMMA OwnStep ==
    ASSUME NEW c, NEW x \in Conn, NEW y \in Conn, NEW lp, NEW lq, NEW map, NEW mp2,
           NEW us, NEW us2, NEW cl, NEW cl2,
           ConnOk(c, x, lp, map, us, cl), Born(x), Evolves(x, y), us2 # "none" => y.ups > 0,
           QueuedWell(c, y, lp, lq), Todos(c, y, lq),
           LifeOk(c, y, Queue(lq[x.loop_]), Queue(lq[Base]), mp2, cl2)
    PROVE  ConnOk(c, y, lq, mp2, us2, cl2)
<1>1. x.ups \in Nat /\ y.ups \in Nat
  BY DEF Conn
<1>2. y.loop_ = x.loop_ /\ Born(y) /\ x.ups <= y.ups /\ Stream(y) /\ x.loop_ \in Loops
  BY DEF Evolves, Born, ConnOk
<1>3. x.ups > 0 => y.ups > 0
  BY <1>1, <1>2
<1>4. \A l, f : Placed(x, l, f) => Placed(y, l, f)
  BY <1>2, <1>3 DEF Placed
<1>5. \A l \in Loops : QueueOk(c, y, l, Queue(lq[l]))
  <2> SUFFICES ASSUME NEW l \in Loops PROVE QueueOk(c, y, l, Queue(lq[l]))
    OBVIOUS
  <2>1. QueueOk(c, x, l, Queue(lp[l]))
    BY DEF ConnOk
  <2> QED  BY <1>4, <2>1 DEF QueueOk, QueuedWell
<1> QED  BY <1>2, <1>5 DEF ConnOk, Todos

\* A connection with nothing to do on its loop has nothing to do anywhere.
LEMMA NoTodo ==
    ASSUME NEW c, NEW x, NEW y, NEW lp, NEW lq, NEW map, NEW us, NEW cl,
           ConnOk(c, x, lp, map, us, cl), lp[x.loop_].todo = <<>>,
           \A k \in Loops : lq[k].todo = lp[k].todo
    PROVE  Todos(c, y, lq)
<1> SUFFICES ASSUME NEW l \in Loops, NEW i \in DOMAIN lp[l].todo, lp[l].todo[i].c = c
             PROVE  FALSE
  BY DEF TodoOk, Todos
<1>1. EntryOk(x, l, lp[l].todo[i])
  BY DEF ConnOk, TodoOk
<1>2. x.loop_ = l
  BY <1>1 DEF EntryOk
<1> QED  BY <1>2

\* lq is lp when loop l has taken functor f, and when f was appended to its queue.
Takes(lp, lq, l, f) ==
    /\ \A k \in Loops : Queue(lp[k]) \in Seq(Functors) /\ Queue(lq[k]) \in Seq(Functors)
    /\ Queue(lp[l]) # <<>> /\ Head(Queue(lp[l])) = f
    /\ Queue(lq[l]) = Tail(Queue(lp[l]))
    /\ \A k \in Loops : k # l => Queue(lq[k]) = Queue(lp[k])
    /\ \A k \in Loops : lq[k].todo = lp[k].todo
    /\ lp[l].todo = <<>>
Adds(lp, lq, l, f) ==
    /\ \A k \in Loops : Queue(lp[k]) \in Seq(Functors) /\ Queue(lq[k]) \in Seq(Functors)
    /\ Queue(lq[l]) = Queue(lp[l]) \o <<f>>
    /\ \A k \in Loops : k # l => Queue(lq[k]) = Queue(lp[k])
    /\ \A k \in Loops : lq[k].todo = lp[k].todo

\* The three functors that make the life of a connection are different functors.
LEMMA Different ==
    ASSUME NEW c
    PROVE  /\ Est(c) # Des(c) /\ Est(c) # Rem(c) /\ Des(c) # Rem(c)
           /\ Est(c).c = c /\ Des(c).c = c /\ Rem(c).c = c
           /\ Est(c).op = "connect_established" /\ Des(c).op = "connect_destroyed"
           /\ Rem(c).op = "remove_connection_in_loop"
           /\ c \in Conns => {Est(c), Des(c), Rem(c)} \subseteq Functors
  BY DEF Est, Des, Rem, Functor, Functors, Ops

\* What that does to the numbers and the order of functors.
Dequeued(lp, lq, l, f) ==
    /\ \A k \in Loops : \A i \in DOMAIN Queue(lq[k]) :
         \E j \in DOMAIN Queue(lp[k]) : Queue(lp[k])[j] = Queue(lq[k])[i]
    /\ \A k \in Loops : \A g : g # f => Times(Queue(lq[k]), g) = Times(Queue(lp[k]), g)
    /\ Times(Queue(lp[l]), f) # 0
    /\ Times(Queue(lp[l]), f) = 1 => Times(Queue(lq[l]), f) = 0
    /\ \A k \in Loops : \A g, h : Ahead(Queue(lp[k]), g, h) => Ahead(Queue(lq[k]), g, h)
    /\ \A g : g # f /\ Ahead(Queue(lp[l]), g, f) => Times(Queue(lp[l]), g) = 0

\* What is taken was queued where it belongs, and nothing else changes.
LEMMA TakenFacts ==
    ASSUME NEW c, NEW x \in Conn, NEW lp, NEW lq, NEW map, NEW us, NEW cl, NEW l \in Loops, NEW f,
           ConnOk(c, x, lp, map, us, cl), Takes(lp, lq, l, f), f.c = c
    PROVE  /\ Born(x) /\ Placed(x, l, f)
           /\ Dequeued(lp, lq, l, f)
<1> DEFINE q == Queue(lp[l])
           r == Queue(lq[l])
<1>1. /\ q \in Seq(Functors) /\ q # <<>> /\ Head(q) = f /\ r = Tail(q)
      /\ \A k \in Loops : k # l => Queue(lq[k]) = Queue(lp[k])
  BY DEF Takes
<1>2. QueueOk(c, x, l, q)
  BY DEF ConnOk
<1> HIDE DEF q, r
<1>3. 1 \in DOMAIN q /\ q[1] = f
  BY <1>1, QueueFacts
<1>4. Placed(x, l, f)
  BY <1>2, <1>3 DEF QueueOk
<1>5. \A i \in DOMAIN r : \E j \in DOMAIN q : q[j] = r[i]
  BY <1>1, QueueFacts
<1>6. \A g : g # f => Times(r, g) = Times(q, g)
  BY <1>1, TimesTail
<1>7. Times(q, f) # 0 /\ (Times(q, f) = 1 => Times(r, f) = 0)
  BY <1>1, TimesTail
<1>8. \A g, h : Ahead(q, g, h) => Ahead(r, g, h)
  BY <1>1, AheadKept
<1>9. \A g : g # f /\ Ahead(q, g, f) => Times(q, g) = 0
  BY <1>1, AheadKept
<1>10. \A k \in Loops : \A i \in DOMAIN Queue(lq[k]) :
                \E j \in DOMAIN Queue(lp[k]) : Queue(lp[k])[j] = Queue(lq[k])[i]
  BY <1>1, <1>5 DEF q, r
<1>11. \A k \in Loops : \A g : g # f => Times(Queue(lq[k]), g) = Times(Queue(lp[k]), g)
  BY <1>1, <1>6 DEF q, r
<1>12. \A k \in Loops : \A g, h : Ahead(Queue(lp[k]), g, h) => Ahead(Queue(lq[k]), g, h)
  BY <1>1, <1>8 DEF q, r
<1> QED  BY <1>4, <1>7, <1>9, <1>10, <1>11, <1>12 DEF q, r, Placed, Dequeued

\* connect_established is run from the queue.
LEMMA OwnEstablished ==
    ASSUME NEW c, NEW x \in Conn, NEW u \in CallbackChoices, NEW lp, NEW lq, NEW map, NEW us, NEW cl,
           NEW l \in Loops, ConnOk(c, x, lp, map, us, cl), Takes(lp, lq, l, Est(c))
    PROVE  connect_established(x, u) \in Conn
           /\ ConnOk(c, connect_established(x, u), lq, map, us, cl)
<1> DEFINE y == connect_established(x, u)
<1>1. y \in Conn /\ Evolves(x, y) /\ (Fresh(x) /\ Steady(y) => Up(y))
  BY ConnectEstablished
<1> HIDE DEF y
<1>2. Est(c).c = c /\ Est(c).op = "connect_established" /\ Est(c) # Des(c) /\ Est(c) # Rem(c)
  BY Different
<1>3. Born(x) /\ Placed(x, l, Est(c)) /\ Dequeued(lp, lq, l, Est(c))
  BY <1>2, TakenFacts
<1>4. x.loop_ = l /\ Base \in Loops
  BY <1>2, <1>3, ServerAssumption DEF Placed, Base, Loops
<1>5. QueuedWell(c, y, lp, lq)
  BY <1>3 DEF QueuedWell, Dequeued
<1>t. Todos(c, y, lq)
  BY <1>4, NoTodo DEF Takes
<1>6. us # "none" => y.ups > 0
  <2>1. x.ups \in Nat /\ y.ups \in Nat
    BY <1>1 DEF Conn
  <2>2. x.ups <= y.ups /\ (us # "none" => x.ups > 0)
    BY <1>1 DEF Evolves, ConnOk
  <2> QED  BY <2>1, <2>2
<1>7. ASSUME Steady(y)
      PROVE  /\ Life(c, y, Times(Queue(lq[l]), Est(c)), Times(Queue(lq[l]), Des(c)),
                     Times(Queue(lq[Base]), Rem(c)), map, cl)
             /\ Ahead(Queue(lq[l]), Est(c), Des(c))
  <2>1. Steady(x)
    BY <1>1, <1>7 DEF Steady, Evolves
  <2>2. /\ Life(c, x, Times(Queue(lp[l]), Est(c)), Times(Queue(lp[l]), Des(c)),
                Times(Queue(lp[Base]), Rem(c)), map, cl)
        /\ Ahead(Queue(lp[l]), Est(c), Des(c))
    BY <1>3, <1>4, <2>1 DEF ConnOk, LifeOk
  <2>3. /\ Times(Queue(lq[l]), Des(c)) = Times(Queue(lp[l]), Des(c))
        /\ Times(Queue(lq[Base]), Rem(c)) = Times(Queue(lp[Base]), Rem(c))
    BY <1>2, <1>3, <1>4 DEF Dequeued
  <2>4. /\ Fresh(x) /\ Times(Queue(lp[l]), Est(c)) = 1
        /\ Times(Queue(lp[Base]), Rem(c)) = 0 /\ Held(c, Times(Queue(lp[l]), Des(c)), map, cl)
    BY <1>3, <2>2 DEF Life, Dequeued
  <2>5. Up(y) /\ Times(Queue(lq[l]), Est(c)) = 0
    BY <1>1, <1>3, <1>7, <2>4 DEF Dequeued
  <2>6. Ahead(Queue(lq[l]), Est(c), Des(c))
    BY <1>3, <2>2 DEF Dequeued
  <2> QED  BY <2>3, <2>4, <2>5, <2>6 DEF Life
<1>8. LifeOk(c, y, Queue(lq[x.loop_]), Queue(lq[Base]), map, cl)
  BY <1>4, <1>7 DEF LifeOk
<1>9. ConnOk(c, y, lq, map, us, cl)
  BY <1>1, <1>3, <1>5, <1>t, <1>6, <1>8, OwnStep
<1> QED  BY <1>1, <1>9 DEF y

\* condemn: a connection that is still closing becomes irregular.
LEMMA Condemn ==
    ASSUME NEW x \in Conn
    PROVE  /\ condemn(x) \in Conn /\ Evolves(x, condemn(x)) /\ condemn(x).state_ = x.state_
           /\ Steady(condemn(x)) => Steady(x) /\ x.state_ # "k_disconnecting"
           /\ Up(x) => Up(condemn(x))
           /\ Closed(x) => Closed(condemn(x))
<1> DEFINE b == x.condemned \/ x.state_ = "k_disconnecting"
<1>1. PICK v \in BOOLEAN : v = b
  BY DEF Conn
<1> DEFINE w == [x EXCEPT !.condemned = v]
<1>2. condemn(x) = w
  BY <1>1 DEF condemn
<1>3. /\ w \in Conn /\ w.condemned = v /\ w.late = x.late /\ w.state_ = x.state_
      /\ w.loop_ = x.loop_ /\ w.peer = x.peer /\ w.ups = x.ups /\ w.downs = x.downs
      /\ w.wire = x.wire /\ w.output_buffer_ = x.output_buffer_ /\ w.accepted = x.accepted
      /\ w.wrshut = x.wrshut /\ w.events = x.events /\ w.interest = x.interest
      /\ w.index = x.index /\ w.mapped = x.mapped /\ w.polled = x.polled
      /\ w.failed = x.failed
  BY DEF Conn
<1>4. x.ups \in Nat
  BY DEF Conn
<1> HIDE DEF w, b
<1>5. Evolves(x, w)
  <2>1. x.ups <= w.ups
    BY <1>3, <1>4
  <2>2. x.condemned => w.condemned
    BY <1>1, <1>3 DEF b
  <2>3. Stream(x) => Stream(w)
    BY <1>3 DEF Stream, Broken
  <2> QED  BY <1>3, <2>1, <2>2, <2>3 DEF Evolves
<1>6. Steady(w) => Steady(x) /\ x.state_ # "k_disconnecting"
  BY <1>1, <1>3 DEF Steady, b
<1>7. (Up(x) => Up(w)) /\ (Closed(x) => Closed(w))
  BY <1>3 DEF Up, Closed
<1> QED  BY <1>2, <1>3, <1>5, <1>6, <1>7

\* connect_destroyed, with what ~Tcp_Server adds: w is the connection it is called on.
LEMMA Destroys ==
    ASSUME NEW x \in Conn, NEW u \in CallbackChoices, NEW cl
    PROVE  LET w == IF cl > 0 THEN condemn(x) ELSE x
               y == connect_destroyed(w, u)
           IN  /\ y \in Conn /\ Evolves(x, y)
               /\ Steady(y) => /\ Steady(x)
                               /\ Closed(x) => Removed(y)
                               /\ Up(x) /\ cl > 0 => Removed(y)
<1> DEFINE w == IF cl > 0 THEN condemn(x) ELSE x
           y == connect_destroyed(w, u)
<1>1. /\ w \in Conn /\ Evolves(x, w)
      /\ Steady(w) => Steady(x) /\ (cl > 0 => w.state_ # "k_disconnecting")
      /\ Up(x) => Up(w)
      /\ Closed(x) => Closed(w)
  <2>1. Evolves(x, x)
    BY EvolvesTransitive
  <2> QED  BY <2>1, Condemn
<1> HIDE DEF w
<1>2. /\ y \in Conn /\ Evolves(w, y)
      /\ (Up(w) /\ w.state_ = "k_connected") \/ Closed(w) => (Steady(y) => Removed(y))
  BY <1>1, ConnectDestroyed
<1> HIDE DEF y
<1>3. Evolves(x, y)
  BY <1>1, <1>2, EvolvesTransitive
<1>4. Steady(y) => Steady(w)
  BY <1>2 DEF Steady, Evolves
<1>5. Steady(y) /\ Up(x) /\ cl > 0 => Removed(y)
  BY <1>1, <1>2, <1>4 DEF Up
<1>6. Steady(y) /\ Closed(x) => Removed(y)
  BY <1>1, <1>2
<1> QED  BY <1>1, <1>2, <1>3, <1>4, <1>5, <1>6 DEF y, w

\* connect_destroyed is run from the queue.
LEMMA OwnDestroyed ==
    ASSUME NEW c, NEW x \in Conn, NEW y \in Conn, NEW lp, NEW lq, NEW map, NEW us, NEW cl \in Nat,
           NEW l \in Loops, ConnOk(c, x, lp, map, us, cl), Takes(lp, lq, l, Des(c)),
           Evolves(x, y),
           Steady(y) => /\ Steady(x)
                        /\ Closed(x) => Removed(y)
                        /\ Up(x) /\ cl > 0 => Removed(y)
    PROVE  ConnOk(c, y, lq, map, us, cl)
<1>2. Des(c).c = c /\ Des(c).op = "connect_destroyed" /\ Est(c) # Des(c) /\ Des(c) # Rem(c)
  BY Different
<1>3. Born(x) /\ Placed(x, l, Des(c)) /\ Dequeued(lp, lq, l, Des(c))
  BY <1>2, TakenFacts
<1>4. x.loop_ = l /\ Base \in Loops
  BY <1>2, <1>3, ServerAssumption DEF Placed, Base, Loops
<1>5. QueuedWell(c, y, lp, lq)
  BY <1>3 DEF QueuedWell, Dequeued
<1>t. Todos(c, y, lq)
  BY <1>4, NoTodo DEF Takes
<1>6. us # "none" => y.ups > 0
  <2>1. x.ups \in Nat /\ y.ups \in Nat
    BY DEF Conn
  <2>2. x.ups <= y.ups /\ (us # "none" => x.ups > 0)
    BY DEF Evolves, ConnOk
  <2> QED  BY <2>1, <2>2
<1>7. ASSUME Steady(y)
      PROVE  /\ Life(c, y, Times(Queue(lq[l]), Est(c)), Times(Queue(lq[l]), Des(c)),
                     Times(Queue(lq[Base]), Rem(c)), map, cl)
             /\ Ahead(Queue(lq[l]), Est(c), Des(c))
  <2> DEFINE e == Times(Queue(lp[l]), Est(c))
             d == Times(Queue(lp[l]), Des(c))
             r == Times(Queue(lp[Base]), Rem(c))
  <2>2. Life(c, x, e, d, r, map, cl) /\ Ahead(Queue(lp[l]), Est(c), Des(c))
    BY <1>3, <1>4, <1>7 DEF ConnOk, LifeOk
  <2>3. Times(Queue(lq[l]), Est(c)) = e /\ Times(Queue(lq[Base]), Rem(c)) = r
    BY <1>2, <1>3, <1>4 DEF Dequeued
  <2>4. e = 0 /\ d # 0 /\ (d = 1 => Times(Queue(lq[l]), Des(c)) = 0)
    BY <1>2, <1>3, <2>2 DEF Dequeued
  <2>5. Ahead(Queue(lq[l]), Est(c), Des(c))
    BY <1>3, <2>2 DEF Dequeued
  <2> HIDE DEF e, d, r
  <2>6. \/ Up(x) /\ cl > 0 /\ d = 1 /\ c \notin map
        \/ Closed(x) /\ d = 1 /\ c \notin map /\ (cl = 0 => r = 0)
    BY <2>2, <2>4 DEF Life, Held
  <2>7. Removed(y) /\ d = 1 /\ c \notin map /\ (cl = 0 => r = 0)
    BY <1>7, <2>6
  <2> QED  BY <2>3, <2>4, <2>5, <2>7 DEF Life
<1>8. LifeOk(c, y, Queue(lq[x.loop_]), Queue(lq[Base]), map, cl)
  BY <1>4, <1>7 DEF LifeOk
<1> QED  BY <1>3, <1>5, <1>t, <1>6, <1>8, OwnStep

\* The functor that a user's thread queues.
LEMMA OwnQueues ==
    ASSUME NEW c, NEW x \in Conn, NEW lp, NEW lq, NEW map, NEW us, NEW us2, NEW cl,
           NEW f \in Functors, f.c = c, f.op \in {"send_in_loop", "shut_down_in_loop"},
           us # "none", ConnOk(c, x, lp, map, us, cl), Adds(lp, lq, x.loop_, f)
    PROVE  ConnOk(c, x, lq, map, us2, cl)
<1>1. f # Est(c) /\ f # Des(c) /\ f # Rem(c)
  BY Different
<1>2. x.ups > 0 /\ Born(x) /\ x.loop_ \in Loops /\ Base \in Loops
  BY ServerAssumption DEF ConnOk, Base, Loops
<1>3. Placed(x, x.loop_, f)
  BY <1>2 DEF Placed
<1> DEFINE q == Queue(lp[x.loop_])
           r == Queue(lq[x.loop_])
<1>4. /\ q \in Seq(Functors) /\ r = q \o <<f>>
      /\ \A k \in Loops : k # x.loop_ => Queue(lq[k]) = Queue(lp[k])
      /\ \A k \in Loops : lq[k].todo = lp[k].todo
  BY <1>2 DEF Adds
<1>5. LifeOk(c, x, q, Queue(lp[Base]), map, cl)
  BY DEF ConnOk
<1> HIDE DEF q, r
<1>6. /\ \A g : g # f => Times(r, g) = Times(q, g)
      /\ \A g, h : g # f /\ Ahead(q, g, h) => Ahead(r, g, h)
      /\ \A i \in DOMAIN r : (\E j \in DOMAIN q : q[j] = r[i]) \/ r[i] = f
  BY <1>4, QueueGrows
<1>7. QueuedWell(c, x, lp, lq)
  BY <1>3, <1>4, <1>6 DEF q, r, QueuedWell
<1>8. Times(Queue(lq[Base]), Rem(c)) = Times(Queue(lp[Base]), Rem(c))
  BY <1>1, <1>2, <1>4, <1>6 DEF q, r
<1>9. LifeOk(c, x, Queue(lq[x.loop_]), Queue(lq[Base]), map, cl)
  <2>1. LifeOk(c, x, r, Queue(lq[Base]), map, cl)
    BY <1>1, <1>5, <1>6, <1>8 DEF LifeOk
  <2> QED  BY <2>1 DEF r
<1>10. Todos(c, x, lq)
  BY <1>4 DEF ConnOk, Todos
<1>11. Evolves(x, x)
  BY EvolvesTransitive
<1> QED  BY <1>2, <1>7, <1>9, <1>10, <1>11, OwnStep

\* What an append does to the numbers and the order of functors.
Enqueued(lp, lq, l, f) ==
    /\ \A k \in Loops : \A i \in DOMAIN Queue(lq[k]) :
         \/ \E j \in DOMAIN Queue(lp[k]) : Queue(lp[k])[j] = Queue(lq[k])[i]
         \/ k = l /\ Queue(lq[k])[i] = f
    /\ \A k \in Loops : \A g : g # f => Times(Queue(lq[k]), g) = Times(Queue(lp[k]), g)
    /\ Times(Queue(lp[l]), f) = 0 => Times(Queue(lq[l]), f) = 1
    /\ \A k \in Loops : \A g, h : g # f /\ Ahead(Queue(lp[k]), g, h) => Ahead(Queue(lq[k]), g, h)

\* An append to the queue of a loop.
LEMMA AddedFacts ==
    ASSUME NEW lp, NEW lq, NEW l \in Loops, NEW f \in Functors, Adds(lp, lq, l, f)
    PROVE  Enqueued(lp, lq, l, f)
<1> DEFINE q == Queue(lp[l])
           r == Queue(lq[l])
<1>1. /\ q \in Seq(Functors) /\ r = q \o <<f>>
      /\ \A k \in Loops : k # l => Queue(lq[k]) = Queue(lp[k])
  BY DEF Adds
<1> HIDE DEF q, r
<1>2. /\ \A g : g # f => Times(r, g) = Times(q, g)
      /\ Times(q, f) = 0 => Times(r, f) = 1
      /\ \A g, h : g # f /\ Ahead(q, g, h) => Ahead(r, g, h)
      /\ \A i \in DOMAIN r : (\E j \in DOMAIN q : q[j] = r[i]) \/ r[i] = f
  BY <1>1, QueueGrows
<1>3. \A k \in Loops : \A i \in DOMAIN Queue(lq[k]) :
         \/ \E j \in DOMAIN Queue(lp[k]) : Queue(lp[k])[j] = Queue(lq[k])[i]
         \/ k = l /\ Queue(lq[k])[i] = f
  BY <1>1, <1>2 DEF q, r
<1>4. \A k \in Loops : \A g : g # f => Times(Queue(lq[k]), g) = Times(Queue(lp[k]), g)
  BY <1>1, <1>2 DEF q, r
<1>5. \A k \in Loops : \A g, h :
            g # f /\ Ahead(Queue(lp[k]), g, h) => Ahead(Queue(lq[k]), g, h)
  BY <1>1, <1>2 DEF q, r
<1> QED  BY <1>2, <1>3, <1>4, <1>5 DEF Enqueued, q, r

\* assert(n == 1) in remove_connection_in_loop.
LEMMA AssertErased ==
    ASSUME NEW x \in Conn, NEW c, NEW map
    PROVE  LET y == Assert_(x, c \in map, "tcp_server.cpp:124")
           IN  /\ y \in Conn /\ Evolves(x, y) /\ y.late = x.late /\ y.condemned = x.condemned
               /\ y.loop_ = x.loop_
               /\ c \in map => y = x
<1>1. Evolves(x, x)
  BY EvolvesTransitive
<1>2. CASE c \in map
  BY <1>1, <1>2 DEF Assert_
<1>3. CASE c \notin map
  <2> DEFINE y == Fails(x, "tcp_server.cpp:124")
  <2>1. "tcp_server.cpp:124" \in Asserts
    BY DEF Asserts
  <2>2. SameConnection(x, y)
    BY <2>1, AssertTouches
  <2>3. Assert_(x, c \in map, "tcp_server.cpp:124") = y
    BY <1>3 DEF Assert_, Fails
  <2> HIDE DEF y
  <2>4. y \in Conn /\ Evolves(x, y) /\ y.late = x.late /\ y.condemned = x.condemned
    BY <2>2, SameEvolves
  <2>5. y.loop_ = x.loop_
    BY <2>4 DEF Evolves
  <2> QED  BY <1>3, <2>3, <2>4, <2>5
<1> QED  BY <1>2, <1>3

\* remove_connection_in_loop: z is the connection when it is called, lr the loops.
LEMMA OwnErased ==
    ASSUME NEW c \in Conns, NEW x \in Conn, NEW z \in Conn, NEW lp, NEW lr, NEW lq, NEW map,
           NEW us, NEW cl, cl = 0,
           ConnOk(c, x, lp, map, us, cl), Born(x), Evolves(x, z),
           QueuedWell(c, z, lp, lr), Todos(c, z, lr), Adds(lr, lq, x.loop_, Des(c)),
           Steady(z) => /\ Closed(z) /\ c \in map
                        /\ Times(Queue(lr[x.loop_]), Est(c)) = 0
                        /\ Times(Queue(lr[x.loop_]), Des(c)) = 0
                        /\ Times(Queue(lr[Base]), Rem(c)) = 0
    PROVE  LET y == Assert_(z, c \in map, "tcp_server.cpp:124")
           IN  y \in Conn /\ ConnOk(c, y, lq, map \ {c}, us, cl)
<1> DEFINE y == Assert_(z, c \in map, "tcp_server.cpp:124")
<1>1. /\ y \in Conn /\ Evolves(z, y) /\ y.late = z.late /\ y.condemned = z.condemned
      /\ y.loop_ = z.loop_
      /\ c \in map => y = z
  BY AssertErased
<1> HIDE DEF y
<1>2. Evolves(x, y)
  BY <1>1, EvolvesTransitive
<1>3. /\ x.loop_ \in Loops /\ Base \in Loops /\ Des(c) \in Functors /\ Des(c) # Est(c)
      /\ Des(c) # Rem(c) /\ Des(c).op = "connect_destroyed"
  BY Different, ServerAssumption DEF ConnOk, Base, Loops
<1>4. Enqueued(lr, lq, x.loop_, Des(c))
  BY <1>3, AddedFacts
<1>5. (Steady(y) => Steady(z)) /\ Born(y) /\ y.loop_ = x.loop_ /\ (Born(z) => Born(y))
  BY <1>1, <1>2 DEF Steady, Evolves, Born
<1>6. us # "none" => y.ups > 0
  <2>1. x.ups \in Nat /\ y.ups \in Nat
    BY <1>1 DEF Conn
  <2>2. x.ups <= y.ups /\ (us # "none" => x.ups > 0)
    BY <1>2 DEF Evolves, ConnOk
  <2> QED  BY <2>1, <2>2
<1>7. \A l, f : Placed(z, l, f) => Placed(y, l, f)
  <2>1. z.ups \in Nat /\ y.ups \in Nat /\ z.ups <= y.ups
    BY <1>1 DEF Conn, Evolves
  <2>2. z.ups > 0 => y.ups > 0
    BY <2>1
  <2> QED  BY <1>1, <1>5, <2>2 DEF Placed
<1>8. QueuedWell(c, y, lp, lq)
  <2>1. Placed(y, x.loop_, Des(c))
    BY <1>3, <1>5 DEF Placed
  <2>2. ASSUME NEW l \in Loops, NEW i \in DOMAIN Queue(lq[l]), Queue(lq[l])[i].c = c
        PROVE  \/ \E j \in DOMAIN Queue(lp[l]) : Queue(lp[l])[j] = Queue(lq[l])[i]
               \/ Placed(y, l, Queue(lq[l])[i])
    <3>1. CASE Queue(lq[l])[i] = Des(c) /\ l = x.loop_
      BY <2>1, <3>1
    <3>2. ASSUME NEW j \in DOMAIN Queue(lr[l]), Queue(lr[l])[j] = Queue(lq[l])[i]
          PROVE  \/ \E k \in DOMAIN Queue(lp[l]) : Queue(lp[l])[k] = Queue(lq[l])[i]
                 \/ Placed(y, l, Queue(lq[l])[i])
      <4>1. \/ \E k \in DOMAIN Queue(lp[l]) : Queue(lp[l])[k] = Queue(lr[l])[j]
            \/ Placed(z, l, Queue(lr[l])[j])
        BY <2>2, <3>2 DEF QueuedWell
      <4> QED  BY <1>7, <3>2, <4>1
    <3> QED  BY <1>4, <3>1, <3>2 DEF Enqueued
  <2> QED  BY <2>2 DEF QueuedWell
<1>9. Todos(c, y, lq)
  <2>1. ASSUME NEW l \in Loops, NEW i \in DOMAIN lq[l].todo, lq[l].todo[i].c = c
        PROVE  EntryOk(y, l, lq[l].todo[i])
    <3>1. EntryOk(z, l, lq[l].todo[i])
      BY <2>1 DEF Todos, TodoOk, Adds
    <3>2. Steady(y) => y = z
      BY <1>1, <1>5
    <3> QED  BY <1>1, <1>5, <3>1, <3>2 DEF EntryOk
  <2> QED  BY <2>1 DEF Todos, TodoOk
<1>10. ASSUME Steady(y)
       PROVE  /\ Life(c, y, Times(Queue(lq[x.loop_]), Est(c)), Times(Queue(lq[x.loop_]), Des(c)),
                      Times(Queue(lq[Base]), Rem(c)), map \ {c}, cl)
              /\ Ahead(Queue(lq[x.loop_]), Est(c), Des(c))
  <2>1. Steady(z) /\ Closed(y)
    BY <1>1, <1>5, <1>10
  <2>2. /\ Times(Queue(lq[x.loop_]), Est(c)) = 0 /\ Times(Queue(lq[x.loop_]), Des(c)) = 1
        /\ Times(Queue(lq[Base]), Rem(c)) = 0
    BY <1>3, <1>4, <2>1 DEF Enqueued
  <2>3. Ahead(Queue(lq[x.loop_]), Est(c), Des(c))
    BY <1>3, <2>2, QueueFacts DEF Adds
  <2> QED  BY <2>1, <2>2, <2>3 DEF Life
<1>11. LifeOk(c, y, Queue(lq[x.loop_]), Queue(lq[Base]), map \ {c}, cl)
  BY <1>10 DEF LifeOk
<1>12. ConnOk(c, y, lq, map \ {c}, us, cl)
  BY <1>1, <1>2, <1>6, <1>8, <1>9, <1>11, OwnStep
<1> QED  BY <1>1, <1>12 DEF y

\* remove_connection_in_loop is run from the queue of the base loop.
LEMMA OwnRemoves ==
    ASSUME NEW c \in Conns, NEW x \in Conn, NEW lp, NEW lr, NEW lq, NEW map, NEW us, NEW cl, cl = 0,
           ConnOk(c, x, lp, map, us, cl),
           Takes(lp, lr, Base, Rem(c)), Adds(lr, lq, x.loop_, Des(c))
    PROVE  LET y == Assert_(x, c \in map, "tcp_server.cpp:124")
           IN  y \in Conn /\ ConnOk(c, y, lq, map \ {c}, us, cl)
<1>1. /\ Rem(c).c = c /\ Rem(c) # Est(c) /\ Rem(c) # Des(c) /\ Base \in Loops
      /\ x.loop_ \in Loops
  BY Different, ServerAssumption DEF ConnOk, Base, Loops
<1>2. Born(x) /\ Dequeued(lp, lr, Base, Rem(c))
  BY <1>1, TakenFacts
<1>3. QueuedWell(c, x, lp, lr)
  BY <1>2 DEF QueuedWell, Dequeued
<1>4. Todos(c, x, lr)
  BY DEF ConnOk, Todos, Takes
<1>5. ASSUME Steady(x)
      PROVE  /\ Closed(x) /\ c \in map
             /\ Times(Queue(lr[x.loop_]), Est(c)) = 0
             /\ Times(Queue(lr[x.loop_]), Des(c)) = 0
             /\ Times(Queue(lr[Base]), Rem(c)) = 0
  <2> DEFINE e == Times(Queue(lp[x.loop_]), Est(c))
             d == Times(Queue(lp[x.loop_]), Des(c))
             r == Times(Queue(lp[Base]), Rem(c))
  <2>1. Life(c, x, e, d, r, map, cl)
    BY <1>2, <1>5 DEF ConnOk, LifeOk
  <2>2. Times(Queue(lr[x.loop_]), Est(c)) = e /\ Times(Queue(lr[x.loop_]), Des(c)) = d
    BY <1>1, <1>2 DEF Dequeued
  <2>3. r # 0 /\ (r = 1 => Times(Queue(lr[Base]), Rem(c)) = 0)
    BY <1>2 DEF Dequeued
  <2> HIDE DEF e, d, r
  <2>4. Closed(x) /\ e = 0 /\ d = 0 /\ c \in map /\ r = 1
    BY <2>1, <2>3 DEF Life, Held
  <2> QED  BY <2>2, <2>3, <2>4
<1>6. Evolves(x, x)
  BY EvolvesTransitive
<1> QED  BY <1>2, <1>3, <1>4, <1>5, <1>6, OwnErased

\* lq is lp when loop l has made the first callback of h, its first active channel.
Pops(lp, lq, l, h) ==
    /\ \A k \in Loops : Queue(lp[k]) \in Seq(Functors) /\ Queue(lq[k]) = Queue(lp[k])
    /\ \A k \in Loops : k # l => lq[k].todo = lp[k].todo
    /\ 1 \in DOMAIN lp[l].todo /\ h = lp[l].todo[1]
    /\ h.cbs \in Seq(Callbacks) /\ h.cbs # <<>> /\ \A a, b \in Ends(h.cbs) : a = b
    /\ \A i \in DOMAIN lq[l].todo :
         \/ \E j \in DOMAIN lp[l].todo : lp[l].todo[j] = lq[l].todo[i] /\ lp[l].todo[j].c # h.c
         \/ lq[l].todo[i].c = h.c /\ lq[l].todo[i].cbs = Tail(h.cbs)

\* All that is left to call on c is what is left of h.
LeftOf(c, lq, l, h) ==
    \A k \in Loops : \A i \in DOMAIN lq[k].todo : lq[k].todo[i].c = c =>
        k = l /\ lq[k].todo[i].cbs = Tail(h.cbs)

\* A callback that may close the connection is the only one, and the channel was
\* enabled so far.
OneEnd(x, h) ==
    Head(h.cbs) \in {"read", "close"} => (Steady(x) => x.polled) /\ Ends(Tail(h.cbs)) = {}

\* The connection whose channel is called.
LEMMA Popped ==
    ASSUME NEW c, NEW x, NEW lp, NEW lq, NEW map, NEW us, NEW cl, NEW l \in Loops, NEW h,
           ConnOk(c, x, lp, map, us, cl), Pops(lp, lq, l, h), h.c = c
    PROVE  /\ Born(x) /\ x.loop_ = l /\ (Steady(x) => x.mapped /\ ~Fresh(x))
           /\ OneEnd(x, h)
           /\ SameQueues(c, lp, lq) /\ FewerTodo(c, lp, lq)
           /\ LeftOf(c, lq, l, h)
<1>1. /\ 1 \in DOMAIN lp[l].todo /\ h = lp[l].todo[1]
      /\ h.cbs \in Seq(Callbacks) /\ h.cbs # <<>> /\ \A a, b \in Ends(h.cbs) : a = b
  BY DEF Pops
<1>2. EntryOk(x, l, h)
  BY <1>1 DEF ConnOk, TodoOk
<1>3. /\ Ends(Tail(h.cbs)) # {} => Ends(h.cbs) # {}
      /\ Head(h.cbs) \in {"read", "close"} => Ends(h.cbs) # {} /\ Ends(Tail(h.cbs)) = {}
  BY <1>1, CallbacksLeft
<1>4. Born(x) /\ x.loop_ = l /\ (Steady(x) => x.mapped /\ ~Fresh(x))
  BY <1>2 DEF EntryOk, Fresh
<1>5. OneEnd(x, h)
  BY <1>2, <1>3 DEF EntryOk, OneEnd
<1>6. SameQueues(c, lp, lq)
  BY SameForTransitive DEF SameQueues, Pops
<1>7. ASSUME NEW k \in Loops, NEW i \in DOMAIN lq[k].todo, lq[k].todo[i].c = c
      PROVE  k = l /\ lq[k].todo[i].cbs = Tail(h.cbs)
  <2>1. CASE k = l
    BY <1>7, <2>1 DEF Pops
  <2>2. CASE k # l
    <3>1. lq[k].todo = lp[k].todo
      BY <2>2 DEF Pops
    <3>2. EntryOk(x, k, lp[k].todo[i])
      BY <1>7, <3>1 DEF ConnOk, TodoOk
    <3> QED  BY <1>4, <2>2, <3>2 DEF EntryOk
  <2> QED  BY <2>1, <2>2
<1>8. FewerTodo(c, lp, lq)
  <2> SUFFICES ASSUME NEW k \in Loops, NEW i \in DOMAIN lq[k].todo, lq[k].todo[i].c = c
               PROVE  \E j \in DOMAIN lp[k].todo :
                        /\ lp[k].todo[j].c = c
                        /\ Ends(lq[k].todo[i].cbs) # {} => Ends(lp[k].todo[j].cbs) # {}
    BY DEF FewerTodo
  <2>1. k = l /\ lq[k].todo[i].cbs = Tail(h.cbs)
    BY <1>7
  <2> QED  BY <1>1, <1>3, <2>1
<1> QED  BY <1>4, <1>5, <1>6, <1>7, <1>8 DEF LeftOf

\* A callback that does not close the connection.
LEMMA OwnCalled ==
    ASSUME NEW c, NEW x \in Conn, NEW y \in Conn, NEW lp, NEW lq, NEW map, NEW us, NEW cl,
           NEW l \in Loops, NEW h,
           ConnOk(c, x, lp, map, us, cl), Pops(lp, lq, l, h), h.c = c, Keeps(x, y)
    PROVE  ConnOk(c, y, lq, map, us, cl)
<1>1. /\ Born(x) /\ (Steady(x) => ~Fresh(x))
      /\ SameQueues(c, lp, lq) /\ FewerTodo(c, lp, lq)
  BY Popped
<1>2. us # "none" => y.ups > 0
  <2>1. x.ups \in Nat /\ y.ups \in Nat
    BY DEF Conn
  <2>2. x.ups <= y.ups /\ (us # "none" => x.ups > 0)
    BY DEF Evolves, ConnOk, Keeps
  <2> QED  BY <2>1, <2>2
<1> QED  BY <1>1, <1>2, OwnKeeps

\* A callback that ends the connection, and the ways it goes on after handle_close:
\* on the base loop connections_ and the queue change at once, on another loop the
\* base loop is told.
Ending(h) == Head(h.cbs) \in {"read", "close"}
GoesOn(c, y, z, lr, map, us, cl, l) ==
    /\ \A lq : l = Base /\ cl = 0 /\ Adds(lr, lq, l, Des(c)) =>
         ConnOk(c, y, lq, map \ {c}, us, cl)
    /\ \A lq : l # Base /\ Adds(lr, lq, Base, Rem(c)) => ConnOk(c, z, lq, map, us, cl)

\* handle_close is called: z is the connection after it, lr the loops.
LEMMA OwnCloses ==
    ASSUME NEW c \in Conns, NEW x \in Conn, NEW u \in CallbackChoices, NEW lp, NEW lr, NEW map,
           NEW us, NEW cl \in Nat, NEW l \in Loops, NEW h,
           ConnOk(c, x, lp, map, us, cl), Pops(lp, lr, l, h), h.c = c,
           Ending(h)
    PROVE  LET z == handle_close(x, u)
               y == Assert_(z, c \in map, "tcp_server.cpp:124")
           IN  /\ z \in Conn /\ y \in Conn /\ x.loop_ = l /\ z.loop_ = l
               /\ GoesOn(c, y, z, lr, map, us, cl, l)
<1> DEFINE z == handle_close(x, u)
           y == Assert_(z, c \in map, "tcp_server.cpp:124")
<1>1. z \in Conn /\ Evolves(x, z) /\ (Up(x) /\ Steady(z) => Closed(z))
  BY HandleClose
<1> HIDE DEF z
<1>2. /\ Born(x) /\ x.loop_ = l /\ (Steady(x) => x.polled) /\ Ends(Tail(h.cbs)) = {}
      /\ LeftOf(c, lr, l, h)
  <2>1. Born(x) /\ x.loop_ = l /\ LeftOf(c, lr, l, h) /\ OneEnd(x, h)
    BY Popped
  <2> QED  BY <2>1 DEF OneEnd, Ending
<1>3. z.loop_ = l /\ Born(z) /\ Base \in Loops
  BY <1>1, <1>2, ServerAssumption DEF Evolves, Born, Base, Loops
<1>4. y \in Conn
  BY <1>1, AssertErased
<1> HIDE DEF y
<1>5. QueuedWell(c, z, lp, lr)
  BY DEF Pops, QueuedWell
<1> DEFINE e == Times(Queue(lp[l]), Est(c))
           d == Times(Queue(lp[l]), Des(c))
           r == Times(Queue(lp[Base]), Rem(c))
<1>6. ASSUME Steady(z) PROVE Closed(z) /\ e = 0 /\ r = 0 /\ Held(c, d, map, cl)
  <2>1. Steady(x)
    BY <1>1, <1>6 DEF Steady, Evolves
  <2>2. Life(c, x, e, d, r, map, cl)
    BY <1>2, <2>1 DEF ConnOk, LifeOk
  <2> HIDE DEF e, d, r
  <2>3. Up(x) /\ e = 0 /\ r = 0 /\ Held(c, d, map, cl)
    BY <1>2, <2>1, <2>2 DEF Life, Fresh, Closed, Removed
  <2> QED  BY <1>1, <1>6, <2>3
<1>7. \A k \in Loops : \A i \in DOMAIN lr[k].todo : lr[k].todo[i].c = c =>
            EntryOk(z, k, lr[k].todo[i])
  <2>1. Steady(z) => z.mapped
    BY <1>6 DEF Closed
  <2> QED  BY <1>2, <1>3, <2>1 DEF EntryOk, LeftOf
<1>8. Todos(c, z, lr)
  BY <1>7 DEF Todos, TodoOk
<1>9. /\ Queue(lr[l]) = Queue(lp[l]) /\ Queue(lr[Base]) = Queue(lp[Base])
      /\ \A k \in Loops : Queue(lr[k]) \in Seq(Functors)
  BY <1>3 DEF Pops
<1>10. ASSUME NEW lq, l = Base, cl = 0, Adds(lr, lq, l, Des(c))
       PROVE  ConnOk(c, y, lq, map \ {c}, us, cl)
  <2>1. ASSUME Steady(z)
        PROVE  /\ Closed(z) /\ c \in map
               /\ Times(Queue(lr[x.loop_]), Est(c)) = 0
               /\ Times(Queue(lr[x.loop_]), Des(c)) = 0
               /\ Times(Queue(lr[Base]), Rem(c)) = 0
    BY <1>2, <1>6, <1>9, <1>10, <2>1 DEF Held
  <2> QED  BY <1>1, <1>2, <1>5, <1>8, <1>10, <2>1, OwnErased DEF y
<1>11. ASSUME NEW lq, l # Base, Adds(lr, lq, Base, Rem(c)) PROVE ConnOk(c, z, lq, map, us, cl)
  <2>1. /\ Rem(c) \in Functors /\ Rem(c) # Est(c) /\ Rem(c) # Des(c)
        /\ Rem(c).op = "remove_connection_in_loop"
    BY Different
  <2>2. Enqueued(lr, lq, Base, Rem(c))
    BY <1>3, <1>11, <2>1, AddedFacts
  <2>3. Placed(z, Base, Rem(c))
    BY <1>3, <2>1 DEF Placed
  <2>4. QueuedWell(c, z, lp, lq)
    <3> SUFFICES ASSUME NEW k \in Loops, NEW i \in DOMAIN Queue(lq[k])
                 PROVE  \/ \E j \in DOMAIN Queue(lp[k]) : Queue(lp[k])[j] = Queue(lq[k])[i]
                        \/ Placed(z, k, Queue(lq[k])[i])
      BY DEF QueuedWell
    <3>1. \/ \E j \in DOMAIN Queue(lr[k]) : Queue(lr[k])[j] = Queue(lq[k])[i]
          \/ k = Base /\ Queue(lq[k])[i] = Rem(c)
      BY <2>2 DEF Enqueued
    <3>2. Queue(lr[k]) = Queue(lp[k])
      BY DEF Pops
    <3> QED  BY <2>3, <3>1, <3>2
  <2>5. Todos(c, z, lq)
    BY <1>8, <1>11 DEF Todos, Adds
  <2>6. Queue(lq[l]) = Queue(lp[l])
    BY <1>9, <1>11 DEF Adds
  <2>7. ASSUME Steady(z)
        PROVE  /\ Life(c, z, Times(Queue(lq[l]), Est(c)), Times(Queue(lq[l]), Des(c)),
                       Times(Queue(lq[Base]), Rem(c)), map, cl)
               /\ Ahead(Queue(lq[l]), Est(c), Des(c))
    <3>1. Closed(z) /\ e = 0 /\ r = 0 /\ Held(c, d, map, cl)
      BY <1>6, <2>7
    <3>2. Times(Queue(lq[Base]), Rem(c)) = 1
      BY <1>9, <2>2, <3>1 DEF Enqueued
    <3>3. Ahead(Queue(lq[l]), Est(c), Des(c))
      BY <1>9, <2>6, <3>1, QueueFacts
    <3>4. /\ d = (IF c \in map THEN 0 ELSE 1)
          /\ cl = 0 => c \in map
      BY <3>1 DEF Held
    <3> QED  BY <2>6, <3>1, <3>2, <3>3, <3>4 DEF Life
  <2>8. LifeOk(c, z, Queue(lq[x.loop_]), Queue(lq[Base]), map, cl)
    BY <1>2, <2>7 DEF LifeOk
  <2>9. us # "none" => z.ups > 0
    <3>1. x.ups \in Nat /\ z.ups \in Nat
      BY <1>1 DEF Conn
    <3>2. x.ups <= z.ups /\ (us # "none" => x.ups > 0)
      BY <1>1 DEF Evolves, ConnOk
    <3> QED  BY <3>1, <3>2
  <2> QED  BY <1>1, <1>2, <2>4, <2>5, <2>8, <2>9, OwnStep
<1> QED  BY <1>1, <1>2, <1>3, <1>4, <1>10, <1>11 DEF y, z, GoesOn

\* Nothing is queued for a connection that does not exist yet.
LEMMA Unborn ==
    ASSUME NEW c, NEW x, NEW lp, NEW map, NEW us, NEW cl, ConnOk(c, x, lp, map, us, cl), ~Born(x)
    PROVE  /\ Fresh(x) /\ c \notin map /\ us = "none" /\ Stream(x)
           /\ \A k \in Loops : \A i \in DOMAIN Queue(lp[k]) : Queue(lp[k])[i].c # c
           /\ \A k \in Loops : \A i \in DOMAIN lp[k].todo : lp[k].todo[i].c # c
           /\ \A k \in Loops : \A f \in {Est(c), Des(c), Rem(c)} : Times(Queue(lp[k]), f) = 0
<1>1. Fresh(x) /\ c \notin map /\ us = "none" /\ Stream(x)
  BY DEF ConnOk
<1>2. \A k \in Loops : \A i \in DOMAIN Queue(lp[k]) : Queue(lp[k])[i].c # c
  BY DEF ConnOk, QueueOk, Placed
<1>3. \A k \in Loops : \A i \in DOMAIN lp[k].todo : lp[k].todo[i].c # c
  BY DEF ConnOk, TodoOk, EntryOk
<1>4. ASSUME NEW k \in Loops, NEW f \in {Est(c), Des(c), Rem(c)} PROVE Times(Queue(lp[k]), f) = 0
  <2>1. f.c = c
    BY Different
  <2>2. Never(Queue(lp[k]), f)
    BY <1>2, <2>1 DEF Never
  <2> QED  BY <2>2 DEF Times
<1> QED  BY <1>1, <1>2, <1>3, <1>4

\* new_connection: the connection is constructed for loop l.
LEMMA Constructed ==
    ASSUME NEW x \in Conn, Fresh(x), ~Born(x), Stream(x), NEW l \in Nat
    PROVE  LET y == [x EXCEPT !.peer = "open", !.loop_ = l]
           IN  y \in Conn /\ Born(y) /\ Fresh(y) /\ Stream(y) /\ y.loop_ = l
<1> DEFINE y == [x EXCEPT !.peer = "open", !.loop_ = l]
<1>1. "open" \in Peers /\ x.peer # "rst"
  BY DEF Peers, Born
<1>2. /\ y \in Conn /\ y.peer = "open" /\ y.loop_ = l /\ y.state_ = x.state_
      /\ y.index = x.index /\ y.mapped = x.mapped /\ y.polled = x.polled
      /\ y.events = x.events /\ y.output_buffer_ = x.output_buffer_ /\ y.ups = x.ups
      /\ y.downs = x.downs /\ y.wrshut = x.wrshut /\ y.failed = x.failed
      /\ y.wire = x.wire /\ y.accepted = x.accepted
  BY <1>1 DEF Conn
<1> HIDE DEF y
<1>3. Fresh(y) /\ Born(y)
  BY <1>2 DEF Fresh, Born
<1>4. ~Broken(x)
  BY <1>1 DEF Broken, Fresh
<1>5. Stream(y)
  BY <1>2, <1>4 DEF Stream
<1> QED  BY <1>2, <1>3, <1>5 DEF y

\* new_connection on the base loop and on another one.
LEMMA OwnAccepted ==
    ASSUME NEW c \in Conns, NEW x \in Conn, NEW u \in CallbackChoices, NEW lp, NEW map,
           NEW us, NEW cl, cl = 0, NEW l \in Loops, ConnOk(c, x, lp, map, us, cl), ~Born(x),
           \A k \in Loops : Queue(lp[k]) \in Seq(Functors)
    PROVE  LET z == [x EXCEPT !.peer = "open", !.loop_ = l]
               y == connect_established(z, u)
           IN  /\ z \in Conn /\ y \in Conn
               /\ l = Base => ConnOk(c, y, lp, map \cup {c}, us, cl)
               /\ \A lq : l # Base /\ Adds(lp, lq, l, Est(c)) =>
                    ConnOk(c, z, lq, map \cup {c}, us, cl)
<1> DEFINE z == [x EXCEPT !.peer = "open", !.loop_ = l]
           y == connect_established(z, u)
<1>0. l \in Nat /\ Base \in Loops
  BY ServerAssumption DEF Loops, Base
<1>1. /\ Fresh(x) /\ c \notin map /\ us = "none" /\ Stream(x)
      /\ \A k \in Loops : \A i \in DOMAIN Queue(lp[k]) : Queue(lp[k])[i].c # c
      /\ \A k \in Loops : \A i \in DOMAIN lp[k].todo : lp[k].todo[i].c # c
      /\ \A k \in Loops : \A f \in {Est(c), Des(c), Rem(c)} : Times(Queue(lp[k]), f) = 0
  BY Unborn
<1>2. z \in Conn /\ Born(z) /\ Fresh(z) /\ Stream(z) /\ z.loop_ = l
  BY <1>0, <1>1, Constructed
<1> HIDE DEF z
<1>3. y \in Conn /\ Evolves(z, y) /\ (Fresh(z) /\ Steady(y) => Up(y))
  BY <1>2, ConnectEstablished
<1> HIDE DEF y
<1>4. ASSUME l = Base PROVE ConnOk(c, y, lp, map \cup {c}, us, cl)
  <2>1. Born(y) /\ y.loop_ = l /\ Stream(y)
    BY <1>2, <1>3 DEF Evolves, Born
  <2>2. \A k \in Loops : QueueOk(c, y, k, Queue(lp[k])) /\ TodoOk(c, y, k, lp[k].todo)
    BY <1>1 DEF QueueOk, TodoOk
  <2>3. Ahead(Queue(lp[l]), Est(c), Des(c))
    BY <1>1, QueueFacts
  <2>4. LifeOk(c, y, Queue(lp[y.loop_]), Queue(lp[Base]), map \cup {c}, cl)
    BY <1>0, <1>1, <1>2, <1>3, <2>1, <2>3 DEF LifeOk, Life, Held
  <2> QED  BY <1>1, <2>1, <2>2, <2>4 DEF ConnOk
<1>5. ASSUME NEW lq, l # Base, Adds(lp, lq, l, Est(c))
      PROVE  ConnOk(c, z, lq, map \cup {c}, us, cl)
  <2>1. /\ Est(c) \in Functors /\ Est(c) # Des(c) /\ Est(c) # Rem(c)
        /\ Est(c).op = "connect_established"
    BY Different
  <2>2. Enqueued(lp, lq, l, Est(c))
    BY <1>5, <2>1, AddedFacts
  <2>3. /\ Times(Queue(lq[l]), Est(c)) = 1 /\ Times(Queue(lq[l]), Des(c)) = 0
        /\ Times(Queue(lq[Base]), Rem(c)) = 0
    BY <1>0, <1>1, <2>1, <2>2 DEF Enqueued
  <2>4. Placed(z, l, Est(c))
    BY <1>2, <2>1 DEF Placed
  <2>5. \A k \in Loops : QueueOk(c, z, k, Queue(lq[k]))
    BY <1>1, <2>2, <2>4, ZenonT(30) DEF QueueOk, Enqueued
  <2>6. \A k \in Loops : TodoOk(c, z, k, lq[k].todo)
    BY <1>1, <1>5 DEF TodoOk, Adds
  <2>7. Ahead(Queue(lq[l]), Est(c), Des(c))
    <3>1. Never(Queue(lq[l]), Des(c))
      BY <2>3 DEF Times
    <3> QED  BY <3>1 DEF Never, Ahead
  <2>8. LifeOk(c, z, Queue(lq[z.loop_]), Queue(lq[Base]), map \cup {c}, cl)
    BY <1>2, <1>5, <2>3, <2>7 DEF LifeOk, Life, Held
  <2> QED  BY <1>1, <1>2, <2>5, <2>6, <2>8 DEF ConnOk
<1> QED  BY <1>2, <1>3, <1>4, <1>5 DEF y, z

-----------------------------------------------------------------------------
(* What the steps leave alone.                                             *)

\* Nothing changes on the loops for connections other than c.
OthersKept(c, lp, lq) ==
    \A d \in Conns : d # c => SameQueues(d, lp, lq) /\ SameTodo(d, lp, lq)

\* Two changes of the loops one after the other.
LEMMA OthersTransitive ==
    ASSUME NEW c, NEW lp, NEW lr, NEW lq
    PROVE  OthersKept(c, lp, lr) /\ OthersKept(c, lr, lq) => OthersKept(c, lp, lq)
<1> SUFFICES ASSUME OthersKept(c, lp, lr), OthersKept(c, lr, lq), NEW d \in Conns, d # c
             PROVE  SameQueues(d, lp, lq) /\ SameTodo(d, lp, lq)
  BY DEF OthersKept
<1>1. /\ SameQueues(d, lp, lr) /\ SameTodo(d, lp, lr)
      /\ SameQueues(d, lr, lq) /\ SameTodo(d, lr, lq)
  BY DEF OthersKept
<1>2. SameQueues(d, lp, lq)
  BY <1>1, SameForTransitive DEF SameQueues
<1>3. SameTodo(d, lp, lq)
  <2> SUFFICES ASSUME NEW l \in Loops, NEW i \in DOMAIN lq[l].todo, lq[l].todo[i].c = d
               PROVE  \E j \in DOMAIN lp[l].todo : lp[l].todo[j] = lq[l].todo[i]
    BY DEF SameTodo
  <2>1. PICK j \in DOMAIN lr[l].todo : lr[l].todo[j] = lq[l].todo[i]
    BY <1>1 DEF SameTodo
  <2>2. PICK k \in DOMAIN lp[l].todo : lp[l].todo[k] = lr[l].todo[j]
    BY <1>1, <2>1 DEF SameTodo
  <2> QED  BY <2>1, <2>2
<1> QED  BY <1>2, <1>3

\* Connections that none of the queues, and none of the lists of active channels,
\* is changed for.
LEMMA OthersOf ==
    ASSUME NEW c, NEW lp, NEW lq, NEW l \in Loops,
           \A k \in Loops : k # l => Queue(lq[k]) = Queue(lp[k]),
           \A k \in Loops : lq[k].todo = lp[k].todo,
           \A d \in Conns : d # c => SameFor(d, Queue(lp[l]), Queue(lq[l]))
    PROVE  OthersKept(c, lp, lq)
<1> SUFFICES ASSUME NEW d \in Conns, d # c
             PROVE  SameQueues(d, lp, lq) /\ SameTodo(d, lp, lq)
  BY DEF OthersKept
<1>1. SameTodo(d, lp, lq)
  BY DEF SameTodo
<1>2. ASSUME NEW k \in Loops PROVE SameFor(d, Queue(lp[k]), Queue(lq[k]))
  <2>1. CASE k = l
    BY <2>1
  <2>2. CASE k # l
    <3>1. Queue(lq[k]) = Queue(lp[k])
      BY <2>2
    <3> QED  BY <3>1, SameForTransitive
  <2> QED  BY <2>1, <2>2
<1> QED  BY <1>1, <1>2 DEF SameQueues

\* Loop l takes its next functor.
LEMMA FunctorTaken ==
    ASSUME NEW lp, NEW cl, LoopsOk(lp, cl), NEW l \in Loops,
           lp[l].at = "functors", lp[l].functors # <<>>
    PROVE  LET lq == [lp EXCEPT ![l].functors = Tail(@)]
               f == Head(lp[l].functors)
           IN  LoopsOk(lq, cl) /\ f \in Functors /\ Takes(lp, lq, l, f) /\ OthersKept(f.c, lp, lq)
<1> DEFINE lq == [lp EXCEPT ![l].functors = Tail(@)]
           f == Head(lp[l].functors)
<1>1. /\ LoopsOk(lq, cl) /\ f \in Functors
      /\ Queue(lp[l]) # <<>> /\ Head(Queue(lp[l])) = f
      /\ Queue(lq[l]) = Tail(Queue(lp[l]))
      /\ \A k \in Loops : k # l => Queue(lq[k]) = Queue(lp[k])
      /\ \A k \in Loops : lq[k].todo = lp[k].todo
      /\ lp[l].todo = <<>>
  BY LoopTakes
<1> HIDE DEF lq, f
<1>2. \A k \in Loops : Queue(lp[k]) \in Seq(Functors) /\ Queue(lq[k]) \in Seq(Functors)
  BY <1>1, QueueType
<1>3. Takes(lp, lq, l, f)
  BY <1>1, <1>2 DEF Takes
<1>4. \A d \in Conns : d # f.c => SameFor(d, Queue(lp[l]), Queue(lq[l]))
  BY <1>1, <1>2, SameForTail
<1>5. OthersKept(f.c, lp, lq)
  BY <1>1, <1>4, OthersOf
<1> QED  BY <1>1, <1>3, <1>5 DEF lq, f

\* A functor is appended to the queue of loop l.
LEMMA FunctorAdded ==
    ASSUME NEW lp, NEW cl, LoopsOk(lp, cl), NEW l \in Loops, NEW f \in Functors
    PROVE  LET lq == queue_in_loop(lp, l, f)
           IN  LoopsOk(lq, cl) /\ Adds(lp, lq, l, f) /\ OthersKept(f.c, lp, lq)
<1> DEFINE lq == queue_in_loop(lp, l, f)
<1>1. /\ LoopsOk(lq, cl)
      /\ Queue(lq[l]) = Queue(lp[l]) \o <<f>>
      /\ \A k \in Loops : k # l => Queue(lq[k]) = Queue(lp[k])
      /\ \A k \in Loops : lq[k].todo = lp[k].todo
  BY LoopQueues
<1> HIDE DEF lq
<1>2. \A k \in Loops : Queue(lp[k]) \in Seq(Functors) /\ Queue(lq[k]) \in Seq(Functors)
  BY <1>1, QueueType
<1>3. Adds(lp, lq, l, f)
  BY <1>1, <1>2 DEF Adds
<1>4. ASSUME NEW d \in Conns, d # f.c PROVE SameFor(d, Queue(lp[l]), Queue(lq[l]))
  <2> DEFINE o == <<f>>
  <2>1. o \in Seq(Functors) /\ DOMAIN o = {1} /\ o[1] = f
    BY Singleton
  <2>2. Queue(lq[l]) = Queue(lp[l]) \o o
    BY <1>1
  <2> HIDE DEF o
  <2> QED  BY <1>2, <1>4, <2>1, <2>2, SameForConcat
<1>5. OthersKept(f.c, lp, lq)
  BY <1>1, <1>4, OthersOf
<1> QED  BY <1>1, <1>3, <1>5 DEF lq

\* Loop l makes a callback of its first active channel.
LEMMA CallbackMade ==
    ASSUME NEW lp, NEW cl, LoopsOk(lp, cl), NEW l \in Loops,
           lp[l].at = "events", lp[l].todo # <<>>
    PROVE  LET lq == [lp EXCEPT ![l].todo = After(@)]
               h == Head(lp[l].todo)
           IN  /\ LoopsOk(lq, cl) /\ h \in Entries /\ Pops(lp, lq, l, h) /\ OthersKept(h.c, lp, lq)
               /\ h.c = "acceptor" => l = Base
<1> DEFINE lq == [lp EXCEPT ![l].todo = After(@)]
           h == Head(lp[l].todo)
<1>1. /\ LoopsOk(lq, cl)
      /\ h \in Entries /\ 1 \in DOMAIN lp[l].todo /\ h = lp[l].todo[1]
      /\ h.cbs # <<>> /\ (\A a, b \in Ends(h.cbs) : a = b)
      /\ h.c = "acceptor" => l = Base
      /\ \A k \in Loops : Queue(lq[k]) = Queue(lp[k])
      /\ \A k \in Loops : k # l => lq[k].todo = lp[k].todo
      /\ \A i \in DOMAIN lq[l].todo :
           \/ \E j \in DOMAIN lp[l].todo :
                lp[l].todo[j] = lq[l].todo[i] /\ lp[l].todo[j].c # h.c
           \/ lq[l].todo[i].c = h.c /\ lq[l].todo[i].cbs = Tail(h.cbs)
  BY LoopPops, ZenonT(30)
<1> HIDE DEF lq, h
<1>2. \A k \in Loops : Queue(lp[k]) \in Seq(Functors)
  BY QueueType
<1>3. h.cbs \in Seq(Callbacks)
  BY <1>1 DEF Entries
<1>4. Pops(lp, lq, l, h)
  BY <1>1, <1>2, <1>3 DEF Pops
<1>5. ASSUME NEW d \in Conns, d # h.c PROVE SameQueues(d, lp, lq) /\ SameTodo(d, lp, lq)
  <2>1. SameQueues(d, lp, lq)
    BY <1>1, SameForTransitive DEF SameQueues
  <2>2. ASSUME NEW k \in Loops, NEW i \in DOMAIN lq[k].todo, lq[k].todo[i].c = d
        PROVE  \E j \in DOMAIN lp[k].todo : lp[k].todo[j] = lq[k].todo[i]
    BY <1>1, <1>5, <2>2
  <2> QED  BY <2>1, <2>2 DEF SameTodo
<1> QED  BY <1>1, <1>4, <1>5 DEF lq, h, OthersKept

-----------------------------------------------------------------------------
(* The invariant.                                                          *)

UserStates == {"none", "holds", "send_in_loop", "shut_down_in_loop"}

ServerOk(cn, map, lp, us, cl) ==
    /\ cn \in [Conns -> Conn] /\ map \subseteq Conns /\ us \in [Conns -> UserStates]
    /\ cl \in Nat
    /\ IsFiniteSet({c \in Conns : Born(cn[c])})
    /\ LoopsOk(lp, cl)
    /\ \A c \in Conns : ConnOk(c, cn[c], lp, map, us[c], cl)

\* The inductive invariant of the server: the types, every loop has a well-formed
\* list of callbacks and queue of functors, and every connection is in one of the
\* phases of its life, with the functors that this phase says.
ServerInv ==
    /\ ServerOk(conn, connections_, loop, user, closing)
    /\ next_ \in Nat /\ (next_ = 0 \/ next_ < num_threads_)

\* A step that is about one connection.
LEMMA OneStep ==
    ASSUME NEW cn, NEW map, NEW lp, NEW us, NEW cl, ServerOk(cn, map, lp, us, cl),
           NEW c \in Conns, NEW y \in Conn, NEW mp2, NEW lq, NEW s \in UserStates,
           map \ {c} = mp2 \ {c}, LoopsOk(lq, cl), OthersKept(c, lp, lq),
           ConnOk(c, y, lq, mp2, s, cl)
    PROVE  ServerOk([cn EXCEPT ![c] = y], mp2, lq, [us EXCEPT ![c] = s], cl)
<1> DEFINE cn2 == [cn EXCEPT ![c] = y]
           us2 == [us EXCEPT ![c] = s]
<1>0. /\ cn \in [Conns -> Conn] /\ map \subseteq Conns /\ us \in [Conns -> UserStates]
      /\ cl \in Nat /\ IsFiniteSet({d \in Conns : Born(cn[d])})
      /\ \A d \in Conns : ConnOk(d, cn[d], lp, map, us[d], cl)
  BY DEF ServerOk
<1>1. /\ cn2 \in [Conns -> Conn] /\ cn2[c] = y /\ us2 \in [Conns -> UserStates] /\ us2[c] = s
      /\ \A d \in Conns : d # c => cn2[d] = cn[d] /\ us2[d] = us[d]
  BY <1>0
<1>2. mp2 \subseteq Conns
  BY <1>0
<1> HIDE DEF cn2, us2
<1>3. IsFiniteSet({d \in Conns : Born(cn2[d])})
  <2> DEFINE T == {d \in Conns : Born(cn2[d])}
             S == {d \in Conns : Born(cn[d])}
  <2>1. T \in SUBSET (S \cup {c})
    BY <1>1
  <2>2. IsFiniteSet(S)
    BY <1>0
  <2> HIDE DEF S, T
  <2>3. IsFiniteSet(S \cup {c})
    BY <2>2, FS_AddElement
  <2>4. IsFiniteSet(T)
    BY <2>1, <2>3, FS_Subset
  <2> QED  BY <2>4 DEF T
<1>4. ASSUME NEW d \in Conns PROVE ConnOk(d, cn2[d], lq, mp2, us2[d], cl)
  <2>1. CASE d = c
    BY <1>1, <2>1
  <2>2. CASE d # c
    <3>1. SameQueues(d, lp, lq) /\ SameTodo(d, lp, lq)
      BY <2>2 DEF OthersKept
    <3>2. d \in map <=> d \in mp2
      BY <2>2
    <3>3. ConnOk(d, cn[d], lp, map, us[d], cl)
      BY <1>0
    <3>4. ConnOk(d, cn[d], lq, mp2, us[d], cl)
      BY <3>1, <3>2, <3>3, Bystander
    <3> QED  BY <1>1, <2>2, <3>4
  <2> QED  BY <2>1, <2>2
<1>5. ServerOk(cn2, mp2, lq, us2, cl)
  BY <1>0, <1>1, <1>2, <1>3, <1>4 DEF ServerOk
<1> QED  BY <1>5 DEF cn2, us2

\* The same when the user's thread of the connection does nothing.
LEMMA LoopStepOk ==
    ASSUME NEW cn, NEW map, NEW lp, NEW us, NEW cl, ServerOk(cn, map, lp, us, cl),
           NEW c \in Conns, NEW y \in Conn, NEW mp2, NEW lq,
           map \ {c} = mp2 \ {c}, LoopsOk(lq, cl), OthersKept(c, lp, lq),
           ConnOk(c, y, lq, mp2, us[c], cl)
    PROVE  ServerOk([cn EXCEPT ![c] = y], mp2, lq, us, cl)
<1>1. us \in [Conns -> UserStates] /\ us[c] \in UserStates
  BY DEF ServerOk
<1>2. us = [us EXCEPT ![c] = us[c]]
  BY <1>1
<1>3. ServerOk([cn EXCEPT ![c] = y], mp2, lq, [us EXCEPT ![c] = us[c]], cl)
  BY <1>1, OneStep
<1> QED  BY <1>2, <1>3

\* A change of the loops that no connection notices.
LEMMA LoopsChange ==
    ASSUME NEW cn, NEW map, NEW lp, NEW us, NEW cl, ServerOk(cn, map, lp, us, cl),
           NEW cl2 \in Nat, NEW lq, LoopsOk(lq, cl2), cl > 0 <=> cl2 > 0,
           \A c \in Conns : SameQueues(c, lp, lq) /\ SameTodo(c, lp, lq)
    PROVE  ServerOk(cn, map, lq, us, cl2)
<1>1. cl = 0 <=> cl2 = 0
  BY DEF ServerOk
<1>2. ASSUME NEW c \in Conns PROVE ConnOk(c, cn[c], lq, map, us[c], cl2)
  BY <1>1, Bystander DEF ServerOk
<1> QED  BY <1>2 DEF ServerOk

\* What is known of one connection.
LEMMA OfServerOk ==
    ASSUME NEW cn, NEW map, NEW lp, NEW us, NEW cl, ServerOk(cn, map, lp, us, cl), NEW c \in Conns
    PROVE  /\ cn[c] \in Conn /\ ConnOk(c, cn[c], lp, map, us[c], cl) /\ LoopsOk(lp, cl)
           /\ us[c] \in UserStates /\ cl \in Nat /\ cn[c].loop_ \in Loops
<1>1. ConnOk(c, cn[c], lp, map, us[c], cl)
  BY DEF ServerOk
<1> QED  BY <1>1 DEF ServerOk, ConnOk

\* send_in_loop or shut_down_in_loop is run from the queue.
LEMMA OwnServed ==
    ASSUME NEW c, NEW x \in Conn, NEW y \in Conn, NEW lp, NEW lq, NEW map, NEW us, NEW cl,
           NEW l \in Loops, NEW f, f.c = c, f.op \in {"send_in_loop", "shut_down_in_loop"},
           ConnOk(c, x, lp, map, us, cl), Takes(lp, lq, l, f), Keeps(x, y)
    PROVE  ConnOk(c, y, lq, map, us, cl)
<1>1. Born(x) /\ Placed(x, l, f)
  BY TakenFacts
<1>2. x.ups > 0
  BY <1>1 DEF Placed
<1>3. Steady(x) => ~Fresh(x)
  BY <1>2 DEF Fresh
<1>4. us # "none" => y.ups > 0
  <2>1. x.ups \in Nat /\ y.ups \in Nat
    BY DEF Conn
  <2>2. x.ups <= y.ups
    BY DEF Evolves, Keeps
  <2> QED  BY <1>2, <2>1, <2>2
<1>5. SameQueues(c, lp, lq)
  <2>1. SameFor(c, Queue(lp[l]), Queue(lq[l]))
    BY SameForTail DEF Takes
  <2>2. ASSUME NEW k \in Loops, k # l PROVE SameFor(c, Queue(lp[k]), Queue(lq[k]))
    <3>1. Queue(lq[k]) = Queue(lp[k])
      BY <2>2 DEF Takes
    <3> QED  BY <3>1, SameForTransitive
  <2> QED  BY <2>1, <2>2 DEF SameQueues
<1>6. FewerTodo(c, lp, lq)
  BY DEF FewerTodo, Takes
<1> QED  BY <1>1, <1>3, <1>4, <1>5, <1>6, OwnKeeps

\* functor: the next functor of a loop.
LEMMA FunctorStep ==
    ASSUME ServerInv, NEW l \in Loops, functor(l)
    PROVE  ServerInv'
<1> DEFINE f == Head(loop[l].functors)
           c == f.c
           x == conn[c]
           lq == [loop EXCEPT ![l].functors = Tail(@)]
<1>1. ServerOk(conn, connections_, loop, user, closing)
  BY DEF ServerInv
<1>2. loop[l].at = "functors" /\ loop[l].functors # <<>> /\ LoopsOk(loop, closing)
  BY <1>1 DEF functor, ServerOk
<1>3. LoopsOk(lq, closing) /\ f \in Functors /\ Takes(loop, lq, l, f) /\ OthersKept(c, loop, lq)
  BY <1>2, FunctorTaken
<1>4. c \in Conns /\ f.op \in Ops /\ f = Functor(f.op, c)
  BY <1>3 DEF Functors, Functor
<1>5. /\ x \in Conn /\ ConnOk(c, x, loop, connections_, user[c], closing)
      /\ user[c] \in UserStates /\ closing \in Nat /\ x.loop_ \in Loops
  BY <1>1, <1>4, OfServerOk
<1>6. next_' \in Nat /\ (next_' = 0 \/ next_' < num_threads_) /\ user' = user /\ closing' = closing
  BY DEF functor, ServerInv
<1> SUFFICES ServerOk(conn', connections_', loop', user, closing)
  BY <1>6 DEF ServerInv
<1>7. \/ /\ f.op = "connect_established" /\ loop' = lq /\ connections_' = connections_
         /\ Calls(c, x, connect_established)
      \/ /\ f.op = "connect_destroyed" /\ loop' = lq /\ connections_' = connections_
         /\ Calls(c, IF closing > 0 THEN condemn(x) ELSE x, connect_destroyed)
      \/ /\ f.op = "shut_down_in_loop" /\ loop' = lq /\ connections_' = connections_
         /\ conn' = [conn EXCEPT ![c] = shut_down_in_loop(x)]
      \/ /\ f.op = "send_in_loop" /\ loop' = lq /\ connections_' = connections_
         /\ conn' = [conn EXCEPT ![c] = send_in_loop(x)]
      \/ /\ f.op = "remove_connection_in_loop" /\ remove_connection_in_loop(c, conn, lq)
  BY DEF functor
<1> HIDE DEF lq, f, c, x
<1>8. CASE /\ f.op = "connect_established" /\ loop' = lq /\ connections_' = connections_
           /\ Calls(c, x, connect_established)
  <2>1. PICK u \in CallbackChoices : conn' = [conn EXCEPT ![c] = connect_established(x, u)]
    BY <1>8 DEF Calls, UserChoices
  <2>2. f = Est(c)
    BY <1>4, <1>8 DEF Est
  <2>3. /\ connect_established(x, u) \in Conn
        /\ ConnOk(c, connect_established(x, u), lq, connections_, user[c], closing)
    BY <1>3, <1>5, <2>2, OwnEstablished
  <2> QED  BY <1>1, <1>3, <1>4, <1>8, <2>1, <2>3, LoopStepOk
<1>9. CASE /\ f.op = "connect_destroyed" /\ loop' = lq /\ connections_' = connections_
           /\ Calls(c, IF closing > 0 THEN condemn(x) ELSE x, connect_destroyed)
  <2> DEFINE w == IF closing > 0 THEN condemn(x) ELSE x
  <2>1. PICK u \in CallbackChoices : conn' = [conn EXCEPT ![c] = connect_destroyed(w, u)]
    BY <1>9 DEF Calls, UserChoices
  <2>2. f = Des(c)
    BY <1>4, <1>9 DEF Des
  <2> DEFINE y == connect_destroyed(w, u)
  <2>3. /\ y \in Conn /\ Evolves(x, y)
        /\ Steady(y) => /\ Steady(x)
                        /\ Closed(x) => Removed(y)
                        /\ Up(x) /\ closing > 0 => Removed(y)
    BY <1>5, Destroys
  <2> HIDE DEF y
  <2>4. ConnOk(c, y, lq, connections_, user[c], closing)
    BY <1>3, <1>5, <2>2, <2>3, OwnDestroyed
  <2>5. conn' = [conn EXCEPT ![c] = y]
    BY <2>1 DEF y
  <2> QED  BY <1>1, <1>3, <1>4, <1>9, <2>3, <2>4, <2>5, LoopStepOk
<1>10. ASSUME f.op \in {"shut_down_in_loop", "send_in_loop"}, NEW y \in Conn, Keeps(x, y),
              loop' = lq, connections_' = connections_, conn' = [conn EXCEPT ![c] = y]
       PROVE  ServerOk(conn', connections_', loop', user, closing)
  <2>1. ConnOk(c, y, lq, connections_, user[c], closing)
    BY <1>3, <1>5, <1>10, OwnServed DEF c
  <2> QED  BY <1>1, <1>3, <1>4, <1>10, <2>1, LoopStepOk
<1>11. CASE /\ f.op = "shut_down_in_loop" /\ loop' = lq /\ connections_' = connections_
            /\ conn' = [conn EXCEPT ![c] = shut_down_in_loop(x)]
  BY <1>5, <1>10, <1>11, ShutDownInLoop
<1>12. CASE /\ f.op = "send_in_loop" /\ loop' = lq /\ connections_' = connections_
            /\ conn' = [conn EXCEPT ![c] = send_in_loop(x)]
  BY <1>5, <1>10, <1>12, SendInLoop
<1>13. CASE f.op = "remove_connection_in_loop" /\ remove_connection_in_loop(c, conn, lq)
  <2> DEFINE y == Assert_(x, c \in connections_, "tcp_server.cpp:124")
             lr == queue_in_loop(lq, x.loop_, Des(c))
             map == connections_ \ {c}
  <2>1. conn' = [conn EXCEPT ![c] = y] /\ connections_' = map /\ loop' = lr
    BY <1>13 DEF remove_connection_in_loop, Des, x
  <2>2. f = Rem(c)
    BY <1>4, <1>13 DEF Rem
  <2>3. l = Base
    <3>1. Placed(x, l, f)
      BY <1>3, <1>5, TakenFacts DEF c
    <3> QED  BY <1>13, <3>1 DEF Placed
  <2>4. closing = 0
    BY <1>2, <1>5, <2>3 DEF LoopsOk
  <2>5. Des(c) \in Functors /\ Des(c).c = c
    BY <1>4, Different
  <2>6. LoopsOk(lr, closing) /\ Adds(lq, lr, x.loop_, Des(c)) /\ OthersKept(c, lq, lr)
    BY <1>3, <1>5, <2>5, FunctorAdded
  <2> HIDE DEF lr
  <2>7. y \in Conn /\ ConnOk(c, y, lr, map, user[c], closing)
    BY <1>3, <1>4, <1>5, <2>2, <2>3, <2>4, <2>6, OwnRemoves
  <2>8. OthersKept(c, loop, lr)
    BY <1>3, <2>6, OthersTransitive
  <2>9. connections_ \ {c} = map \ {c}
    OBVIOUS
  <2> HIDE DEF y, map
  <2> QED  BY <1>1, <1>4, <2>1, <2>6, <2>7, <2>8, <2>9, LoopStepOk
<1> QED  BY <1>7, <1>8, <1>9, <1>11, <1>12, <1>13

\* Nothing changes on the loops.
LEMMA OthersSame ==
    ASSUME NEW c, NEW lp
    PROVE  OthersKept(c, lp, lp)
  BY SameForTransitive DEF OthersKept, SameQueues, SameTodo

\* A change of what the kernel keeps, seen from the server.
LEMMA KernelStepOk ==
    ASSUME NEW cn, NEW map, NEW lp, NEW us, NEW cl, ServerOk(cn, map, lp, us, cl),
           NEW c \in Conns, NEW y \in Conn, NEW s \in UserStates,
           KernelStep(cn[c], y), s # "none" => us[c] # "none"
    PROVE  ServerOk([cn EXCEPT ![c] = y], map, lp, [us EXCEPT ![c] = s], cl)
<1>1. cn[c] \in Conn /\ ConnOk(c, cn[c], lp, map, us[c], cl) /\ LoopsOk(lp, cl)
  BY OfServerOk
<1>2. ConnOk(c, y, lp, map, s, cl)
  BY <1>1, OwnKernel
<1>3. OthersKept(c, lp, lp)
  BY OthersSame
<1> QED  BY <1>1, <1>2, <1>3, OneStep

\* The peer, or the server on its behalf, changes the socket; x is the connection.
LEMMA SocketSteps ==
    ASSUME NEW x \in Conn
    PROVE  /\ \A p \in Peers :
                /\ x.peer = "rst" => p = "rst"
                /\ p \in {"away", "backlog", "refused"} <=> ~Born(x)
                => LET y == [x EXCEPT !.peer = p] IN y \in Conn /\ KernelStep(x, y)
           /\ LET y == [x EXCEPT !.peer = "rst", !.so_error = TRUE]
              IN  y \in Conn /\ (Born(x) => KernelStep(x, y))
           /\ LET y == [x EXCEPT !.inq = 1] IN y \in Conn /\ KernelStep(x, y)
           /\ LET y == [x EXCEPT !.room = @ + 1] IN y \in Conn /\ KernelStep(x, y)
           /\ LET y == [x EXCEPT !.sends = @ + 1] IN y \in Conn /\ KernelStep(x, y)
<1>0. x.room \in Nat /\ x.sends \in Nat /\ "rst" \in Peers
  BY DEF Conn, Peers
<1>1. ASSUME NEW p \in Peers, x.peer = "rst" => p = "rst",
             p \in {"away", "backlog", "refused"} <=> ~Born(x)
      PROVE  LET y == [x EXCEPT !.peer = p] IN y \in Conn /\ KernelStep(x, y)
  BY <1>1 DEF KernelStep, SameButData, Born, Conn
<1>2. LET y == [x EXCEPT !.peer = "rst", !.so_error = TRUE]
      IN  y \in Conn /\ (Born(x) => KernelStep(x, y))
  BY <1>0 DEF KernelStep, SameButData, Born, Conn
<1>3. LET y == [x EXCEPT !.inq = 1] IN y \in Conn /\ KernelStep(x, y)
  BY DEF KernelStep, SameButData, Born, Conn
<1>4. LET y == [x EXCEPT !.room = @ + 1] IN y \in Conn /\ KernelStep(x, y)
  <2>1. PICK n \in Nat : n = x.room + 1
    BY <1>0
  <2>2. LET y == [x EXCEPT !.room = n] IN y \in Conn /\ KernelStep(x, y)
    BY DEF KernelStep, SameButData, Born, Conn
  <2> QED  BY <2>1, <2>2
<1>5. LET y == [x EXCEPT !.sends = @ + 1] IN y \in Conn /\ KernelStep(x, y)
  <2>1. PICK n \in Nat : n = x.sends + 1
    BY <1>0
  <2>2. LET y == [x EXCEPT !.sends = n] IN y \in Conn /\ KernelStep(x, y)
    BY DEF KernelStep, SameButData, Born, Conn
  <2> QED  BY <2>1, <2>2
<1> QED  BY <1>1, <1>2, <1>3, <1>4, <1>5

\* get_next_loop: a loop of the pool, and the next value of next_.
LEMMA NextLoop ==
    ASSUME next_ \in Nat, next_ = 0 \/ next_ < num_threads_
    PROVE  /\ get_next_loop[1] \in Loops
           /\ get_next_loop[2] \in Nat /\ (get_next_loop[2] = 0 \/ get_next_loop[2] < num_threads_)
           /\ num_threads_ > 0 => get_next_loop[1] = next_ + 1
           /\ num_threads_ > 0 =>
                get_next_loop[2] = IF next_ + 1 >= num_threads_ THEN 0 ELSE next_ + 1
<1>1. num_threads_ \in Nat
  BY ServerAssumption
<1>2. CASE num_threads_ = 0
  BY <1>1, <1>2 DEF get_next_loop, Loops, Base
<1>3. CASE num_threads_ > 0
  BY <1>1, <1>3 DEF get_next_loop, Loops, Base
<1> QED  BY <1>1, <1>2, <1>3

\* Acceptor::handle_read on the loops lq: a connection is constructed, or refused.
LEMMA AcceptStep ==
    ASSUME ServerInv, NEW lq, ServerOk(conn, connections_, lq, user, closing), closing = 0,
           accept(lq), user' = user, closing' = closing
    PROVE  ServerInv'
<1>1. PICK c \in Conns : /\ conn[c].peer = "backlog"
                         /\ \/ new_connection(c, lq)
                            \/ /\ conn' = [conn EXCEPT ![c].peer = "refused"]
                               /\ loop' = lq /\ connections_' = connections_ /\ next_' = next_
  BY DEF accept
<1> DEFINE x == conn[c]
           l == get_next_loop[1]
           z == [x EXCEPT !.peer = "open", !.loop_ = l]
           map == connections_ \cup {c}
<1>2. next_ \in Nat /\ (next_ = 0 \/ next_ < num_threads_)
  BY DEF ServerInv
<1>3. /\ x \in Conn /\ ConnOk(c, x, lq, connections_, user[c], closing) /\ LoopsOk(lq, closing)
      /\ user[c] \in UserStates
  BY OfServerOk
<1>4. ~Born(x)
  BY <1>1 DEF Born
<1>5. l \in Loops /\ get_next_loop[2] \in Nat
      /\ (get_next_loop[2] = 0 \/ get_next_loop[2] < num_threads_)
  BY <1>2, NextLoop
<1>6. \A k \in Loops : Queue(lq[k]) \in Seq(Functors)
  BY <1>3, QueueType
<1>7. connections_ \ {c} = map \ {c} /\ OthersKept(c, lq, lq)
  BY OthersSame
<1>8. CASE new_connection(c, lq)
  <2>1. /\ connections_' = map /\ next_' = get_next_loop[2]
        /\ \/ l = Base /\ Calls(c, z, connect_established) /\ loop' = lq
           \/ /\ l # Base /\ conn' = [conn EXCEPT ![c] = z]
              /\ loop' = queue_in_loop(lq, l, Est(c))
    BY <1>8 DEF new_connection, Est
  <2> HIDE DEF l, z, map, x
  <2>2. CASE l = Base /\ Calls(c, z, connect_established) /\ loop' = lq
    <3>1. PICK u \in CallbackChoices : conn' = [conn EXCEPT ![c] = connect_established(z, u)]
      BY <2>2 DEF Calls, UserChoices
    <3>2. /\ connect_established(z, u) \in Conn
          /\ ConnOk(c, connect_established(z, u), lq, map, user[c], closing)
      BY <1>3, <1>4, <1>5, <1>6, <2>2, OwnAccepted DEF z, map
    <3>3. ServerOk(conn', connections_', loop', user, closing)
      BY <1>3, <1>7, <2>1, <2>2, <3>1, <3>2, LoopStepOk
    <3> QED  BY <1>5, <2>1, <3>3 DEF ServerInv
  <2>3. CASE /\ l # Base /\ conn' = [conn EXCEPT ![c] = z]
             /\ loop' = queue_in_loop(lq, l, Est(c))
    <3> DEFINE lr == queue_in_loop(lq, l, Est(c))
    <3>1. Est(c) \in Functors /\ Est(c).c = c
      BY Different
    <3>2. LoopsOk(lr, closing) /\ Adds(lq, lr, l, Est(c)) /\ OthersKept(c, lq, lr)
      BY <1>3, <1>5, <3>1, FunctorAdded
    <3> HIDE DEF lr
    <3>n. "nothing" \in CallbackChoices
      BY DEF CallbackChoices
    <3>3. z \in Conn /\ ConnOk(c, z, lr, map, user[c], closing)
      BY <1>3, <1>4, <1>5, <1>6, <2>3, <3>2, <3>n, OwnAccepted DEF z, map
    <3>4. ServerOk(conn', connections_', loop', user, closing)
      BY <1>3, <1>7, <2>1, <2>3, <3>2, <3>3, LoopStepOk DEF lr
    <3> QED  BY <1>5, <2>1, <3>4 DEF ServerInv
  <2> QED  BY <2>1, <2>2, <2>3
<1>9. CASE /\ conn' = [conn EXCEPT ![c].peer = "refused"]
           /\ loop' = lq /\ connections_' = connections_ /\ next_' = next_
  <2> DEFINE y == [x EXCEPT !.peer = "refused"]
  <2>1. conn' = [conn EXCEPT ![c] = y]
    BY <1>9
  <2>2. "refused" \in Peers /\ x.peer # "rst"
    BY <1>1 DEF Peers
  <2>3. y \in Conn /\ KernelStep(x, y)
    BY <1>3, <1>4, <2>2, SocketSteps
  <2>4. ConnOk(c, y, lq, connections_, user[c], closing)
    BY <1>3, <2>3, OwnKernel
  <2> HIDE DEF y
  <2>5. connections_ \ {c} = connections_ \ {c}
    OBVIOUS
  <2>6. ServerOk([conn EXCEPT ![c] = y], connections_, lq, user, closing)
    BY <1>3, <1>7, <2>3, <2>4, <2>5, LoopStepOk
  <2>7. ServerOk(conn', connections_', loop', user, closing)
    BY <1>9, <2>1, <2>6
  <2> QED  BY <1>2, <1>9, <2>7 DEF ServerInv
<1> QED  BY <1>1, <1>8, <1>9

\* event: the next callback of a loop.
LEMMA EventStep ==
    ASSUME ServerInv, NEW l \in Loops, event(l)
    PROVE  ServerInv'
<1> DEFINE h == Head(loop[l].todo)
           c == h.c
           x == conn[c]
           cb == Head(h.cbs)
           lq == [loop EXCEPT ![l].todo = After(@)]
<1>1. ServerOk(conn, connections_, loop, user, closing)
  BY DEF ServerInv
<1>2. loop[l].at = "events" /\ loop[l].todo # <<>> /\ LoopsOk(loop, closing)
  BY <1>1 DEF event, ServerOk
<1>3. /\ LoopsOk(lq, closing) /\ h \in Entries /\ Pops(loop, lq, l, h) /\ OthersKept(c, loop, lq)
      /\ c = "acceptor" => l = Base
  BY <1>2, CallbackMade
<1>4. c \in Conns \cup {"acceptor"} /\ closing \in Nat /\ (l = Base => closing = 0)
  <2>1. closing \in Nat
    BY <1>1 DEF ServerOk
  <2>2. l = Base => ~(closing > 0)
    BY <1>2 DEF LoopsOk
  <2> QED  BY <1>3, <2>1, <2>2 DEF Entries
<1>5. user' = user /\ closing' = closing /\ next_ \in Nat /\ (next_ = 0 \/ next_ < num_threads_)
  BY DEF event, ServerInv
<1>6. \/ c = "acceptor" /\ accept(lq)
      \/ /\ c # "acceptor" /\ loop' = lq /\ connections_' = connections_ /\ next_' = next_
         /\ \/ conn' = [conn EXCEPT ![c] = handle_error(x)]
            \/ Calls(c, x, handle_read)
            \/ conn' = [conn EXCEPT ![c] = handle_write(x)]
      \/ /\ c # "acceptor" /\ cb \in {"close", "read"}
         /\ \E u \in UserChoices(x) :
                remove_connection(l, c, [conn EXCEPT ![c] = handle_close(x, u)], lq)
         /\ next_' = next_
  BY DEF event, After
<1> HIDE DEF lq, h, c, x, cb
<1>7. CASE c = "acceptor" /\ accept(lq)
  <2>1. \A d \in Conns : SameQueues(d, loop, lq) /\ SameTodo(d, loop, lq)
    BY <1>3, <1>7, ServerAssumption DEF OthersKept
  <2>2. ServerOk(conn, connections_, lq, user, closing)
    BY <1>1, <1>3, <1>4, <2>1, LoopsChange
  <2> QED  BY <1>3, <1>4, <1>5, <1>7, <2>2, AcceptStep
<1>8. ASSUME c # "acceptor"
      PROVE  /\ c \in Conns /\ x \in Conn
             /\ ConnOk(c, x, loop, connections_, user[c], closing)
  BY <1>1, <1>4, <1>8, OfServerOk DEF x
<1>9. CASE /\ c # "acceptor" /\ loop' = lq /\ connections_' = connections_ /\ next_' = next_
           /\ \/ conn' = [conn EXCEPT ![c] = handle_error(x)]
              \/ Calls(c, x, handle_read)
              \/ conn' = [conn EXCEPT ![c] = handle_write(x)]
  <2>1. PICK y \in Conn : conn' = [conn EXCEPT ![c] = y] /\ Keeps(x, y)
    <3>1. CASE conn' = [conn EXCEPT ![c] = handle_error(x)]
      BY <1>8, <1>9, <3>1, HandleError
    <3>2. CASE Calls(c, x, handle_read)
      <4>1. PICK u \in CallbackChoices : conn' = [conn EXCEPT ![c] = handle_read(x, u)]
        BY <3>2 DEF Calls, UserChoices
      <4> QED  BY <1>8, <1>9, <4>1, HandleRead
    <3>3. CASE conn' = [conn EXCEPT ![c] = handle_write(x)]
      BY <1>8, <1>9, <3>3, HandleWrite
    <3> QED  BY <1>9, <3>1, <3>2, <3>3
  <2>2. ConnOk(c, y, lq, connections_, user[c], closing)
    BY <1>3, <1>8, <1>9, <2>1, OwnCalled DEF c
  <2>3. ServerOk(conn', connections_', loop', user, closing)
    BY <1>1, <1>3, <1>8, <1>9, <2>1, <2>2, LoopStepOk
  <2> QED  BY <1>5, <1>9, <2>3 DEF ServerInv
<1>10. CASE /\ c # "acceptor" /\ cb \in {"close", "read"}
            /\ \E u \in UserChoices(x) :
                   remove_connection(l, c, [conn EXCEPT ![c] = handle_close(x, u)], lq)
            /\ next_' = next_
  <2>1. PICK u \in CallbackChoices :
                   remove_connection(l, c, [conn EXCEPT ![c] = handle_close(x, u)], lq)
    BY <1>10 DEF UserChoices
  <2> DEFINE z == handle_close(x, u)
             y == Assert_(z, c \in connections_, "tcp_server.cpp:124")
             cn == [conn EXCEPT ![c] = z]
             map == connections_ \ {c}
  <2>2. c \in Conns /\ x \in Conn /\ ConnOk(c, x, loop, connections_, user[c], closing)
        /\ h.c = c /\ Ending(h)
    BY <1>8, <1>10 DEF c, cb, Ending
  <2>3. /\ z \in Conn /\ y \in Conn /\ z.loop_ = l
        /\ GoesOn(c, y, z, lq, connections_, user[c], closing, l)
    BY <1>3, <1>4, <2>2, OwnCloses
  <2>4. conn \in [Conns -> Conn] /\ cn[c] = z /\ [cn EXCEPT ![c] = y] = [conn EXCEPT ![c] = y]
    BY <1>1, <2>2 DEF ServerOk
  <2>5. /\ Des(c) \in Functors /\ Des(c).c = c /\ Rem(c) \in Functors /\ Rem(c).c = c
        /\ Base \in Loops
    BY <2>2, Different, ServerAssumption DEF Base, Loops
  <2>6. CASE l = Base
    <3> DEFINE lr == queue_in_loop(lq, l, Des(c))
    <3>1. conn' = [conn EXCEPT ![c] = y] /\ connections_' = map /\ loop' = lr
      <4>1. /\ conn' = [cn EXCEPT ![c] = Assert_(cn[c], c \in connections_, "tcp_server.cpp:124")]
            /\ connections_' = map
            /\ loop' = queue_in_loop(lq, cn[c].loop_, Des(c))
        BY <2>1, <2>4, <2>6 DEF remove_connection, remove_connection_in_loop, Des
      <4> QED  BY <2>3, <2>4, <4>1
    <3>2. LoopsOk(lr, closing) /\ Adds(lq, lr, l, Des(c)) /\ OthersKept(c, lq, lr)
      BY <1>3, <2>5, FunctorAdded
    <3> HIDE DEF lr
    <3>3. ConnOk(c, y, lr, map, user[c], closing)
      BY <1>4, <2>3, <2>6, <3>2 DEF GoesOn
    <3>4. OthersKept(c, loop, lr)
      BY <1>3, <3>2, OthersTransitive
    <3>5. connections_ \ {c} = map \ {c}
      OBVIOUS
    <3> HIDE DEF map, y
    <3>6. ServerOk(conn', connections_', loop', user, closing)
      BY <1>1, <2>2, <2>3, <3>1, <3>2, <3>3, <3>4, <3>5, LoopStepOk
    <3> QED  BY <1>5, <1>10, <3>6 DEF ServerInv
  <2>7. CASE l # Base
    <3> DEFINE lr == queue_in_loop(lq, Base, Rem(c))
    <3>1. conn' = [conn EXCEPT ![c] = z] /\ connections_' = connections_ /\ loop' = lr
      BY <2>1, <2>7 DEF remove_connection, Rem
    <3>2. LoopsOk(lr, closing) /\ Adds(lq, lr, Base, Rem(c)) /\ OthersKept(c, lq, lr)
      BY <1>3, <2>5, FunctorAdded
    <3> HIDE DEF lr
    <3>3. ConnOk(c, z, lr, connections_, user[c], closing)
      BY <2>3, <2>7, <3>2 DEF GoesOn
    <3>4. OthersKept(c, loop, lr)
      BY <1>3, <3>2, OthersTransitive
    <3> HIDE DEF z
    <3>6. ServerOk(conn', connections_', loop', user, closing)
      BY <1>1, <2>2, <2>3, <3>1, <3>2, <3>3, <3>4, LoopStepOk
    <3> QED  BY <1>5, <1>10, <3>6 DEF ServerInv
  <2> QED  BY <2>6, <2>7
<1> QED  BY <1>6, <1>7, <1>9, <1>10

\* One loop changes: r is its new record.
LEMMA OneLoop ==
    ASSUME NEW lp, NEW cl, LoopsOk(lp, cl), NEW l \in Loops, NEW r, LoopOk(l, r),
           l = Base /\ cl > 0 => r.at = "exited"
    PROVE  LET lq == [lp EXCEPT ![l] = r]
           IN  LoopsOk(lq, cl) /\ lq[l] = r /\ \A k \in Loops : k # l => lq[k] = lp[k]
<1> DEFINE lq == [lp EXCEPT ![l] = r]
<1>1. lq = [k \in Loops |-> IF k = l THEN r ELSE lp[k]]
  BY DEF LoopsOk
<1> HIDE DEF lq
<1>2. lq[l] = r /\ \A k \in Loops : k # l => lq[k] = lp[k]
  BY <1>1
<1>3. \A k \in Loops : LoopOk(k, lq[k])
  BY <1>2 DEF LoopsOk
<1>4. cl > 0 => lq[Base].at = "exited"
  <2>1. Base \in Loops
    BY ServerAssumption DEF Base, Loops
  <2> QED  BY <1>2, <2>1 DEF LoopsOk
<1>5. lq = [k \in Loops |-> lq[k]]
  BY <1>1
<1> QED  BY <1>2, <1>3, <1>4, <1>5 DEF LoopsOk, lq

\* One loop changes, and no connection notices.
LEMMA QuietLoop ==
    ASSUME NEW cn, NEW map, NEW lp, NEW us, NEW cl, ServerOk(cn, map, lp, us, cl),
           NEW l \in Loops, NEW r, LoopOk(l, r), l = Base /\ cl > 0 => r.at = "exited",
           Queue(r) = Queue(lp[l]), r.todo = lp[l].todo
    PROVE  ServerOk(cn, map, [lp EXCEPT ![l] = r], us, cl)
<1> DEFINE lq == [lp EXCEPT ![l] = r]
<1>1. LoopsOk(lq, cl) /\ lq[l] = r /\ \A k \in Loops : k # l => lq[k] = lp[k]
  BY OneLoop DEF ServerOk
<1> HIDE DEF lq
<1>2. \A k \in Loops : Queue(lq[k]) = Queue(lp[k]) /\ lq[k].todo = lp[k].todo
  BY <1>1
<1>3. \A c \in Conns : SameQueues(c, lp, lq) /\ SameTodo(c, lp, lq)
  BY <1>2, SameForTransitive DEF SameQueues, SameTodo
<1>4. cl \in Nat
  BY DEF ServerOk
<1>5. ServerOk(cn, map, lq, us, cl)
  BY <1>1, <1>3, <1>4, LoopsChange
<1> QED  BY <1>5 DEF lq

\* Nothing is queued, or all of it is in one half of the queue.
LEMMA EmptyHalves ==
    ASSUME NEW q \in Seq(Functors)
    PROVE  <<>> \o q = q /\ q \o <<>> = q /\ <<>> \in Seq(Functors)
  BY ConcatEmptySeq

\* do_pending_functors: the queue is swapped.
LEMMA SwapStep ==
    ASSUME ServerInv, NEW l \in Loops, do_pending_functors(l)
    PROVE  ServerInv'
<1> DEFINE r == [loop[l] EXCEPT !.at = "functors", !.functors = loop[l].pending, !.pending = <<>>]
<1>1. ServerOk(conn, connections_, loop, user, closing) /\ LoopsOk(loop, closing)
  BY DEF ServerInv, ServerOk
<1>2. loop[l].at = "events" /\ loop[l].todo = <<>>
  BY DEF do_pending_functors
<1>3. loop[l] \in LoopRecs /\ loop[l].pending \in Seq(Functors) /\ loop[l].functors = <<>>
  BY <1>1, <1>2, QueueType DEF LoopsOk, LoopOk
<1>4. /\ r \in LoopRecs /\ r.at = "functors" /\ r.functors = loop[l].pending
      /\ r.pending = <<>> /\ r.todo = loop[l].todo
  BY <1>3 DEF LoopRecs
<1>5. loop' = [loop EXCEPT ![l] = r]
  BY DEF do_pending_functors
<1> HIDE DEF r
<1>6. LoopOk(l, r)
  BY <1>1, <1>2, <1>4 DEF LoopsOk, LoopOk
<1>7. Queue(r) = Queue(loop[l])
  BY <1>3, <1>4, EmptyHalves DEF Queue
<1>8. l = Base /\ closing > 0 => r.at = "exited"
  BY <1>1, <1>2 DEF LoopsOk
<1>9. ServerOk(conn, connections_, loop', user, closing)
  BY <1>1, <1>4, <1>5, <1>6, <1>7, <1>8, QuietLoop
<1> QED  BY <1>9 DEF ServerInv, do_pending_functors

\* quit, and the quit() of ~Event_Loop_Thread: a loop is told to quit.
LEMMA QuitStep ==
    ASSUME ServerInv, NEW l \in Loops, loop' = [loop EXCEPT ![l].quit_ = TRUE],
           UNCHANGED <<conn, connections_, next_, user, closing>>
    PROVE  ServerInv'
<1> DEFINE r == [loop[l] EXCEPT !.quit_ = TRUE]
<1>1. ServerOk(conn, connections_, loop, user, closing) /\ LoopsOk(loop, closing)
  BY DEF ServerInv, ServerOk
<1>2. loop[l] \in LoopRecs
  BY <1>1, QueueType
<1>3. /\ r \in LoopRecs /\ r.at = loop[l].at /\ r.functors = loop[l].functors
      /\ r.pending = loop[l].pending /\ r.todo = loop[l].todo
  BY <1>2 DEF LoopRecs
<1>4. loop' = [loop EXCEPT ![l] = r]
  OBVIOUS
<1> HIDE DEF r
<1>5. LoopOk(l, r) /\ (l = Base /\ closing > 0 => r.at = "exited")
  BY <1>1, <1>3 DEF LoopsOk, LoopOk
<1>6. Queue(r) = Queue(loop[l])
  BY <1>3 DEF Queue
<1>7. ServerOk(conn, connections_, [loop EXCEPT ![l] = r], user, closing)
  BY <1>1, <1>3, <1>5, <1>6, QuietLoop
<1> QED  BY <1>4, <1>7 DEF ServerInv

\* start, quit and the destructor of the pool.
LEMMA PoolSteps ==
    ASSUME ServerInv, start \/ quit \/ pool_dtor
    PROVE  ServerInv'
<1>1. CASE start
  BY <1>1 DEF start, ServerInv
<1>2. CASE quit
  <2>1. Base \in Loops
    BY ServerAssumption DEF Base, Loops
  <2> QED  BY <1>2, <2>1, QuitStep DEF quit
<1>3. CASE pool_dtor /\ loop' = [loop EXCEPT ![closing].quit_ = TRUE] /\ closing' = closing
  BY <1>3, QuitStep DEF pool_dtor
<1>4. CASE pool_dtor /\ closing' = closing + 1 /\ loop' = loop
  <2>1. ServerOk(conn, connections_, loop, user, closing)
    BY DEF ServerInv
  <2>2. closing \in Nat /\ closing # 0
    BY <1>4, <2>1 DEF pool_dtor, ServerOk
  <2>3. closing + 1 \in Nat /\ (closing > 0 <=> closing + 1 > 0)
    BY <2>2
  <2>4. LoopsOk(loop, closing + 1)
    BY <2>1, <2>2 DEF ServerOk, LoopsOk
  <2>5. \A c \in Conns : SameQueues(c, loop, loop) /\ SameTodo(c, loop, loop)
    BY SameForTransitive DEF SameQueues, SameTodo
  <2>6. ServerOk(conn, connections_, loop, user, closing + 1)
    BY <2>1, <2>3, <2>4, <2>5, LoopsChange
  <2> QED  BY <1>4, <2>6 DEF ServerInv, pool_dtor
<1> QED  BY <1>1, <1>2, <1>3, <1>4 DEF pool_dtor

\* What users' threads do.
LEMMA UserSteps ==
    ASSUME ServerInv, NEW c \in Conns, UserStep(c)
    PROVE  ServerInv'
<1> DEFINE x == conn[c]
<1>1. /\ ServerOk(conn, connections_, loop, user, closing)
      /\ conn \in [Conns -> Conn] /\ user \in [Conns -> UserStates] /\ LoopsOk(loop, closing)
  BY DEF ServerInv, ServerOk
<1>2. /\ x \in Conn /\ ConnOk(c, x, loop, connections_, user[c], closing)
      /\ user[c] \in UserStates /\ x.loop_ \in Loops
  BY <1>1, OfServerOk
<1>3. {"none", "holds", "send_in_loop", "shut_down_in_loop"} \subseteq UserStates
  BY DEF UserStates
<1>4. conn = [conn EXCEPT ![c] = x]
  BY <1>1
<1>5. OthersKept(c, loop, loop) /\ connections_ \ {c} = connections_ \ {c}
  BY OthersSame
<1>6. CASE user_takes(c)
  <2>1. ConnOk(c, x, loop, connections_, "holds", closing)
    BY <1>2, <1>6 DEF user_takes, ConnOk, Created, Born
  <2> HIDE DEF x
  <2>2. ServerOk([conn EXCEPT ![c] = x], connections_, loop, [user EXCEPT ![c] = "holds"], closing)
    BY <1>1, <1>2, <1>3, <1>5, <2>1, OneStep
  <2> QED  BY <1>4, <1>6, <2>2 DEF user_takes, ServerInv
<1>7. CASE user_drops(c)
  <2>1. ConnOk(c, x, loop, connections_, "none", closing)
    BY <1>2, <1>7 DEF user_drops, ConnOk
  <2> HIDE DEF x
  <2>2. ServerOk([conn EXCEPT ![c] = x], connections_, loop, [user EXCEPT ![c] = "none"], closing)
    BY <1>1, <1>2, <1>3, <1>5, <2>1, OneStep
  <2> QED  BY <1>4, <1>7, <2>2 DEF user_drops, ServerInv
<1>8. CASE user_send(c)
  <2> DEFINE y == [x EXCEPT !.sends = @ + 1]
  <2>1. y \in Conn /\ KernelStep(x, y)
    BY <1>2, SocketSteps
  <2>2. PICK s \in UserStates : s = IF x.state_ = "k_connected" THEN "send_in_loop" ELSE user[c]
    BY <1>2, <1>3
  <2>3. conn' = [conn EXCEPT ![c] = y] /\ user' = [user EXCEPT ![c] = s] /\ user[c] # "none"
    BY <1>8, <2>2 DEF user_send
  <2> HIDE DEF y
  <2>4. ServerOk([conn EXCEPT ![c] = y], connections_, loop, [user EXCEPT ![c] = s], closing)
    BY <1>1, <2>1, <2>3, KernelStepOk
  <2> QED  BY <1>8, <2>3, <2>4 DEF user_send, ServerInv
<1>9. CASE user_shutdown(c)
  <2> DEFINE y == exchange_disconnecting(x)
  <2>1. y \in Conn /\ Keeps(x, y)
    BY <1>2, ExchangeDisconnecting
  <2>2. PICK s \in UserStates :
            s = IF x.state_ = "k_connected" THEN "shut_down_in_loop" ELSE user[c]
    BY <1>2, <1>3
  <2>3. conn' = [conn EXCEPT ![c] = y] /\ user' = [user EXCEPT ![c] = s] /\ user[c] # "none"
    BY <1>9, <2>2 DEF user_shutdown
  <2> HIDE DEF y
  <2>4. x.ups \in Nat /\ y.ups \in Nat
    BY <1>2, <2>1 DEF Conn
  <2>5. x.ups > 0 /\ x.ups <= y.ups
    BY <1>2, <2>1, <2>3 DEF ConnOk, Keeps, Evolves
  <2>6. (s # "none" => y.ups > 0) /\ ~Fresh(x)
    BY <2>4, <2>5 DEF Fresh
  <2>7. Born(x)
    BY <1>2, <2>3 DEF ConnOk
  <2>8. SameQueues(c, loop, loop) /\ FewerTodo(c, loop, loop)
    BY SameForTransitive DEF SameQueues, FewerTodo
  <2>9. ConnOk(c, y, loop, connections_, s, closing)
    BY <1>2, <2>1, <2>6, <2>7, <2>8, OwnKeeps
  <2>10. ServerOk([conn EXCEPT ![c] = y], connections_, loop, [user EXCEPT ![c] = s], closing)
    BY <1>1, <1>5, <2>1, <2>9, OneStep
  <2> QED  BY <1>9, <2>3, <2>10 DEF user_shutdown, ServerInv
<1>10. CASE user_queues(c)
  <2> DEFINE f == Functor(user[c], c)
             lq == queue_in_loop(loop, x.loop_, f)
  <2>1. /\ loop' = lq /\ user' = [user EXCEPT ![c] = "holds"]
        /\ user[c] \in {"send_in_loop", "shut_down_in_loop"}
    BY <1>10 DEF user_queues
  <2>2. f \in Functors /\ f.c = c /\ f.op \in {"send_in_loop", "shut_down_in_loop"}
    BY <2>1 DEF Functor, Functors, Ops
  <2> HIDE DEF f, x
  <2>3. LoopsOk(lq, closing) /\ Adds(loop, lq, x.loop_, f) /\ OthersKept(c, loop, lq)
    BY <1>1, <1>2, <2>2, FunctorAdded
  <2> HIDE DEF lq
  <2>4. ConnOk(c, x, lq, connections_, "holds", closing)
    BY <1>2, <2>1, <2>2, <2>3, OwnQueues
  <2>5. ServerOk([conn EXCEPT ![c] = x], connections_, lq, [user EXCEPT ![c] = "holds"], closing)
    BY <1>1, <1>2, <1>3, <2>3, <2>4, OneStep
  <2> QED  BY <1>4, <1>10, <2>1, <2>5 DEF user_queues, ServerInv
<1> QED  BY <1>6, <1>7, <1>8, <1>9, <1>10 DEF UserStep

\* What the peers do to a connection.
LEMMA PeerChanges ==
    ASSUME ServerInv, NEW c \in Conns, PeerStep(c)
    PROVE  /\ \E y \in Conn : conn' = [conn EXCEPT ![c] = y] /\ KernelStep(conn[c], y)
           /\ UNCHANGED <<connections_, next_, loop, user, closing>>
<1> DEFINE x == conn[c]
<1> SUFFICES \E y \in Conn : conn' = [conn EXCEPT ![c] = y] /\ KernelStep(x, y)
  BY DEF PeerStep, peer_connects, peer_sends, peer_reads, peer_closes, peer_resets
<1>a. ServerOk(conn, connections_, loop, user, closing)
  BY DEF ServerInv
<1>b. x \in Conn
  BY <1>a, OfServerOk
<1>0. "backlog" \in Peers /\ "fin" \in Peers
  BY DEF Peers
<1>1. CASE peer_connects(c)
  <2> DEFINE y == [x EXCEPT !.peer = "backlog"]
  <2>1. x.peer = "away" /\ conn' = [conn EXCEPT ![c] = y]
    BY <1>1 DEF peer_connects
  <2>2. y \in Conn /\ KernelStep(x, y)
    BY <1>b, <1>0, <2>1, SocketSteps DEF Born
  <2> QED  BY <2>1, <2>2
<1>2. CASE peer_sends(c)
  BY <1>b, <1>2, SocketSteps DEF peer_sends
<1>3. CASE peer_reads(c)
  BY <1>b, <1>3, SocketSteps DEF peer_reads
<1>4. CASE peer_closes(c)
  <2> DEFINE y == [x EXCEPT !.peer = "fin"]
  <2>1. x.peer = "open" /\ conn' = [conn EXCEPT ![c] = y]
    BY <1>4 DEF peer_closes
  <2>2. y \in Conn /\ KernelStep(x, y)
    BY <1>b, <1>0, <2>1, SocketSteps DEF Born
  <2> QED  BY <2>1, <2>2
<1>5. CASE peer_resets(c)
  <2> DEFINE y == [x EXCEPT !.peer = "rst", !.so_error = TRUE]
  <2>1. Born(x)
    BY <1>5 DEF peer_resets, Born
  <2>2. conn' = [conn EXCEPT ![c] = y]
    BY <1>a, <1>5 DEF peer_resets, ServerOk
  <2> QED  BY <1>b, <2>1, <2>2, SocketSteps
<1> QED  BY <1>1, <1>2, <1>3, <1>4, <1>5 DEF PeerStep

\* What the peers do, seen from the server.
LEMMA PeerSteps ==
    ASSUME ServerInv, NEW c \in Conns, PeerStep(c)
    PROVE  ServerInv'
<1>1. ServerOk(conn, connections_, loop, user, closing) /\ user \in [Conns -> UserStates]
  BY DEF ServerInv, ServerOk
<1>2. user[c] \in UserStates
  BY <1>1
<1>3. UNCHANGED <<connections_, next_, loop, user, closing>>
  BY PeerChanges
<1>4. PICK y \in Conn : conn' = [conn EXCEPT ![c] = y] /\ KernelStep(conn[c], y)
  BY PeerChanges
<1>5. user = [user EXCEPT ![c] = user[c]]
  BY <1>1
<1>6. ServerOk([conn EXCEPT ![c] = y], connections_, loop, [user EXCEPT ![c] = user[c]], closing)
  BY <1>1, <1>2, <1>4, KernelStepOk
<1> QED  BY <1>3, <1>4, <1>5, <1>6 DEF ServerInv

-----------------------------------------------------------------------------
(* poll: the callbacks of the channels that are ready.                     *)

\* A callback, if it is to be made.
Optional(b, cb) == IF b THEN <<cb>> ELSE <<>>

\* One more callback at the end of a list.
LEMMA OneMore ==
    ASSUME NEW s \in Seq(Callbacks), NEW b \in BOOLEAN, NEW cb \in Callbacks
    PROVE  LET r == s \o Optional(b, cb)
           IN  /\ r \in Seq(Callbacks)
               /\ b \/ s # <<>> => r # <<>>
               /\ ~b => r = s
               /\ cb \notin {"read", "close"} => Ends(r) = Ends(s)
               /\ Ends(s) = {} => \A i, j \in Ends(r) : i = j
<1>1. CASE ~b
  <2>1. s \o Optional(b, cb) = s
    BY <1>1, ConcatEmptySeq DEF Optional
  <2> QED  BY <1>1, <2>1
<1>2. CASE b
  <2> DEFINE o == <<cb>>
             r == s \o o
  <2>1. o \in Seq(Callbacks) /\ Len(o) = 1 /\ o[1] = cb
    OBVIOUS
  <2>2. s \o Optional(b, cb) = r
    BY <1>2 DEF Optional
  <2>3. Len(s) \in Nat /\ DOMAIN s = 1 .. Len(s)
    OBVIOUS
  <2> HIDE DEF o
  <2>4. /\ r \in Seq(Callbacks) /\ Len(r) = Len(s) + Len(o)
        /\ \A i \in 1 .. Len(s) + Len(o) : r[i] = IF i <= Len(s) THEN s[i] ELSE o[i - Len(s)]
    BY <2>1, ConcatProperties
  <2> HIDE DEF r
  <2>5. DOMAIN r = 1 .. Len(s) + 1 /\ r[Len(s) + 1] = cb /\ \A i \in DOMAIN s : r[i] = s[i]
    BY <2>1, <2>3, <2>4
  <2>6. r # <<>>
    BY <2>3, <2>5
  <2>7. \A i \in DOMAIN r : i \in DOMAIN s \/ i = Len(s) + 1
    BY <2>3, <2>5
  <2>8. cb \notin {"read", "close"} => Ends(r) = Ends(s)
    <3>1. DOMAIN s \subseteq DOMAIN r
      BY <2>3, <2>5
    <3> QED  BY <2>5, <2>7, <3>1 DEF Ends
  <2>9. Ends(s) = {} => \A i, j \in Ends(r) : i = j
    BY <2>5, <2>7 DEF Ends
  <2> QED  BY <1>2, <2>2, <2>4, <2>6, <2>8, <2>9
<1> QED  BY <1>1, <1>2

\* handle_event calls something, and one callback at most that may close.
LEMMA HandleEvent ==
    ASSUME NEW R \in SUBSET {"IN", "OUT", "HUP", "ERR"}, R # {}
    PROVE  /\ handle_event(R) \in Seq(Callbacks) /\ handle_event(R) # <<>>
           /\ \A i, j \in Ends(handle_event(R)) : i = j
<1> DEFINE closes == "HUP" \in R /\ "IN" \notin R
           p0 == Optional(closes, "close")
           p1 == <<>> \o p0
           p2 == p1 \o Optional("ERR" \in R, "error")
           p3 == p2 \o Optional("IN" \in R, "read")
           p4 == p3 \o Optional("OUT" \in R, "write")
<1>0. {"close", "error", "read", "write"} \subseteq Callbacks /\ <<>> \in Seq(Callbacks)
  BY DEF Callbacks
<1>1. handle_event(R) = p4
  <2>1. p0 \in Seq(Callbacks)
    BY <1>0 DEF Optional
  <2>2. p1 = p0
    BY <2>1, ConcatEmptySeq
  <2> QED  BY <2>2 DEF handle_event, Optional
<1>2. /\ closes \in BOOLEAN /\ ("ERR" \in R) \in BOOLEAN /\ ("IN" \in R) \in BOOLEAN
      /\ ("OUT" \in R) \in BOOLEAN
  OBVIOUS
<1>3. PICK c0 \in BOOLEAN : c0 = closes
  BY <1>2
<1>4. PICK c1 \in BOOLEAN : c1 = ("ERR" \in R)
  BY <1>2
<1>5. PICK c2 \in BOOLEAN : c2 = ("IN" \in R)
  BY <1>2
<1>6. PICK c3 \in BOOLEAN : c3 = ("OUT" \in R)
  BY <1>2
<1>7. c0 \/ c1 \/ c2 \/ c3
  BY <1>3, <1>4, <1>5, <1>6
<1>8. c2 => ~c0
  BY <1>3, <1>5
<1> DEFINE q1 == <<>> \o Optional(c0, "close")
           q2 == q1 \o Optional(c1, "error")
           q3 == q2 \o Optional(c2, "read")
           q4 == q3 \o Optional(c3, "write")
<1>9. handle_event(R) = q4
  BY <1>1, <1>3, <1>4, <1>5, <1>6
<1> HIDE DEF closes, p0, p1, p2, p3, p4
<1>10. Ends(<<>>) = {}
  BY DEF Ends
<1>11. /\ q1 \in Seq(Callbacks) /\ (c0 => q1 # <<>>) /\ (~c0 => q1 = <<>>)
       /\ \A i, j \in Ends(q1) : i = j
  BY <1>0, <1>10, OneMore
<1> HIDE DEF q1
<1>12. q2 \in Seq(Callbacks) /\ (c1 \/ q1 # <<>> => q2 # <<>>) /\ Ends(q2) = Ends(q1)
  BY <1>0, <1>11, OneMore
<1> HIDE DEF q2
<1>13. /\ q3 \in Seq(Callbacks) /\ (c2 \/ q2 # <<>> => q3 # <<>>) /\ (~c2 => q3 = q2)
       /\ Ends(q2) = {} => \A i, j \in Ends(q3) : i = j
  BY <1>0, <1>12, OneMore
<1>14. \A i, j \in Ends(q3) : i = j
  <2>1. CASE c2
    BY <1>8, <1>10, <1>11, <1>12, <1>13, <2>1
  <2>2. CASE ~c2
    BY <1>11, <1>12, <1>13, <2>2
  <2> QED  BY <2>1, <2>2
<1> HIDE DEF q3
<1>15. q4 \in Seq(Callbacks) /\ (c3 \/ q3 # <<>> => q4 # <<>>) /\ Ends(q4) = Ends(q3)
  BY <1>0, <1>13, OneMore
<1> HIDE DEF q4
<1> QED  BY <1>7, <1>9, <1>11, <1>12, <1>13, <1>14, <1>15

\* A finite set in some order.
LEMMA Ordered ==
    ASSUME NEW S, IsFiniteSet(S), NEW order \in SetToSeqs(S)
    PROVE  /\ Cardinality(S) \in Nat /\ DOMAIN order = 1 .. Cardinality(S)
           /\ \A i \in DOMAIN order : order[i] \in S
           /\ \A i, j \in DOMAIN order : order[i] = order[j] => i = j
           /\ \A e \in S : \E i \in DOMAIN order : order[i] = e
<1> DEFINE D == 1 .. Cardinality(S)
<1>1. order \in [D -> S] /\ \A i, j \in D : i # j => order[i] # order[j]
  BY DEF SetToSeqs
<1>2. Cardinality(S) \in Nat
  BY FS_CardinalityType
<1>3. IsFiniteSet(D) /\ Cardinality(D) = Cardinality(S)
  BY <1>2, FS_Interval
<1> HIDE DEF D
<1>4. order \in Injection(D, S)
  BY <1>1 DEF Injection, IsInjective
<1>5. order \in Surjection(D, S)
  BY <1>3, <1>4, FS_Injection
<1>6. \A e \in S : \E i \in D : order[i] = e
  BY <1>5 DEF Surjection
<1> QED  BY <1>1, <1>2, <1>6 DEF D

\* A channel that epoll may report belongs to a connection that is up, if it is regular.
LEMMA Polled ==
    ASSUME NEW c, NEW x \in Conn, NEW lp, NEW map, NEW us, NEW cl,
           ConnOk(c, x, lp, map, us, cl), x.polled
    PROVE  Born(x) /\ (Steady(x) => x.mapped)
<1>1. Born(x)
  BY DEF ConnOk, Fresh
<1>2. ASSUME Steady(x) PROVE x.mapped
  <2> DEFINE e == Times(Queue(lp[x.loop_]), Est(c))
             d == Times(Queue(lp[x.loop_]), Des(c))
             r == Times(Queue(lp[Base]), Rem(c))
  <2>1. Life(c, x, e, d, r, map, cl)
    BY <1>1, <1>2 DEF ConnOk, LifeOk
  <2> HIDE DEF e, d, r
  <2> QED  BY <2>1 DEF Life, Fresh, Up, Closed, Removed
<1> QED  BY <1>1, <1>2

\* The connections that epoll has something to report of.
LEMMA ReadyFacts ==
    ASSUME ServerInv, NEW l \in Loops
    PROVE  /\ IsFiniteSet(Ready(l))
           /\ \A c \in Ready(l) :
                /\ c \in Conns /\ c # "acceptor"
                /\ conn[c].loop_ = l /\ conn[c].polled
                /\ Born(conn[c]) /\ (Steady(conn[c]) => conn[c].mapped)
                /\ handle_event(revents(conn[c])) \in Seq(Callbacks)
                /\ handle_event(revents(conn[c])) # <<>>
                /\ \A i, j \in Ends(handle_event(revents(conn[c]))) : i = j
<1>1. ServerOk(conn, connections_, loop, user, closing)
  BY DEF ServerInv
<1>2. ASSUME NEW c \in Ready(l)
      PROVE  /\ c \in Conns /\ c # "acceptor"
             /\ conn[c].loop_ = l /\ conn[c].polled
             /\ Born(conn[c]) /\ (Steady(conn[c]) => conn[c].mapped)
             /\ handle_event(revents(conn[c])) \in Seq(Callbacks)
             /\ handle_event(revents(conn[c])) # <<>>
             /\ \A i, j \in Ends(handle_event(revents(conn[c]))) : i = j
  <2>1. c \in Conns /\ conn[c].loop_ = l /\ conn[c].polled /\ revents(conn[c]) # {}
    BY <1>2 DEF Ready
  <2>2. conn[c] \in Conn /\ ConnOk(c, conn[c], loop, connections_, user[c], closing)
    BY <1>1, <2>1, OfServerOk
  <2>3. Born(conn[c]) /\ (Steady(conn[c]) => conn[c].mapped)
    BY <2>1, <2>2, Polled
  <2>4. revents(conn[c]) \in SUBSET {"IN", "OUT", "HUP", "ERR"}
    <3>1. conn[c].interest \in SUBSET {"IN", "OUT"}
      BY <2>2 DEF Conn, EventNames
    <3> QED  BY <3>1 DEF revents
  <2>5. /\ handle_event(revents(conn[c])) \in Seq(Callbacks)
        /\ handle_event(revents(conn[c])) # <<>>
        /\ \A i, j \in Ends(handle_event(revents(conn[c]))) : i = j
    BY <2>1, <2>4, HandleEvent
  <2>6. c # "acceptor"
    BY <2>1, ServerAssumption
  <2> QED  BY <2>1, <2>3, <2>5, <2>6
<1>3. IsFiniteSet(Ready(l))
  <2> DEFINE S == {c \in Conns : Born(conn[c])}
  <2>1. Ready(l) \in SUBSET S
    BY <1>2
  <2>2. IsFiniteSet(S)
    BY <1>1 DEF ServerOk
  <2> HIDE DEF S
  <2> QED  BY <2>1, <2>2, FS_Subset
<1> QED  BY <1>2, <1>3

\* poll: the active channels of a loop.
LEMMA PollStep ==
    ASSUME ServerInv, NEW l \in Loops, poll(l)
    PROVE  ServerInv'
<1> DEFINE A == IF l = Base /\ Acceptable THEN {"acceptor"} ELSE {}
           C == Ready(l) \cup A
           callbacks(c) == IF c = "acceptor" THEN <<"read">> ELSE handle_event(revents(conn[c]))
           todo(order) == [i \in DOMAIN order |-> [c |-> order[i], cbs |-> callbacks(order[i])]]
<1>1. ServerOk(conn, connections_, loop, user, closing) /\ LoopsOk(loop, closing)
  BY DEF ServerInv, ServerOk
<1>2. PICK order \in SetToSeqs(C) :
          loop' = [loop EXCEPT ![l].at = "events", ![l].todo = todo(order)]
  BY DEF poll
<1>3. loop[l].at = "poll" /\ UNCHANGED <<conn, connections_, next_, user, closing>>
  BY DEF poll
<1> DEFINE t == todo(order)
           r == [loop[l] EXCEPT !.at = "events", !.todo = t]
<1>4. /\ IsFiniteSet(Ready(l))
      /\ \A c \in Ready(l) :
           /\ c \in Conns /\ c # "acceptor"
           /\ conn[c].loop_ = l /\ conn[c].polled
           /\ Born(conn[c]) /\ (Steady(conn[c]) => conn[c].mapped)
           /\ handle_event(revents(conn[c])) \in Seq(Callbacks)
           /\ handle_event(revents(conn[c])) # <<>>
           /\ \A i, j \in Ends(handle_event(revents(conn[c]))) : i = j
  BY ReadyFacts
<1>5. IsFiniteSet(C) /\ (\A c \in C : c = "acceptor" => l = Base)
      /\ (\A c \in C : c # "acceptor" => c \in Ready(l))
  <2>1. IsFiniteSet(A)
    BY FS_EmptySet, FS_Singleton
  <2>2. IsFiniteSet(C)
    BY <1>4, <2>1, FS_Union
  <2> QED  BY <1>4, <2>2
<1>6. ASSUME NEW c \in C
      PROVE  /\ c \in Conns \cup {"acceptor"} /\ callbacks(c) \in Seq(Callbacks)
             /\ callbacks(c) # <<>> /\ (\A i, j \in Ends(callbacks(c)) : i = j)
  <2>1. CASE c = "acceptor"
    <3> DEFINE o == <<"read">>
    <3>1. o \in Seq(Callbacks) /\ o # <<>> /\ DOMAIN o = {1}
      BY DEF Callbacks
    <3> HIDE DEF o
    <3>2. \A i, j \in Ends(o) : i = j
      BY <3>1 DEF Ends
    <3> QED  BY <2>1, <3>1, <3>2 DEF o
  <2>2. CASE c # "acceptor"
    BY <1>4, <1>5, <2>2
  <2> QED  BY <2>1, <2>2
<1> HIDE DEF callbacks, C, A
<1>7. /\ Cardinality(C) \in Nat /\ DOMAIN order = 1 .. Cardinality(C)
      /\ \A i \in DOMAIN order : order[i] \in C
      /\ \A i, j \in DOMAIN order : order[i] = order[j] => i = j
  BY <1>5, Ordered
<1>8. /\ DOMAIN t = DOMAIN order
      /\ \A i \in DOMAIN order : t[i].c = order[i] /\ t[i].cbs = callbacks(order[i]) /\ t[i] \in Entries
  BY <1>6, <1>7 DEF Entries
<1>9. t \in Seq(Entries)
  <2>1. t \in [1 .. Cardinality(C) -> Entries]
    BY <1>7, <1>8
  <2> QED  BY <1>7, <2>1
<1>10. loop' = [loop EXCEPT ![l] = r]
  BY <1>1, <1>2 DEF LoopsOk
<1> HIDE DEF t
<1>11. loop[l] \in LoopRecs
  BY <1>1, QueueType
<1>12. /\ r \in LoopRecs /\ r.at = "events" /\ r.todo = t
       /\ r.functors = loop[l].functors /\ r.pending = loop[l].pending
  BY <1>9, <1>11 DEF LoopRecs
<1> HIDE DEF r
<1>13. TodoShape(l, t)
  BY <1>5, <1>6, <1>7, <1>8 DEF TodoShape
<1>14. LoopOk(l, r) /\ (l = Base /\ closing > 0 => r.at = "exited")
  BY <1>1, <1>3, <1>12, <1>13 DEF LoopsOk, LoopOk
<1> DEFINE lq == [loop EXCEPT ![l] = r]
<1>15. LoopsOk(lq, closing) /\ lq[l] = r /\ \A k \in Loops : k # l => lq[k] = loop[k]
  BY <1>1, <1>14, OneLoop
<1> HIDE DEF lq
<1>16. \A k \in Loops : Queue(lq[k]) = Queue(loop[k])
  BY <1>12, <1>15 DEF Queue
<1>17. ASSUME NEW c \in Conns PROVE ConnOk(c, conn[c], lq, connections_, user[c], closing)
  <2> DEFINE x == conn[c]
  <2>1. x \in Conn /\ ConnOk(c, x, loop, connections_, user[c], closing) /\ x.loop_ \in Loops
    BY <1>1, OfServerOk
  <2>2. \A k \in Loops : TodoOk(c, x, k, lq[k].todo)
    <3> SUFFICES ASSUME NEW k \in Loops, NEW i \in DOMAIN lq[k].todo, lq[k].todo[i].c = c
                 PROVE  EntryOk(x, k, lq[k].todo[i])
      BY DEF TodoOk
    <3>1. CASE k # l
      BY <1>15, <2>1, <3>1 DEF ConnOk, TodoOk
    <3>2. CASE k = l
      <4>1. i \in DOMAIN t /\ t[i].c = c
        BY <1>12, <1>15, <3>2
      <4>2. c \in C
        BY <1>7, <1>8, <4>1
      <4>3. c \in Ready(l)
        BY <1>5, <4>2, ServerAssumption
      <4> QED  BY <1>4, <3>2, <4>3 DEF EntryOk
    <3> QED  BY <3>1, <3>2
  <2>3. Base \in Loops
    BY ServerAssumption DEF Base, Loops
  <2> HIDE DEF x
  <2>4. ConnOk(c, x, lq, connections_, user[c], closing)
    BY <1>16, <2>1, <2>2, <2>3 DEF ConnOk
  <2> QED  BY <2>4 DEF x
<1>18. ServerOk(conn, connections_, lq, user, closing)
  BY <1>1, <1>15, <1>17 DEF ServerOk
<1> QED  BY <1>3, <1>10, <1>18 DEF ServerInv, lq

\* A connection when loop l has ended and dropped what was queued on it: b says
\* that something was queued for the connection.
LEMMA OwnDropped ==
    ASSUME NEW c, NEW x \in Conn, NEW b \in BOOLEAN, NEW lp, NEW lq, NEW map, NEW us, NEW cl,
           NEW l \in Loops, ConnOk(c, x, lp, map, us, cl),
           b \/ \A i \in DOMAIN Queue(lp[l]) : Queue(lp[l])[i].c # c,
           Queue(lq[l]) = <<>>,
           \A k \in Loops : k # l => Queue(lq[k]) = Queue(lp[k]),
           \A k \in Loops : lq[k].todo = lp[k].todo
    PROVE  LET y == [x EXCEPT !.condemned = @ \/ b]
           IN  y \in Conn /\ (Born(y) <=> Born(x)) /\ ConnOk(c, y, lq, map, us, cl)
<1>1. PICK v \in BOOLEAN : v = (x.condemned \/ b)
  BY DEF Conn
<1> DEFINE y == [x EXCEPT !.condemned = v]
<1>2. [x EXCEPT !.condemned = @ \/ b] = y
  BY <1>1
<1>3. /\ y \in Conn /\ y.condemned = v /\ y.late = x.late /\ y.state_ = x.state_
      /\ y.loop_ = x.loop_ /\ y.peer = x.peer /\ y.ups = x.ups /\ y.downs = x.downs
      /\ y.wire = x.wire /\ y.output_buffer_ = x.output_buffer_ /\ y.accepted = x.accepted
      /\ y.wrshut = x.wrshut /\ y.events = x.events /\ y.interest = x.interest
      /\ y.index = x.index /\ y.mapped = x.mapped /\ y.polled = x.polled
      /\ y.failed = x.failed
  BY DEF Conn
<1> HIDE DEF y
<1>4. /\ Born(y) <=> Born(x)
      /\ Steady(y) => Steady(x) /\ ~b
      /\ Stream(x) => Stream(y)
  BY <1>1, <1>3 DEF Born, Steady, Stream, Broken
<1>5. /\ Fresh(x) <=> Fresh(y)
      /\ Up(x) <=> Up(y)
      /\ Closed(x) <=> Closed(y)
      /\ Removed(x) <=> Removed(y)
  BY <1>3 DEF Fresh, Up, Closed, Removed
<1>6. x.loop_ \in Loops /\ Base \in Loops
  BY ServerAssumption DEF ConnOk, Base, Loops
<1>7. \A k \in Loops : QueueOk(c, y, k, Queue(lq[k]))
  <2>1. \A k \in Loops : QueueOk(c, x, k, Queue(lp[k]))
    BY DEF ConnOk
  <2> QED  BY <1>3, <1>4, <2>1 DEF QueueOk, Placed
<1>8. \A k \in Loops : TodoOk(c, y, k, lq[k].todo)
  <2>1. \A k \in Loops : TodoOk(c, x, k, lp[k].todo)
    BY DEF ConnOk
  <2> QED  BY <1>3, <1>4, <2>1, ZenonT(30) DEF TodoOk, EntryOk
<1>9. ASSUME ~b, NEW k \in Loops, NEW f \in {Est(c), Des(c), Rem(c)}
      PROVE  Times(Queue(lq[k]), f) = Times(Queue(lp[k]), f)
  <2>1. f.c = c
    BY Different
  <2>2. CASE k = l
    <3>1. Never(Queue(lp[l]), f) /\ Never(Queue(lq[l]), f)
      BY <1>9, <2>1 DEF Never
    <3> QED  BY <2>2, <3>1 DEF Times
  <2>3. CASE k # l
    BY <2>3
  <2> QED  BY <2>2, <2>3
<1>10. LifeOk(c, y, Queue(lq[y.loop_]), Queue(lq[Base]), map, cl)
  <2> SUFFICES ASSUME Born(y), Steady(y)
               PROVE  /\ Life(c, y, Times(Queue(lq[x.loop_]), Est(c)),
                              Times(Queue(lq[x.loop_]), Des(c)), Times(Queue(lq[Base]), Rem(c)),
                              map, cl)
                      /\ Ahead(Queue(lq[x.loop_]), Est(c), Des(c))
    BY <1>3 DEF LifeOk
  <2>1. LifeOk(c, x, Queue(lp[x.loop_]), Queue(lp[Base]), map, cl)
    BY DEF ConnOk
  <2> DEFINE e == Times(Queue(lp[x.loop_]), Est(c))
             d == Times(Queue(lp[x.loop_]), Des(c))
             r == Times(Queue(lp[Base]), Rem(c))
  <2>2. Life(c, x, e, d, r, map, cl) /\ Ahead(Queue(lp[x.loop_]), Est(c), Des(c))
    BY <1>4, <2>1 DEF LifeOk
  <2>3. /\ Times(Queue(lq[x.loop_]), Est(c)) = e /\ Times(Queue(lq[x.loop_]), Des(c)) = d
        /\ Times(Queue(lq[Base]), Rem(c)) = r
    BY <1>4, <1>6, <1>9
  <2>4. Ahead(Queue(lq[x.loop_]), Est(c), Des(c))
    <3>1. CASE x.loop_ = l
      BY <3>1 DEF Ahead
    <3>2. CASE x.loop_ # l
      BY <1>6, <2>2, <3>2
    <3> QED  BY <3>1, <3>2
  <2> HIDE DEF e, d, r
  <2>5. Life(c, y, e, d, r, map, cl)
    BY <1>3, <1>5, <2>2 DEF Life
  <2> QED  BY <2>3, <2>4, <2>5
<1>11. ConnOk(c, y, lq, map, us, cl)
  BY <1>3, <1>4, <1>5, <1>7, <1>8, <1>10 DEF ConnOk
<1> QED  BY <1>2, <1>3, <1>4, <1>11

\* functors_done: the end of an iteration.
LEMMA FunctorsDoneStep ==
    ASSUME ServerInv, NEW l \in Loops, functors_done(l)
    PROVE  ServerInv'
<1>1. ServerOk(conn, connections_, loop, user, closing) /\ LoopsOk(loop, closing)
  BY DEF ServerInv, ServerOk
<1>2. /\ loop[l].at = "functors" /\ loop[l].functors = <<>>
      /\ UNCHANGED <<connections_, next_, user, closing>>
  BY DEF functors_done
<1>3. /\ loop[l] \in LoopRecs /\ loop[l].pending \in Seq(Functors)
      /\ loop[l].todo = <<>> /\ TodoShape(l, loop[l].todo)
  BY <1>1, <1>2, QueueType DEF LoopsOk, LoopOk
<1>4. l = Base => ~(closing > 0)
  BY <1>1, <1>2 DEF LoopsOk
<1>5. ASSUME NEW a \in {"poll", "exited"}, loop' = [loop EXCEPT ![l].at = a], conn' = conn
      PROVE  ServerInv'
  <2> DEFINE r == [loop[l] EXCEPT !.at = a]
  <2>1. /\ r \in LoopRecs /\ r.at = a /\ r.functors = <<>>
        /\ r.pending = loop[l].pending /\ r.todo = loop[l].todo
    BY <1>2, <1>3 DEF LoopRecs
  <2>2. loop' = [loop EXCEPT ![l] = r]
    BY <1>5
  <2> HIDE DEF r
  <2>3. LoopOk(l, r) /\ Queue(r) = Queue(loop[l])
    BY <1>2, <1>3, <2>1 DEF LoopOk, Queue
  <2>4. ServerOk(conn, connections_, [loop EXCEPT ![l] = r], user, closing)
    BY <1>1, <1>4, <2>1, <2>3, QuietLoop
  <2> QED  BY <1>2, <1>5, <2>2, <2>4 DEF ServerInv
<1> DEFINE dropped == {loop[l].pending[i].c : i \in DOMAIN loop[l].pending}
<1>6. ASSUME l # Base, loop' = [loop EXCEPT ![l].at = "exited", ![l].pending = <<>>],
             conn' = [c \in Conns |-> [conn[c] EXCEPT !.condemned = @ \/ c \in dropped]]
      PROVE  ServerInv'
  <2> DEFINE r == [loop[l] EXCEPT !.at = "exited", !.pending = <<>>]
             lq == [loop EXCEPT ![l] = r]
  <2>1. /\ r \in LoopRecs /\ r.at = "exited" /\ r.functors = <<>>
        /\ r.pending = <<>> /\ r.todo = loop[l].todo
    BY <1>2, <1>3, EmptyHalves DEF LoopRecs
  <2>2. loop' = lq
    BY <1>6
  <2> HIDE DEF r
  <2>3. LoopOk(l, r)
    BY <1>2, <1>3, <2>1 DEF LoopOk
  <2>4. LoopsOk(lq, closing) /\ lq[l] = r /\ \A k \in Loops : k # l => lq[k] = loop[k]
    BY <1>1, <2>1, <2>3, OneLoop
  <2> HIDE DEF lq
  <2>5. Queue(loop[l]) = loop[l].pending /\ Queue(lq[l]) = <<>>
    BY <1>2, <1>3, <2>1, <2>4, EmptyHalves DEF Queue
  <2>6. /\ \A k \in Loops : k # l => Queue(lq[k]) = Queue(loop[k])
        /\ \A k \in Loops : lq[k].todo = loop[k].todo
    <3>1. lq[l].todo = loop[l].todo
      BY <2>1, <2>4
    <3>2. \A k \in Loops : k # l => Queue(lq[k]) = Queue(loop[k]) /\ lq[k].todo = loop[k].todo
      BY <2>4
    <3> QED  BY <3>1, <3>2
  <2>7. ASSUME NEW c \in Conns
        PROVE  /\ conn'[c] \in Conn /\ (Born(conn'[c]) <=> Born(conn[c]))
               /\ ConnOk(c, conn'[c], lq, connections_, user[c], closing)
    <3> DEFINE gone == c \in dropped
    <3> HIDE DEF dropped
    <3>1. PICK b \in BOOLEAN : b = gone
      <4>1. (c \in dropped) \in BOOLEAN
        OBVIOUS
      <4> QED  BY <4>1
    <3> USE DEF dropped
    <3>2. b \/ \A i \in DOMAIN Queue(loop[l]) : Queue(loop[l])[i].c # c
      BY <2>5, <3>1
    <3>3. conn[c] \in Conn /\ ConnOk(c, conn[c], loop, connections_, user[c], closing)
      BY <1>1, OfServerOk
    <3>4. LET y == [conn[c] EXCEPT !.condemned = @ \/ b]
          IN  /\ y \in Conn /\ (Born(y) <=> Born(conn[c]))
              /\ ConnOk(c, y, lq, connections_, user[c], closing)
      BY <2>5, <2>6, <3>2, <3>3, OwnDropped
    <3>5. conn'[c] = [conn[c] EXCEPT !.condemned = @ \/ b]
      BY <1>6, <3>1
    <3> QED  BY <3>4, <3>5
  <2>8. conn' \in [Conns -> Conn]
    <3>1. conn' = [c \in Conns |-> conn'[c]]
      BY <1>6
    <3> QED  BY <2>7, <3>1
  <2>9. {c \in Conns : Born(conn'[c])} = {c \in Conns : Born(conn[c])}
    BY <2>7
  <2>10. ServerOk(conn', connections_, lq, user, closing)
    BY <1>1, <2>4, <2>7, <2>8, <2>9 DEF ServerOk
  <2> QED  BY <1>2, <2>2, <2>10 DEF ServerInv
<1> QED  BY <1>5, <1>6 DEF functors_done

\* What ~Tcp_Server queues, d[k] on loop k, as far as connection c is concerned.
DestroyOrders(c, x, map, d) ==
    /\ \A k \in Loops : \A i \in DOMAIN d[k] : d[k][i].c = c =>
         d[k][i] = Des(c) /\ c \in map /\ k = x.loop_ /\ k # Base
    /\ c \in map /\ x.loop_ # Base => Once(d[x.loop_], Des(c))

\* lq is lp when d[k] has been appended to the queue of each loop k.
Extended(lp, lq, d) ==
    \A k \in Loops :
        /\ Queue(lp[k]) \in Seq(Functors) /\ d[k] \in Seq(Functors)
        /\ Queue(lq[k]) = Queue(lp[k]) \o d[k] /\ lq[k].todo = lp[k].todo

\* What that does to the functors of the connection.
LEMMA OrdersFacts ==
    ASSUME NEW c \in Conns, NEW x \in Conn, NEW y, NEW lp, NEW lq, NEW map, NEW d,
           x.loop_ \in Loops, Base \in Loops,
           DestroyOrders(c, x, map, d), Extended(lp, lq, d),
           c \in map => Born(y) /\ y.loop_ = x.loop_
    PROVE  /\ QueuedWell(c, y, lp, lq)
           /\ \A k \in Loops : \A f \in {Est(c), Rem(c)} :
                Times(Queue(lq[k]), f) = Times(Queue(lp[k]), f)
           /\ c \notin map \/ x.loop_ = Base =>
                Times(Queue(lq[x.loop_]), Des(c)) = Times(Queue(lp[x.loop_]), Des(c))
           /\ c \in map /\ x.loop_ # Base /\ Times(Queue(lp[x.loop_]), Des(c)) = 0 =>
                Times(Queue(lq[x.loop_]), Des(c)) = 1
           /\ Ahead(Queue(lp[x.loop_]), Est(c), Des(c)) =>
                Ahead(Queue(lq[x.loop_]), Est(c), Des(c))
<1>1. /\ Est(c) # Des(c) /\ Est(c) # Rem(c) /\ Des(c) # Rem(c)
      /\ Est(c).c = c /\ Des(c).c = c /\ Rem(c).c = c /\ Des(c).op = "connect_destroyed"
  BY Different
<1>2. ASSUME NEW k \in Loops
      PROVE  /\ Queue(lp[k]) \in Seq(Functors) /\ d[k] \in Seq(Functors)
             /\ Queue(lq[k]) = Queue(lp[k]) \o d[k]
             /\ Never(d[k], Est(c)) /\ Never(d[k], Rem(c))
  <2>1. /\ Queue(lp[k]) \in Seq(Functors) /\ d[k] \in Seq(Functors)
        /\ Queue(lq[k]) = Queue(lp[k]) \o d[k]
    BY DEF Extended
  <2>2. \A i \in DOMAIN d[k] : d[k][i].c = c => d[k][i] = Des(c)
    BY DEF DestroyOrders
  <2>3. Never(d[k], Est(c)) /\ Never(d[k], Rem(c))
    BY <1>1, <2>2 DEF Never
  <2> QED  BY <2>1, <2>3
<1>3. QueuedWell(c, y, lp, lq)
  <2> SUFFICES ASSUME NEW k \in Loops, NEW i \in DOMAIN Queue(lq[k]), Queue(lq[k])[i].c = c
               PROVE  \/ \E j \in DOMAIN Queue(lp[k]) : Queue(lp[k])[j] = Queue(lq[k])[i]
                      \/ Placed(y, k, Queue(lq[k])[i])
    BY DEF QueuedWell
  <2> DEFINE q == Queue(lp[k])
             e == d[k]
  <2>1. q \in Seq(Functors) /\ e \in Seq(Functors) /\ Queue(lq[k]) = q \o e
    BY <1>2
  <2>2. \A n \in DOMAIN e : e[n].c = c => e[n] = Des(c) /\ c \in map /\ k = x.loop_
    BY DEF DestroyOrders
  <2> HIDE DEF q, e
  <2>3. /\ \A n \in DOMAIN q : (q \o e)[n] = q[n]
        /\ \A n \in DOMAIN (q \o e) :
             n \notin DOMAIN q => n - Len(q) \in DOMAIN e /\ (q \o e)[n] = e[n - Len(q)]
    BY <2>1, QueueConcat
  <2>4. CASE i \in DOMAIN q
    BY <2>1, <2>3, <2>4 DEF q
  <2>5. CASE i \notin DOMAIN q
    <3>1. i - Len(q) \in DOMAIN e /\ Queue(lq[k])[i] = e[i - Len(q)]
      BY <2>1, <2>3, <2>5
    <3>2. Queue(lq[k])[i] = Des(c) /\ c \in map /\ k = x.loop_
      BY <2>2, <3>1
    <3>3. Placed(y, k, Des(c))
      BY <1>1, <3>2 DEF Placed
    <3> QED  BY <3>2, <3>3
  <2> QED  BY <2>4, <2>5
<1>4. \A k \in Loops : \A f \in {Est(c), Rem(c)} : Times(Queue(lq[k]), f) = Times(Queue(lp[k]), f)
  <2> SUFFICES ASSUME NEW k \in Loops, NEW f \in {Est(c), Rem(c)}
               PROVE  Times(Queue(lq[k]), f) = Times(Queue(lp[k]), f)
    OBVIOUS
  <2> DEFINE o == Queue(lp[k])
             p == d[k]
  <2>1. o \in Seq(Functors) /\ p \in Seq(Functors) /\ Queue(lq[k]) = o \o p /\ Never(p, f)
    BY <1>2
  <2> HIDE DEF o, p
  <2>2. Times(o \o p, f) = Times(o, f)
    BY <2>1, TimesConcat
  <2> QED  BY <2>1, <2>2 DEF o
<1> DEFINE q == Queue(lp[x.loop_])
           e == d[x.loop_]
<1>5. q \in Seq(Functors) /\ e \in Seq(Functors) /\ Queue(lq[x.loop_]) = q \o e /\ Never(e, Est(c))
  BY <1>2
<1>6. ASSUME c \notin map \/ x.loop_ = Base PROVE Never(e, Des(c))
  BY <1>1, <1>6 DEF Never, DestroyOrders
<1>7. ASSUME c \in map, x.loop_ # Base PROVE Once(e, Des(c))
  BY <1>7 DEF DestroyOrders
<1> HIDE DEF q, e
<1>8. c \notin map \/ x.loop_ = Base => Times(q \o e, Des(c)) = Times(q, Des(c))
  BY <1>5, <1>6, TimesConcat
<1>9. c \in map /\ x.loop_ # Base /\ Times(q, Des(c)) = 0 => Times(q \o e, Des(c)) = 1
  BY <1>5, <1>7, TimesAdded
<1>10. Ahead(q, Est(c), Des(c)) => Ahead(q \o e, Est(c), Des(c))
  BY <1>5, AheadKept
<1> QED  BY <1>3, <1>4, <1>5, <1>8, <1>9, <1>10 DEF q

\* A connection when ~Tcp_Server has had connect_destroyed run or queued for every
\* connection of the map.
LEMMA OwnReleased ==
    ASSUME NEW c \in Conns, NEW x \in Conn, NEW y \in Conn, NEW lp, NEW lq, NEW map, NEW us, NEW d,
           ConnOk(c, x, lp, map, us, 0), lp[Base].todo = <<>>,
           DestroyOrders(c, x, map, d), Extended(lp, lq, d), Evolves(x, y),
           c \in map /\ x.loop_ = Base =>
               (Steady(y) => Steady(x) /\ (Closed(x) \/ Up(x) => Removed(y))),
           c \notin map \/ x.loop_ # Base => y = x
    PROVE  ConnOk(c, y, lq, {}, us, 1)
<1>1. x.loop_ \in Loops /\ Base \in Loops /\ y.loop_ = x.loop_ /\ (Born(y) <=> Born(x))
  BY ServerAssumption DEF ConnOk, Base, Loops, Evolves, Born
<1>2. c \in map => Born(x)
  BY DEF ConnOk
<1>3. /\ QueuedWell(c, y, lp, lq)
      /\ \A k \in Loops : \A f \in {Est(c), Rem(c)} :
           Times(Queue(lq[k]), f) = Times(Queue(lp[k]), f)
      /\ c \notin map \/ x.loop_ = Base =>
           Times(Queue(lq[x.loop_]), Des(c)) = Times(Queue(lp[x.loop_]), Des(c))
      /\ c \in map /\ x.loop_ # Base /\ Times(Queue(lp[x.loop_]), Des(c)) = 0 =>
           Times(Queue(lq[x.loop_]), Des(c)) = 1
      /\ Ahead(Queue(lp[x.loop_]), Est(c), Des(c)) =>
           Ahead(Queue(lq[x.loop_]), Est(c), Des(c))
  BY <1>1, <1>2, OrdersFacts
<1>4. \A k \in Loops : lq[k].todo = lp[k].todo
  BY DEF Extended
<1>5. Todos(c, y, lq)
  <2>1. CASE c \in map /\ x.loop_ = Base
    BY <1>4, <2>1, NoTodo
  <2>2. CASE y = x
    BY <1>4, <2>2 DEF Todos, ConnOk
  <2> QED  BY <2>1, <2>2
<1>6. us # "none" => y.ups > 0
  <2>1. x.ups \in Nat /\ y.ups \in Nat
    BY DEF Conn
  <2>2. x.ups <= y.ups /\ (us # "none" => x.ups > 0)
    BY DEF Evolves, ConnOk
  <2> QED  BY <2>1, <2>2
<1>7. LifeOk(c, y, Queue(lq[x.loop_]), Queue(lq[Base]), {}, 1)
  <2> SUFFICES ASSUME Born(y), Steady(y)
               PROVE  /\ Life(c, y, Times(Queue(lq[x.loop_]), Est(c)),
                              Times(Queue(lq[x.loop_]), Des(c)), Times(Queue(lq[Base]), Rem(c)),
                              {}, 1)
                      /\ Ahead(Queue(lq[x.loop_]), Est(c), Des(c))
    BY DEF LifeOk
  <2> DEFINE e == Times(Queue(lp[x.loop_]), Est(c))
             n == Times(Queue(lp[x.loop_]), Des(c))
             m == Times(Queue(lq[x.loop_]), Des(c))
             r == Times(Queue(lp[Base]), Rem(c))
  <2>1. Steady(x)
    BY DEF Evolves, Steady
  <2>2. Life(c, x, e, n, r, map, 0) /\ Ahead(Queue(lp[x.loop_]), Est(c), Des(c))
    BY <1>1, <2>1 DEF ConnOk, LifeOk
  <2>3. Times(Queue(lq[x.loop_]), Est(c)) = e /\ Times(Queue(lq[Base]), Rem(c)) = r
    BY <1>1, <1>3
  <2>4. /\ c \notin map \/ x.loop_ = Base => m = n
        /\ c \in map /\ x.loop_ # Base /\ n = 0 => m = 1
    BY <1>3
  <2>5. Ahead(Queue(lq[x.loop_]), Est(c), Des(c))
    BY <1>3, <2>2
  <2> HIDE DEF e, n, m, r
  <2>6. CASE c \notin map
    <3>1. (Closed(x) /\ e = 0 /\ n = 1) \/ (Removed(x) /\ e = 0 /\ n = 0)
      BY <2>2, <2>6 DEF Life, Held
    <3>2. Life(c, y, e, m, r, {}, 1)
      BY <2>4, <2>6, <3>1 DEF Life
    <3> QED  BY <2>3, <2>5, <3>2 DEF m
  <2>7. CASE c \in map /\ x.loop_ # Base
    <3>1. /\ n = 0
          /\ \/ Fresh(x) /\ e = 1 /\ r = 0
             \/ Up(x) /\ e = 0 /\ r = 0
             \/ Closed(x) /\ e = 0
      BY <2>2, <2>7 DEF Life, Held
    <3>2. Life(c, y, e, m, r, {}, 1)
      BY <2>4, <2>7, <3>1 DEF Life, Held
    <3> QED  BY <2>3, <2>5, <3>2 DEF m
  <2>8. CASE c \in map /\ x.loop_ = Base
    <3>1. n = 0 /\ e = 0 /\ (Up(x) \/ Closed(x))
      BY <2>2, <2>8 DEF Life, Held
    <3>2. Life(c, y, e, m, r, {}, 1)
      BY <2>4, <2>8, <3>1 DEF Life
    <3> QED  BY <2>3, <2>5, <3>2 DEF m
  <2> QED  BY <2>6, <2>7, <2>8
<1>8. CASE Born(x)
  BY <1>3, <1>5, <1>6, <1>7, <1>8, OwnStep
<1>9. CASE ~Born(x)
  <2>1. y = x /\ ~Born(y)
    BY <1>1, <1>2, <1>9
  <2>2. \A l \in Loops : QueueOk(c, y, l, Queue(lq[l]))
    BY <1>3, <2>1 DEF ConnOk, QueuedWell, QueueOk
  <2> QED  BY <1>5, <1>7, <1>9, <2>1, <2>2 DEF ConnOk, Todos
<1> QED  BY <1>8, <1>9

\* Functors are appended to the queue of a loop.
LEMMA LoopExtended ==
    ASSUME NEW l, NEW r, LoopOk(l, r), NEW d \in Seq(Functors)
    PROVE  LET s == [r EXCEPT !.pending = @ \o d]
           IN  /\ LoopOk(l, s) /\ s.todo = r.todo /\ s.at = r.at
               /\ Queue(r) \in Seq(Functors) /\ Queue(s) = Queue(r) \o d
<1> DEFINE p == r.pending \o d
           s == [r EXCEPT !.pending = p]
<1>1. r \in LoopRecs /\ r.functors \in Seq(Functors) /\ r.pending \in Seq(Functors)
  BY DEF LoopOk, LoopRecs
<1>2. p \in Seq(Functors) /\ r.functors \o r.pending \in Seq(Functors)
  BY <1>1, ConcatProperties
<1>3. (r.functors \o r.pending) \o d = r.functors \o p
  BY <1>1, QueueAssociative
<1> HIDE DEF p
<1>4. /\ s \in LoopRecs /\ s.todo = r.todo /\ s.at = r.at /\ s.functors = r.functors
      /\ s.pending = p
  BY <1>1, <1>2 DEF LoopRecs
<1>5. Queue(s) = Queue(r) \o d
  BY <1>3, <1>4 DEF Queue
<1>6. LoopOk(l, s)
  BY <1>4 DEF LoopOk
<1> QED  BY <1>2, <1>4, <1>5, <1>6 DEF Queue, p

\* connect_destroyed for each connection of S, in some order.
LEMMA DestroysQueued ==
    ASSUME NEW S \in SUBSET Conns, IsFiniteSet(S), NEW order \in SetToSeqs(S)
    PROVE  LET d == [i \in DOMAIN order |-> Functor("connect_destroyed", order[i])]
           IN  /\ d \in Seq(Functors)
               /\ \A i \in DOMAIN d : \E c \in S : d[i] = Des(c)
               /\ \A c \in S : Once(d, Des(c))
<1> DEFINE d == [i \in DOMAIN order |-> Functor("connect_destroyed", order[i])]
           n == Cardinality(S)
<1>1. /\ n \in Nat /\ DOMAIN order = 1 .. n
      /\ \A i \in DOMAIN order : order[i] \in S
      /\ \A i, j \in DOMAIN order : order[i] = order[j] => i = j
      /\ \A e \in S : \E i \in DOMAIN order : order[i] = e
  BY Ordered
<1> HIDE DEF n
<1>2. DOMAIN d = DOMAIN order /\ \A i \in DOMAIN d : d[i] = Des(order[i])
  BY DEF Des
<1>3. \A c \in Conns : Des(c) \in Functors /\ Des(c).c = c
  BY Different
<1>4. d \in Seq(Functors)
  <2>1. \A i \in 1 .. n : d[i] \in Functors
    BY <1>1, <1>2, <1>3
  <2>2. d = [i \in 1 .. n |-> d[i]]
    BY <1>1
  <2> HIDE DEF d
  <2>3. d \in [1 .. n -> Functors]
    BY <2>1, <2>2
  <2> QED  BY <1>1, <2>3
<1> HIDE DEF d
<1>5. \A i \in DOMAIN d : \E c \in S : d[i] = Des(c)
  BY <1>1, <1>2
<1>6. ASSUME NEW c \in S PROVE Once(d, Des(c))
  <2>1. PICK i \in DOMAIN order : order[i] = c
    BY <1>1
  <2>2. i \in DOMAIN d /\ d[i] = Des(c)
    BY <1>2, <2>1
  <2>3. ASSUME NEW j \in DOMAIN d, d[j] = Des(c) PROVE j = i
    <3>1. order[j] = c
      <4>1. Des(order[j]) = Des(c) /\ order[j] \in S
        BY <1>1, <1>2, <2>3
      <4> QED  BY <1>3, <4>1
    <3> QED  BY <1>1, <1>2, <2>1, <3>1
  <2> QED  BY <2>2, <2>3 DEF Once
<1> QED  BY <1>4, <1>5, <1>6 DEF d

\* ~Tcp_Server: the map is emptied and every connection of it destroyed.
LEMMA ServerDtorStep ==
    ASSUME ServerInv, server_dtor
    PROVE  ServerInv'
<1> DEFINE S(l) == {c \in connections_ : conn[c].loop_ = l /\ l # Base}
           destroy(x, u) == IF x.loop_ = Base THEN connect_destroyed(condemn(x), u) ELSE x
<1>1. ServerOk(conn, connections_, loop, user, 0) /\ LoopsOk(loop, 0) /\ closing = 0
  BY DEF ServerInv, ServerOk, server_dtor
<1>2. /\ loop[Base].at = "exited" /\ connections_' = {} /\ closing' = 1
      /\ UNCHANGED <<next_, user>>
  BY DEF server_dtor
<1>3. PICK u \in [connections_ -> {"nothing", "shutdown"}] :
          conn' = [c \in Conns |-> IF c \in connections_ THEN destroy(conn[c], u[c]) ELSE conn[c]]
  BY DEF server_dtor
<1>4. PICK order :
          /\ \A l \in Loops : order[l] \in SetToSeqs(S(l))
          /\ loop' = [l \in Loops |->
                        [loop[l] EXCEPT !.pending = @ \o [i \in DOMAIN order[l] |->
                                            Functor("connect_destroyed", order[l][i])]]]
  BY DEF server_dtor
<1> DEFINE d == [l \in Loops |-> [i \in DOMAIN order[l] |->
                                    Functor("connect_destroyed", order[l][i])]]
           lq == [l \in Loops |-> [loop[l] EXCEPT !.pending = @ \o d[l]]]
<1>5. loop' = lq
  BY <1>4
<1>6. Base \in Loops /\ connections_ \subseteq Conns
  BY <1>1, ServerAssumption DEF Base, Loops, ServerOk
<1>7. ASSUME NEW c \in Conns
      PROVE  /\ conn[c] \in Conn /\ ConnOk(c, conn[c], loop, connections_, user[c], 0)
             /\ conn[c].loop_ \in Loops
  BY <1>1, OfServerOk
<1>8. ASSUME NEW l \in Loops
      PROVE  /\ d[l] \in Seq(Functors)
             /\ \A i \in DOMAIN d[l] : \E c \in S(l) : d[l][i] = Des(c)
             /\ \A c \in S(l) : Once(d[l], Des(c))
  <2> DEFINE T == {c \in Conns : Born(conn[c])}
  <2>1. S(l) \in SUBSET T
    BY <1>6, <1>7 DEF ConnOk
  <2>2. IsFiniteSet(T)
    BY <1>1 DEF ServerOk
  <2>3. S(l) \in SUBSET Conns
    BY <1>6
  <2> HIDE DEF T
  <2>4. IsFiniteSet(S(l))
    BY <2>1, <2>2, FS_Subset
  <2> DEFINE o == order[l]
             e == [i \in DOMAIN o |-> Functor("connect_destroyed", o[i])]
  <2>5. o \in SetToSeqs(S(l))
    BY <1>4
  <2>6. d[l] = e
    OBVIOUS
  <2> HIDE DEF o, d, S
  <2>7. /\ e \in Seq(Functors)
        /\ \A i \in DOMAIN e : \E c \in S(l) : e[i] = Des(c)
        /\ \A c \in S(l) : Once(e, Des(c))
    BY <2>3, <2>4, <2>5, DestroysQueued
  <2> HIDE DEF e
  <2> QED  BY <2>6, <2>7
<1> HIDE DEF d
<1>9. ASSUME NEW l \in Loops
      PROVE  /\ LoopOk(l, lq[l]) /\ lq[l].todo = loop[l].todo /\ lq[l].at = loop[l].at
             /\ Queue(loop[l]) \in Seq(Functors) /\ Queue(lq[l]) = Queue(loop[l]) \o d[l]
  <2> DEFINE e == d[l]
             r == loop[l]
             s == [r EXCEPT !.pending = @ \o e]
  <2>1. LoopOk(l, r) /\ e \in Seq(Functors)
    BY <1>1, <1>8 DEF LoopsOk
  <2>2. lq[l] = s
    OBVIOUS
  <2> HIDE DEF lq, e, r
  <2>3. /\ LoopOk(l, s) /\ s.todo = r.todo /\ s.at = r.at
        /\ Queue(r) \in Seq(Functors) /\ Queue(s) = Queue(r) \o e
    BY <2>1, LoopExtended
  <2> HIDE DEF s
  <2> QED  BY <2>2, <2>3 DEF e, r
<1>10. lq = [l \in Loops |-> lq[l]]
  OBVIOUS
<1> HIDE DEF lq
<1>11. LoopsOk(lq, 1)
  BY <1>2, <1>6, <1>9, <1>10 DEF LoopsOk
<1>12. Extended(loop, lq, d)
  BY <1>8, <1>9 DEF Extended
<1>13. ASSUME NEW c \in Conns
       PROVE  /\ conn'[c] \in Conn /\ (Born(conn'[c]) <=> Born(conn[c]))
              /\ ConnOk(c, conn'[c], lq, {}, user[c], 1)
  <2> DEFINE x == conn[c]
             y == conn'[c]
  <2>1. x \in Conn /\ ConnOk(c, x, loop, connections_, user[c], 0) /\ x.loop_ \in Loops
    BY <1>7
  <2>2. loop[Base].todo = <<>>
    BY <1>1, <1>2, <1>6 DEF LoopsOk, LoopOk
  <2>3. DestroyOrders(c, x, connections_, d)
    <3>1. ASSUME NEW k \in Loops, NEW i \in DOMAIN d[k], d[k][i].c = c
          PROVE  d[k][i] = Des(c) /\ c \in connections_ /\ k = x.loop_ /\ k # Base
      <4>1. PICK e \in S(k) : d[k][i] = Des(e)
        BY <1>8
      <4>2. e = c
        BY <3>1, <4>1, Different
      <4> QED  BY <4>1, <4>2
    <3>2. ASSUME c \in connections_, x.loop_ # Base PROVE Once(d[x.loop_], Des(c))
      <4>1. c \in S(x.loop_)
        BY <3>2
      <4> QED  BY <1>8, <2>1, <4>1
    <3> QED  BY <3>1, <3>2 DEF DestroyOrders
  <2>4. Evolves(x, x)
    BY <2>1, EvolvesTransitive
  <2>5. c \notin connections_ \/ x.loop_ # Base => y = x
    BY <1>3
  <2>6. ASSUME c \in connections_, x.loop_ = Base
        PROVE  /\ y \in Conn /\ Evolves(x, y)
               /\ Steady(y) => Steady(x) /\ (Closed(x) \/ Up(x) => Removed(y))
    <3> DEFINE v == u[c]
    <3>1. v \in CallbackChoices
      BY <1>3, <2>6 DEF CallbackChoices
    <3>2. y = connect_destroyed(condemn(x), v)
      BY <1>3, <2>6
    <3> HIDE DEF x, y, v
    <3> DEFINE z == connect_destroyed(condemn(x), v)
    <3>3. /\ z \in Conn /\ Evolves(x, z)
          /\ Steady(z) => Steady(x) /\ (Closed(x) => Removed(z)) /\ (Up(x) => Removed(z))
      <4>1. LET w == IF 1 > 0 THEN condemn(x) ELSE x
                t == connect_destroyed(w, v)
            IN  /\ t \in Conn /\ Evolves(x, t)
                /\ Steady(t) => /\ Steady(x)
                                /\ Closed(x) => Removed(t)
                                /\ Up(x) /\ 1 > 0 => Removed(t)
        BY <2>1, <3>1, Destroys
      <4>2. (IF 1 > 0 THEN condemn(x) ELSE x) = condemn(x)
        OBVIOUS
      <4> QED  BY <4>1, <4>2
    <3> HIDE DEF z
    <3> QED  BY <3>2, <3>3 DEF z
  <2> HIDE DEF x, y
  <2>7. y \in Conn /\ Evolves(x, y)
    BY <2>1, <2>4, <2>5, <2>6
  <2>8. ConnOk(c, y, lq, {}, user[c], 1)
    BY <1>12, <2>1, <2>2, <2>3, <2>5, <2>6, <2>7, OwnReleased
  <2>9. Born(y) <=> Born(x)
    BY <2>7 DEF Evolves, Born
  <2> QED  BY <2>7, <2>8, <2>9 DEF x, y
<1>14. conn' \in [Conns -> Conn]
  <2>1. conn' = [c \in Conns |-> conn'[c]]
    BY <1>3
  <2> QED  BY <1>13, <2>1
<1>15. {c \in Conns : Born(conn'[c])} = {c \in Conns : Born(conn[c])}
  BY <1>13
<1>16. ServerOk(conn', {}, lq, user, 1)
  <2>1. {} \subseteq Conns /\ 1 \in Nat
    OBVIOUS
  <2> QED  BY <1>1, <1>11, <1>13, <1>14, <1>15, <2>1 DEF ServerOk
<1> QED  BY <1>2, <1>5, <1>16 DEF ServerInv

-----------------------------------------------------------------------------
(* The theorems.                                                           *)

\* A connection that nobody has connected yet.
LEMMA NewConnectionOk ==
    /\ NewConnection \in Conn /\ Fresh(NewConnection) /\ Stream(NewConnection)
    /\ ~Born(NewConnection) /\ NewConnection.loop_ = 0
<1> DEFINE x == NewConnection
<1>1. /\ x.events = {} /\ x.index = "k_new" /\ x.mapped = FALSE /\ x.polled = FALSE
      /\ x.interest = {} /\ x.failed = {} /\ x.loop_ = 0 /\ x.state_ = "k_connecting"
      /\ x.output_buffer_ = <<>> /\ x.ups = 0 /\ x.downs = 0 /\ x.accepted = 0
      /\ x.wrshut = FALSE /\ x.peer = "away" /\ x.wire = <<>>
  BY DEF NewConnection
<1>2. x \in Conn
  BY ConnectionAssumption DEF NewConnection, Conn, Peers, States
<1> HIDE DEF x
<1>3. Fresh(x) /\ ~Born(x)
  BY <1>1 DEF Fresh, Born
<1>4. Stream(x)
  <2>1. <<>> \o <<>> = <<>> /\ Len(<<>>) = 0
    OBVIOUS
  <2>2. Numbered(0) = <<>>
    BY DEF Numbered
  <2> QED  BY <1>1, <2>1, <2>2 DEF Stream
<1> QED  BY <1>1, <1>2, <1>3, <1>4 DEF x

\* The invariant holds initially.
LEMMA InitServerInv == Init => ServerInv
<1> SUFFICES ASSUME Init PROVE ServerInv
  OBVIOUS
<1> DEFINE r == [at |-> "poll", todo |-> <<>>, functors |-> <<>>, pending |-> <<>>,
                 quit_ |-> FALSE]
<1>0. Base \in Loops /\ Base = 0
  BY ServerAssumption DEF Base, Loops
<1>1. /\ r \in LoopRecs /\ r.at = "poll" /\ r.todo = <<>> /\ r.functors = <<>>
      /\ r.pending = <<>>
  BY DEF LoopRecs
<1>2. loop = [l \in Loops |-> r]
  BY DEF Init
<1> HIDE DEF r
<1>3. Queue(r) = <<>>
  BY <1>1 DEF Queue
<1>4. LoopsOk(loop, 0)
  <2>1. \A l \in Loops : LoopOk(l, r)
    BY <1>1 DEF LoopOk, TodoShape
  <2> QED  BY <1>2, <2>1 DEF LoopsOk
<1>5. /\ conn = [c \in Conns |-> NewConnection] /\ user = [c \in Conns |-> "none"]
      /\ connections_ = {} /\ closing = 0 /\ next_ = 0
  BY DEF Init
<1>6. ASSUME NEW c \in Conns PROVE ConnOk(c, conn[c], loop, {}, user[c], 0)
  <2>1. conn[c] = NewConnection /\ user[c] = "none"
    BY <1>5
  <2>2. \A l \in Loops : Queue(loop[l]) = <<>> /\ loop[l].todo = <<>>
    BY <1>1, <1>2, <1>3
  <2>3. \A l \in Loops : /\ QueueOk(c, NewConnection, l, Queue(loop[l]))
                         /\ TodoOk(c, NewConnection, l, loop[l].todo)
    BY <2>2 DEF QueueOk, TodoOk
  <2> QED  BY <1>0, <2>1, <2>3, NewConnectionOk DEF ConnOk, LifeOk
<1>7. conn \in [Conns -> Conn] /\ user \in [Conns -> UserStates]
  BY <1>5, NewConnectionOk DEF UserStates
<1>8. IsFiniteSet({c \in Conns : Born(conn[c])})
  <2>1. {c \in Conns : Born(conn[c])} = {}
    BY <1>5, NewConnectionOk
  <2> QED  BY <2>1, FS_EmptySet
<1>9. ServerOk(conn, {}, loop, user, 0)
  BY <1>4, <1>6, <1>7, <1>8 DEF ServerOk
<1> QED  BY <1>5, <1>9 DEF ServerInv

\* Every step preserves the invariant.
LEMMA NextServerInv == ServerInv /\ [Next]_vars => ServerInv'
<1> SUFFICES ASSUME ServerInv, [Next]_vars PROVE ServerInv'
  OBVIOUS
<1>1. ASSUME NEW l \in Loops, LoopStep(l) PROVE ServerInv'
  BY <1>1, PollStep, EventStep, SwapStep, FunctorStep, FunctorsDoneStep DEF LoopStep
<1>2. CASE ServerStep
  BY <1>2, PoolSteps, ServerDtorStep DEF ServerStep
<1>3. ASSUME NEW c \in Conns, UserStep(c) PROVE ServerInv'
  BY <1>3, UserSteps
<1>4. ASSUME NEW c \in Conns, PeerStep(c) PROVE ServerInv'
  BY <1>4, PeerSteps
<1>5. CASE UNCHANGED vars
  BY <1>5 DEF vars, ServerInv
<1> QED  BY <1>1, <1>2, <1>3, <1>4, <1>5 DEF Next

\* Tcp_Server, Tcp_Connection and their loops: whatever the peers, the users'
\* threads and the loops do and in whatever order, every regular connection is in
\* one of the phases of its life, with exactly the functors queued that this phase
\* says.
THEOREM ServerInvariant == Spec => []ServerInv
  BY InitServerInv, NextServerInv, PTL DEF Spec

\* The phase of a regular connection that was created.
LEMMA PhaseOf ==
    ASSUME ServerInv, NEW c \in Conns, Created(c), Regular(c)
    PROVE  \E e, d, r : /\ Life(c, conn[c], e, d, r, connections_, closing)
                        /\ e = Times(Queue(loop[conn[c].loop_]), Est(c))
                        /\ d = Times(Queue(loop[conn[c].loop_]), Des(c))
                        /\ r = Times(Queue(loop[Base]), Rem(c))
<1>1. ConnOk(c, conn[c], loop, connections_, user[c], closing)
  BY OfServerOk DEF ServerInv
<1>2. Born(conn[c]) /\ Steady(conn[c])
  BY DEF Created, Regular, Born, Steady
<1>3. Life(c, conn[c], Times(Queue(loop[conn[c].loop_]), Est(c)),
           Times(Queue(loop[conn[c].loop_]), Des(c)), Times(Queue(loop[Base]), Rem(c)),
           connections_, closing)
  BY <1>1, <1>2 DEF ConnOk, LifeOk
<1> QED  BY <1>3

\* In every phase no assert has failed; a connection that was not created is fresh.
LEMMA PhaseFacts ==
    ASSUME ServerInv, NEW c \in Conns, Regular(c)
    PROVE  \/ ~Created(c) /\ Fresh(conn[c])
           \/ Created(c) /\ (Fresh(conn[c]) \/ Up(conn[c]) \/ Closed(conn[c]) \/ Removed(conn[c]))
<1>1. ConnOk(c, conn[c], loop, connections_, user[c], closing)
  BY OfServerOk DEF ServerInv
<1>2. CASE Created(c)
  BY <1>2, PhaseOf DEF Life
<1>3. CASE ~Created(c)
  BY <1>1, <1>3 DEF ConnOk, Created, Born
<1> QED  BY <1>2, <1>3

\* A regular connection that nobody holds any more has been through its life.
LEMMA DestroyedIsRemoved ==
    ASSUME ServerInv, NEW c \in Conns, Destroyed(c), Regular(c)
    PROVE  Removed(conn[c])
<1>1. ServerOk(conn, connections_, loop, user, closing) /\ LoopsOk(loop, closing)
  BY DEF ServerInv, ServerOk
<1>2. Created(c) /\ c \notin connections_ /\ \A l \in Loops : c \notin Queued(l)
  BY DEF Destroyed, Referenced
<1>3. conn[c].loop_ \in Loops
  BY <1>1, OfServerOk
<1> DEFINE l == conn[c].loop_
<1>4. PICK e, d, r : /\ Life(c, conn[c], e, d, r, connections_, closing)
                     /\ e = Times(Queue(loop[l]), Est(c)) /\ d = Times(Queue(loop[l]), Des(c))
                     /\ r = Times(Queue(loop[Base]), Rem(c))
  BY <1>2, PhaseOf
<1>5. e = 0 /\ d = 0
  <2> DEFINE q == loop[l].functors
             p == loop[l].pending
  <2>1. q \in Seq(Functors) /\ p \in Seq(Functors)
    BY <1>1, <1>3, QueueType
  <2>2. /\ \A i \in DOMAIN q : q[i].c # c
        /\ \A i \in DOMAIN p : p[i].c # c
    BY <1>2, <1>3 DEF Queued
  <2>3. Queue(loop[l]) = q \o p
    BY DEF Queue
  <2> HIDE DEF q, p, l
  <2>4. \A i \in DOMAIN (q \o p) : (q \o p)[i].c # c
    BY <2>1, <2>2, QueueConcat
  <2>5. Est(c).c = c /\ Des(c).c = c
    BY Different
  <2>6. Never(q \o p, Est(c)) /\ Never(q \o p, Des(c))
    BY <2>4, <2>5 DEF Never
  <2> QED  BY <1>4, <2>3, <2>6 DEF Times
<1> HIDE DEF l
<1> QED  BY <1>2, <1>4, <1>5 DEF Life, Held

\* No assert of channel.cpp, epoll_poller.cpp, tcp_connection.cpp and
\* tcp_server.cpp ever fails on a regular connection.
THEOREM AssertsHold == Spec => []NoAssertFails
<1>1. ServerInv => NoAssertFails
  BY PhaseFacts DEF NoAssertFails, Fresh, Up, Closed, Removed
<1> QED  BY <1>1, ServerInvariant, PTL

\* ~Tcp_Connection finds every regular connection disconnected, after one UP and
\* one DOWN, whichever thread drops the last pointer.
THEOREM TheDestroyedAreDown == Spec => []DestroyedIsDown
<1>1. ServerInv => DestroyedIsDown
  BY DestroyedIsRemoved DEF DestroyedIsDown, Removed
<1> QED  BY <1>1, ServerInvariant, PTL

\* The raw pointers of active_channels_ and of the epoll set: no callback is made
\* on the channel of a regular connection that was destroyed.
THEOREM NoDanglingChannel == Spec => []RawPointersAlive
<1>1. ASSUME ServerInv, NEW c \in Conns, Destroyed(c), Regular(c)
      PROVE  /\ ~conn[c].polled
             /\ \A l \in Loops : \A i \in DOMAIN loop[l].todo : loop[l].todo[i].c # c
  <2>1. Removed(conn[c])
    BY <1>1, DestroyedIsRemoved
  <2>2. ConnOk(c, conn[c], loop, connections_, user[c], closing)
    BY <1>1, OfServerOk DEF ServerInv
  <2>3. ASSUME NEW l \in Loops, NEW i \in DOMAIN loop[l].todo, loop[l].todo[i].c = c
        PROVE  FALSE
    <3>1. EntryOk(conn[c], l, loop[l].todo[i])
      BY <2>2, <2>3 DEF ConnOk, TodoOk
    <3>2. Steady(conn[c])
      BY <1>1 DEF Regular, Steady
    <3> QED  BY <2>1, <3>1, <3>2 DEF EntryOk, Removed
  <2> QED  BY <2>1, <2>3 DEF Removed
<1>2. ServerInv => RawPointersAlive
  BY <1>1 DEF RawPointersAlive
<1> QED  BY <1>2, ServerInvariant, PTL

\* send_in_loop and handle_write: OUT events are waited for exactly while
\* output_buffer_ has something to write.
THEOREM WritingWhileBuffered == Spec => []WritingIffBuffered
<1>1. ASSUME ServerInv, NEW c \in Conns, Regular(c),
             conn[c].state_ \in {"k_connected", "k_disconnecting"}
      PROVE  /\ is_writing(conn[c]) <=> conn[c].output_buffer_ # <<>>
             /\ conn[c].polled /\ conn[c].interest = conn[c].events
  <2>1. Up(conn[c])
    BY <1>1, PhaseFacts DEF Fresh, Closed, Removed
  <2> QED  BY <2>1 DEF Up, is_writing
<1>2. ServerInv => WritingIffBuffered
  BY <1>1 DEF WritingIffBuffered
<1> QED  BY <1>2, ServerInvariant, PTL

\* send: nothing that was accepted is lost, repeated or overtaken while the stream
\* is open, on regular and on other connections.
THEOREM TheStreamIsInOrder == Spec => []StreamInOrder
<1>1. ASSUME ServerInv, NEW c \in Conns, conn[c].peer # "rst", ~conn[c].wrshut
      PROVE  conn[c].wire \o conn[c].output_buffer_ = [i \in 1 .. conn[c].accepted |-> i]
  <2>1. Stream(conn[c])
    BY <1>1, OfServerOk DEF ServerInv, ConnOk
  <2> QED  BY <1>1, <2>1 DEF Stream, Broken, Numbered
<1>2. ServerInv => StreamInOrder
  BY <1>1 DEF StreamInOrder
<1> QED  BY <1>2, ServerInvariant, PTL

\* shutdown: the FIN of a connection that was not closed meanwhile comes after
\* everything that was accepted.
THEOREM TheFinComesLast == Spec => []FinComesLast
<1>1. ASSUME ServerInv, NEW c \in Conns, conn[c].wrshut, conn[c].state_ # "k_disconnected",
             Regular(c)
      PROVE  /\ conn[c].output_buffer_ = <<>>
             /\ conn[c].wire = [i \in 1 .. Len(conn[c].wire) |-> i]
  <2>1. Stream(conn[c])
    BY <1>1, OfServerOk DEF ServerInv, ConnOk
  <2>2. Up(conn[c])
    BY <1>1, PhaseFacts DEF Fresh, Closed, Removed
  <2> QED  BY <1>1, <2>1, <2>2 DEF Stream, Numbered, Up
<1>2. ServerInv => FinComesLast
  BY <1>1 DEF FinComesLast
<1> QED  BY <1>2, ServerInvariant, PTL

-----------------------------------------------------------------------------
(* get_next_loop deals the connections out in turn.                        *)

\* A connection stays on its loop and is created once.
SameHome(x, y) == y.loop_ = x.loop_ /\ (Born(y) <=> Born(x))
Settled == \A c \in Conns : SameHome(conn[c], conn'[c])

\* Connection c is created, on the loop whose turn it is.
Dealt(c) ==
    /\ ~Born(conn[c]) /\ Born(conn'[c]) /\ conn'[c].loop_ = get_next_loop[1]
    /\ next_' = get_next_loop[2]
    /\ \A d \in Conns : d # c => conn'[d] = conn[d]

\* A step that changes one connection.
LEMMA OneSettles ==
    ASSUME conn \in [Conns -> Conn], NEW c \in Conns, NEW y, conn' = [conn EXCEPT ![c] = y],
           SameHome(conn[c], y)
    PROVE  Settled
<1>1. conn'[c] = y /\ \A d \in Conns : d # c => conn'[d] = conn[d]
  OBVIOUS
<1> QED  BY <1>1 DEF Settled, SameHome

\* The member functions of a connection.
LEMMA HomeKept ==
    ASSUME NEW x, NEW y, Evolves(x, y) PROVE SameHome(x, y)
  BY DEF Evolves, SameHome, Born

\* functor.
LEMMA FunctorSettles ==
    ASSUME ServerInv, NEW l \in Loops, functor(l)
    PROVE  Settled /\ next_' = next_
<1> DEFINE f == Head(loop[l].functors)
           c == f.c
           x == conn[c]
           lq == [loop EXCEPT ![l].functors = Tail(@)]
           w == IF closing > 0 THEN condemn(x) ELSE x
<1>1. ServerOk(conn, connections_, loop, user, closing) /\ conn \in [Conns -> Conn]
  BY DEF ServerInv, ServerOk
<1>2. loop[l].at = "functors" /\ loop[l].functors # <<>> /\ LoopsOk(loop, closing)
  BY <1>1 DEF functor, ServerOk
<1>3. f \in Functors
  BY <1>2, FunctorTaken
<1>4. c \in Conns
  BY <1>3 DEF Functors
<1>5. x \in Conn /\ next_' = next_
  BY <1>1, <1>4 DEF functor
<1>6. \/ Calls(c, x, connect_established)
      \/ Calls(c, w, connect_destroyed)
      \/ conn' = [conn EXCEPT ![c] = shut_down_in_loop(x)]
      \/ conn' = [conn EXCEPT ![c] = send_in_loop(x)]
      \/ remove_connection_in_loop(c, conn, lq)
  BY DEF functor
<1> HIDE DEF lq, f, c, x, w
<1>7. \E y : conn' = [conn EXCEPT ![c] = y] /\ Evolves(x, y)
  <2>1. CASE Calls(c, x, connect_established)
    <3>1. PICK u \in CallbackChoices : conn' = [conn EXCEPT ![c] = connect_established(x, u)]
      BY <2>1 DEF Calls, UserChoices
    <3> QED  BY <1>5, <3>1, ConnectEstablished
  <2>2. CASE Calls(c, w, connect_destroyed)
    <3>1. PICK u \in CallbackChoices : conn' = [conn EXCEPT ![c] = connect_destroyed(w, u)]
      BY <2>2 DEF Calls, UserChoices
    <3>2. Evolves(x, connect_destroyed(w, u))
      BY <1>5, Destroys DEF w
    <3> QED  BY <3>1, <3>2
  <2>3. CASE conn' = [conn EXCEPT ![c] = shut_down_in_loop(x)]
    BY <1>5, <2>3, ShutDownInLoop DEF Keeps
  <2>4. CASE conn' = [conn EXCEPT ![c] = send_in_loop(x)]
    BY <1>5, <2>4, SendInLoop DEF Keeps
  <2>5. CASE remove_connection_in_loop(c, conn, lq)
    <3>1. conn' = [conn EXCEPT ![c] = Assert_(x, c \in connections_, "tcp_server.cpp:124")]
      BY <2>5 DEF remove_connection_in_loop, x
    <3>2. Evolves(x, Assert_(x, c \in connections_, "tcp_server.cpp:124"))
      BY <1>5, AssertErased
    <3> QED  BY <3>1, <3>2
  <2> QED  BY <1>6, <2>1, <2>2, <2>3, <2>4, <2>5
<1>8. PICK y : conn' = [conn EXCEPT ![c] = y] /\ Evolves(x, y)
  BY <1>7
<1>9. SameHome(conn[c], y)
  BY <1>8, HomeKept DEF x
<1> QED  BY <1>1, <1>4, <1>5, <1>8, <1>9, OneSettles

\* event, accept among them.
LEMMA EventSettles ==
    ASSUME ServerInv, NEW l \in Loops, event(l)
    PROVE  (Settled /\ next_' = next_) \/ \E c \in Conns : Dealt(c)
<1> DEFINE h == Head(loop[l].todo)
           c == h.c
           x == conn[c]
           lq == [loop EXCEPT ![l].todo = After(@)]
<1>1. /\ ServerOk(conn, connections_, loop, user, closing) /\ conn \in [Conns -> Conn]
      /\ next_ \in Nat /\ (next_ = 0 \/ next_ < num_threads_)
  BY DEF ServerInv, ServerOk
<1>2. loop[l].at = "events" /\ loop[l].todo # <<>> /\ LoopsOk(loop, closing)
  BY <1>1 DEF event, ServerOk
<1>3. h \in Entries
  BY <1>2, CallbackMade
<1>4. c \in Conns \cup {"acceptor"}
  BY <1>3 DEF Entries
<1>5. \/ accept(lq)
      \/ /\ c # "acceptor" /\ next_' = next_
         /\ \/ conn' = [conn EXCEPT ![c] = handle_error(x)]
            \/ Calls(c, x, handle_read)
            \/ conn' = [conn EXCEPT ![c] = handle_write(x)]
            \/ \E u \in UserChoices(x) :
                   remove_connection(l, c, [conn EXCEPT ![c] = handle_close(x, u)], lq)
  BY DEF event, After
<1> HIDE DEF lq, h, c, x
<1>6. CASE accept(lq)
  <2>1. PICK d \in Conns : /\ conn[d].peer = "backlog"
                           /\ \/ new_connection(d, lq)
                              \/ /\ conn' = [conn EXCEPT ![d].peer = "refused"]
                                 /\ next_' = next_
    BY <1>6 DEF accept
  <2> DEFINE v == conn[d]
             m == get_next_loop[1]
             z == [v EXCEPT !.peer = "open", !.loop_ = m]
  <2>2. v \in Conn /\ ~Born(v) /\ m \in Nat
    BY <1>1, <2>1, NextLoop, ServerAssumption DEF Born, Loops
  <2>3. CASE new_connection(d, lq)
    <3>1. /\ next_' = get_next_loop[2]
          /\ Calls(d, z, connect_established) \/ conn' = [conn EXCEPT ![d] = z]
      BY <2>3 DEF new_connection
    <3> HIDE DEF v, m
    <3>2. z \in Conn /\ z.peer = "open" /\ z.loop_ = m
      BY <2>2 DEF Conn, Peers
    <3> HIDE DEF z
    <3>3. PICK y : conn' = [conn EXCEPT ![d] = y] /\ Evolves(z, y)
      <4>1. CASE Calls(d, z, connect_established)
        <5>1. PICK u \in CallbackChoices : conn' = [conn EXCEPT ![d] = connect_established(z, u)]
          BY <4>1 DEF Calls, UserChoices
        <5> QED  BY <3>2, <5>1, ConnectEstablished
      <4>2. CASE conn' = [conn EXCEPT ![d] = z]
        BY <3>2, <4>2, EvolvesTransitive
      <4> QED  BY <3>1, <4>1, <4>2
    <3>4. Born(y) /\ y.loop_ = m
      BY <3>2, <3>3 DEF Evolves, Born
    <3>5. conn'[d] = y /\ \A e \in Conns : e # d => conn'[e] = conn[e]
      BY <1>1, <3>3
    <3>6. Dealt(d)
      BY <2>2, <3>1, <3>4, <3>5 DEF Dealt, v, m
    <3> QED  BY <3>6
  <2>4. CASE conn' = [conn EXCEPT ![d].peer = "refused"] /\ next_' = next_
    <3> DEFINE y == [v EXCEPT !.peer = "refused"]
    <3>1. conn' = [conn EXCEPT ![d] = y]
      BY <2>4
    <3>2. SameHome(v, y)
      BY <2>2 DEF SameHome, Born, Conn
    <3> HIDE DEF y
    <3>3. Settled
      BY <1>1, <3>1, <3>2, OneSettles
    <3> QED  BY <2>4, <3>3
  <2> QED  BY <2>1, <2>3, <2>4
<1>7. ASSUME c # "acceptor", NEW y, conn' = [conn EXCEPT ![c] = y], Evolves(x, y)
      PROVE  Settled
  <2>1. c \in Conns /\ SameHome(conn[c], y)
    BY <1>4, <1>7, HomeKept DEF x
  <2> QED  BY <1>1, <1>7, <2>1, OneSettles
<1>8. ASSUME c # "acceptor"
      PROVE  c \in Conns /\ x \in Conn
  BY <1>1, <1>4, <1>8 DEF x
<1>9. CASE c # "acceptor" /\ conn' = [conn EXCEPT ![c] = handle_error(x)]
  BY <1>5, <1>6, <1>7, <1>8, <1>9, HandleError DEF Keeps
<1>10. CASE c # "acceptor" /\ Calls(c, x, handle_read)
  <2>1. PICK u \in CallbackChoices : conn' = [conn EXCEPT ![c] = handle_read(x, u)]
    BY <1>10 DEF Calls, UserChoices
  <2> QED  BY <1>5, <1>6, <1>7, <1>8, <1>10, <2>1, HandleRead DEF Keeps
<1>11. CASE c # "acceptor" /\ conn' = [conn EXCEPT ![c] = handle_write(x)]
  BY <1>5, <1>6, <1>7, <1>8, <1>11, HandleWrite DEF Keeps
<1>12. CASE /\ c # "acceptor"
            /\ \E u \in UserChoices(x) :
                   remove_connection(l, c, [conn EXCEPT ![c] = handle_close(x, u)], lq)
  <2>1. PICK u \in CallbackChoices :
            remove_connection(l, c, [conn EXCEPT ![c] = handle_close(x, u)], lq)
    BY <1>12 DEF UserChoices
  <2> DEFINE z == handle_close(x, u)
             cn == [conn EXCEPT ![c] = z]
             y == Assert_(z, c \in connections_, "tcp_server.cpp:124")
  <2>2. z \in Conn /\ Evolves(x, z)
    BY <1>8, <1>12, HandleClose
  <2>3. y \in Conn /\ Evolves(z, y)
    BY <2>2, AssertErased
  <2>4. cn[c] = z /\ [cn EXCEPT ![c] = y] = [conn EXCEPT ![c] = y]
    BY <1>1, <1>8, <1>12
  <2>5. \/ conn' = cn
        \/ conn' = [cn EXCEPT ![c] = Assert_(cn[c], c \in connections_, "tcp_server.cpp:124")]
    BY <2>1, <2>4 DEF remove_connection, remove_connection_in_loop
  <2> HIDE DEF z
  <2>6. conn' = [conn EXCEPT ![c] = z] \/ conn' = [conn EXCEPT ![c] = y]
    BY <2>4, <2>5
  <2> HIDE DEF y, cn
  <2>7. Evolves(x, y)
    BY <1>8, <1>12, <2>2, <2>3, EvolvesTransitive
  <2>8. Settled
    BY <1>7, <1>12, <2>2, <2>6, <2>7
  <2> QED  BY <1>5, <1>6, <2>8
<1> QED  BY <1>5, <1>6, <1>9, <1>10, <1>11, <1>12

\* ~Tcp_Server and the end of a loop's thread.
LEMMA EndSettles ==
    ASSUME ServerInv, server_dtor \/ \E l \in Loops : functors_done(l)
    PROVE  Settled /\ next_' = next_
<1>1. conn \in [Conns -> Conn] /\ connections_ \subseteq Conns
  BY DEF ServerInv, ServerOk
<1>2. CASE server_dtor
  <2> DEFINE destroy(x, u) == IF x.loop_ = Base THEN connect_destroyed(condemn(x), u) ELSE x
  <2>1. PICK u \in [connections_ -> {"nothing", "shutdown"}] :
          conn' = [c \in Conns |-> IF c \in connections_ THEN destroy(conn[c], u[c]) ELSE conn[c]]
    BY <1>2 DEF server_dtor
  <2>2. ASSUME NEW c \in Conns PROVE SameHome(conn[c], conn'[c])
    <3>1. CASE conn'[c] = conn[c]
      BY <3>1 DEF SameHome
    <3>2. CASE c \in connections_ /\ conn'[c] = connect_destroyed(condemn(conn[c]), u[c])
      <4> DEFINE x == conn[c]
                 w == condemn(x)
                 v == u[c]
      <4>1. x \in Conn /\ v \in CallbackChoices
        BY <1>1, <2>1, <3>2 DEF CallbackChoices
      <4> HIDE DEF x, v
      <4>2. w \in Conn /\ Evolves(x, w)
        BY <4>1, Condemn
      <4> HIDE DEF w
      <4>3. Evolves(w, connect_destroyed(w, v)) /\ connect_destroyed(w, v) \in Conn
        BY <4>1, <4>2, ConnectDestroyed
      <4>4. Evolves(x, connect_destroyed(w, v))
        BY <4>1, <4>2, <4>3, EvolvesTransitive
      <4>5. SameHome(x, connect_destroyed(w, v))
        BY <4>4, HomeKept
      <4> QED  BY <3>2, <4>5 DEF x, w, v
    <3> QED  BY <2>1, <3>1, <3>2
  <2> QED  BY <1>2, <2>2 DEF Settled, server_dtor
<1>3. ASSUME NEW l \in Loops, functors_done(l) PROVE Settled /\ next_' = next_
  <2> DEFINE dropped == {loop[l].pending[i].c : i \in DOMAIN loop[l].pending}
  <2>1. \/ conn' = conn
        \/ conn' = [c \in Conns |-> [conn[c] EXCEPT !.condemned = @ \/ c \in dropped]]
    BY <1>3 DEF functors_done
  <2> HIDE DEF dropped
  <2>2. CASE conn' = conn
    BY <1>3, <2>2 DEF Settled, SameHome, functors_done
  <2>3. CASE conn' = [c \in Conns |-> [conn[c] EXCEPT !.condemned = @ \/ c \in dropped]]
    <3>1. ASSUME NEW c \in Conns PROVE SameHome(conn[c], conn'[c])
      <4>1. conn[c] \in Conn
        BY <1>1
      <4>2. conn'[c].loop_ = conn[c].loop_ /\ conn'[c].peer = conn[c].peer
        BY <2>3, <4>1 DEF Conn
      <4> QED  BY <4>2 DEF SameHome, Born
    <3> QED  BY <1>3, <3>1 DEF Settled, functors_done
  <2> QED  BY <2>1, <2>2, <2>3
<1> QED  BY <1>2, <1>3

\* Every step leaves the connections where they are, or deals one out.
LEMMA StepSettles ==
    ASSUME ServerInv, [Next]_vars
    PROVE  (Settled /\ next_' = next_) \/ \E c \in Conns : Dealt(c)
<1>1. conn \in [Conns -> Conn] /\ \A c \in Conns : conn[c] \in Conn
  BY DEF ServerInv, ServerOk
<1>2. ASSUME conn' = conn, next_' = next_ PROVE Settled /\ next_' = next_
  BY <1>2 DEF Settled, SameHome
<1>3. ASSUME NEW c \in Conns, NEW y \in Conn, KernelStep(conn[c], y),
             conn' = [conn EXCEPT ![c] = y]
      PROVE  Settled
  <2>1. conn[c] \in Conn
    BY <1>1
  <2>2. SameHome(conn[c], y)
    BY <1>3, <2>1 DEF KernelStep, SameButData, SameHome, Conn
  <2> QED  BY <1>1, <1>3, <2>2, OneSettles
<1>4. ASSUME NEW l \in Loops, LoopStep(l)
      PROVE  (Settled /\ next_' = next_) \/ \E c \in Conns : Dealt(c)
  <2>1. CASE poll(l) \/ do_pending_functors(l)
    BY <1>2, <2>1 DEF poll, do_pending_functors
  <2>2. CASE event(l)
    BY <2>2, EventSettles
  <2>3. CASE functor(l)
    BY <2>3, FunctorSettles
  <2>4. CASE functors_done(l)
    BY <2>4, EndSettles
  <2> QED  BY <1>4, <2>1, <2>2, <2>3, <2>4 DEF LoopStep
<1>5. ASSUME ServerStep PROVE Settled /\ next_' = next_
  <2>1. CASE start \/ quit \/ pool_dtor
    BY <1>2, <2>1 DEF start, quit, pool_dtor
  <2>2. CASE server_dtor
    BY <2>2, EndSettles
  <2> QED  BY <1>5, <2>1, <2>2 DEF ServerStep
<1>6. ASSUME NEW c \in Conns, UserStep(c) PROVE Settled /\ next_' = next_
  <2>0. conn[c] \in Conn
    BY <1>1
  <2>1. CASE user_takes(c) \/ user_drops(c) \/ user_queues(c)
    BY <1>2, <2>1 DEF user_takes, user_drops, user_queues
  <2>2. CASE user_send(c)
    <3> DEFINE y == [conn[c] EXCEPT !.sends = @ + 1]
    <3>1. y \in Conn /\ KernelStep(conn[c], y)
      BY <2>0, SocketSteps
    <3>2. conn' = [conn EXCEPT ![c] = y] /\ next_' = next_
      BY <2>2 DEF user_send
    <3> HIDE DEF y
    <3> QED  BY <1>3, <3>1, <3>2
  <2>3. CASE user_shutdown(c)
    <3> DEFINE y == exchange_disconnecting(conn[c])
    <3>1. Evolves(conn[c], y)
      BY <2>0, ExchangeDisconnecting DEF Keeps
    <3>2. conn' = [conn EXCEPT ![c] = y] /\ next_' = next_
      BY <2>3 DEF user_shutdown
    <3> HIDE DEF y
    <3>3. SameHome(conn[c], y)
      BY <3>1, HomeKept
    <3> QED  BY <1>1, <3>2, <3>3, OneSettles
  <2> QED  BY <1>6, <2>1, <2>2, <2>3 DEF UserStep
<1>7. ASSUME NEW c \in Conns, PeerStep(c) PROVE Settled /\ next_' = next_
  BY <1>3, <1>7, PeerChanges
<1>8. CASE UNCHANGED vars
  BY <1>2, <1>8 DEF vars
<1> QED  BY <1>4, <1>5, <1>6, <1>7, <1>8 DEF Next

\* The connections that were dealt to loop k.
On(cn, k) == {c \in Conns : Born(cn[c]) /\ cn[c].loop_ = k}

\* Every connection is on a loop of the pool, and the first next_ of these have got
\* one connection more than the others.
InTurn ==
    num_threads_ > 0 =>
        /\ \A c \in Conns : Born(conn[c]) => conn[c].loop_ \in 1 .. num_threads_
        /\ \E q \in Nat : \A k \in 1 .. num_threads_ :
            Cardinality(On(conn, k)) = IF k <= next_ THEN q + 1 ELSE q

\* A loop's connections are finitely many.
LEMMA OnFinite ==
    ASSUME ServerInv, NEW k
    PROVE  IsFiniteSet(On(conn, k)) /\ Cardinality(On(conn, k)) \in Nat
<1> DEFINE S == {c \in Conns : Born(conn[c])}
<1>1. IsFiniteSet(S) /\ On(conn, k) \in SUBSET S
  BY DEF ServerInv, ServerOk, On
<1> HIDE DEF S
<1>2. IsFiniteSet(On(conn, k))
  BY <1>1, FS_Subset
<1> QED  BY <1>2, FS_CardinalityType

\* A connection is dealt out.
LEMMA DealtInTurn ==
    ASSUME ServerInv, InTurn, NEW c \in Conns, Dealt(c), num_threads_ > 0
    PROVE  InTurn'
<1>1. next_ \in Nat /\ (next_ = 0 \/ next_ < num_threads_) /\ num_threads_ \in Nat \ {0}
  BY ServerAssumption DEF ServerInv
<1>2. /\ get_next_loop[1] = next_ + 1
      /\ get_next_loop[2] = IF next_ + 1 >= num_threads_ THEN 0 ELSE next_ + 1
  BY <1>1, NextLoop
<1>3. /\ ~Born(conn[c]) /\ Born(conn'[c]) /\ conn'[c].loop_ = next_ + 1
      /\ next_' = IF next_ + 1 >= num_threads_ THEN 0 ELSE next_ + 1
      /\ \A d \in Conns : d # c => conn'[d] = conn[d]
  BY <1>2 DEF Dealt
<1>4. PICK q \in Nat : \A k \in 1 .. num_threads_ :
          Cardinality(On(conn, k)) = IF k <= next_ THEN q + 1 ELSE q
  BY <1>1 DEF InTurn
<1> DEFINE j == next_ + 1
<1>5. j \in 1 .. num_threads_ /\ Cardinality(On(conn, j)) = q
  BY <1>1, <1>4
<1>6. Cardinality(On(conn', j)) = q + 1
  <2> DEFINE S == On(conn, j)
  <2>1. On(conn', j) = S \cup {c} /\ c \notin S
    BY <1>3 DEF On
  <2>2. IsFiniteSet(S)
    BY OnFinite
  <2> HIDE DEF S
  <2>3. Cardinality(S \cup {c}) = Cardinality(S) + 1
    BY <2>1, <2>2, FS_AddElement
  <2> QED  BY <1>5, <2>1, <2>3 DEF S
<1>7. \A k : k # j => On(conn', k) = On(conn, k)
  BY <1>3 DEF On
<1>8. \A k \in 1 .. num_threads_ :
        Cardinality(On(conn', k)) = IF k <= j THEN q + 1 ELSE q
  <2> SUFFICES ASSUME NEW k \in 1 .. num_threads_
               PROVE  Cardinality(On(conn', k)) = IF k <= j THEN q + 1 ELSE q
    OBVIOUS
  <2>1. CASE k = j
    BY <1>1, <1>6, <2>1
  <2>2. CASE k # j
    <3>1. Cardinality(On(conn', k)) = IF k <= next_ THEN q + 1 ELSE q
      BY <1>4, <1>7, <2>2
    <3> QED  BY <1>1, <2>2, <3>1
  <2> QED  BY <2>1, <2>2
<1>h. \A d \in Conns : Born(conn'[d]) => conn'[d].loop_ \in 1 .. num_threads_
  <2> SUFFICES ASSUME NEW d \in Conns, Born(conn'[d])
               PROVE  conn'[d].loop_ \in 1 .. num_threads_
    OBVIOUS
  <2>1. CASE d = c
    BY <1>3, <1>5, <2>1
  <2>2. CASE d # c
    BY <1>1, <1>3, <2>2 DEF InTurn
  <2> QED  BY <2>1, <2>2
<1>9. CASE j >= num_threads_
  <2>1. next_' = 0 /\ \A k \in 1 .. num_threads_ : Cardinality(On(conn', k)) = q + 1
    BY <1>1, <1>3, <1>8, <1>9
  <2>2. \A k \in 1 .. num_threads_ :
          Cardinality(On(conn', k)) = IF k <= next_' THEN (q + 1) + 1 ELSE q + 1
    BY <2>1
  <2>3. q + 1 \in Nat
    OBVIOUS
  <2> QED  BY <1>h, <2>2, <2>3 DEF InTurn
<1>10. CASE ~(j >= num_threads_)
  <2>1. next_' = j
    BY <1>3, <1>10
  <2> QED  BY <1>h, <1>8, <2>1 DEF InTurn
<1> QED  BY <1>9, <1>10

\* get_next_loop: over any number of loops and connections, accepted and closed in
\* any order, every connection is on one of the pool's loops, none of these gets two
\* connections more than another, and the next connection goes to one that has the
\* fewest.
THEOREM ThePoolIsBalanced == Spec => []Balanced
<1>1. Init => InTurn
  <2> SUFFICES ASSUME Init PROVE InTurn
    OBVIOUS
  <2>1. \A c \in Conns : ~Born(conn[c])
    BY NewConnectionOk DEF Init
  <2>2. \A k : On(conn, k) = {}
    BY <2>1 DEF On
  <2>3. next_ = 0 /\ Cardinality({}) = 0
    BY FS_EmptySet DEF Init
  <2>4. \A k \in 1 .. num_threads_ : Cardinality(On(conn, k)) = IF k <= next_ THEN 0 + 1 ELSE 0
    BY <2>2, <2>3
  <2> QED  BY <2>1, <2>4 DEF InTurn
<1>2. ServerInv /\ InTurn /\ [Next]_vars => InTurn'
  <2> SUFFICES ASSUME ServerInv, InTurn, [Next]_vars, num_threads_ > 0 PROVE InTurn'
    BY DEF InTurn
  <2>1. ASSUME Settled, next_' = next_ PROVE InTurn'
    <3>1. \A k : On(conn', k) = On(conn, k)
      BY <2>1 DEF Settled, SameHome, On
    <3>2. \A c \in Conns : Born(conn'[c]) => conn'[c].loop_ \in 1 .. num_threads_
      BY <2>1 DEF Settled, SameHome, InTurn
    <3> QED  BY <2>1, <3>1, <3>2 DEF InTurn
  <2> QED  BY <2>1, StepSettles, DealtInTurn
<1>3. ServerInv /\ InTurn => Balanced
  <2> SUFFICES ASSUME ServerInv, InTurn, num_threads_ > 0 PROVE Balanced
    BY DEF Balanced
  <2>1. next_ \in Nat /\ (next_ = 0 \/ next_ < num_threads_) /\ num_threads_ \in Nat \ {0}
    BY ServerAssumption DEF ServerInv
  <2>2. get_next_loop[1] = next_ + 1 /\ Loops \ {Base} = 1 .. num_threads_
    BY <2>1, NextLoop DEF Loops, Base
  <2>3. \A c \in Conns : Created(c) => conn[c].loop_ \in Loops \ {Base}
    BY <2>1, <2>2 DEF InTurn, Created, Born
  <2>4. \A k : Load(k) = Cardinality(On(conn, k))
    BY DEF Load, On, Created, Born
  <2>5. PICK q \in Nat : \A k \in 1 .. num_threads_ :
            Load(k) = IF k <= next_ THEN q + 1 ELSE q
    BY <2>4 DEF InTurn
  <2>6. \A k, l \in 1 .. num_threads_ : Load(k) <= Load(l) + 1
    BY <2>1, <2>5
  <2>7. next_ + 1 \in 1 .. num_threads_ /\ Load(next_ + 1) = q
    BY <2>1, <2>5
  <2>8. \A l \in 1 .. num_threads_ : Load(next_ + 1) <= Load(l)
    BY <2>1, <2>5, <2>7
  <2> QED  BY <2>2, <2>3, <2>6, <2>7, <2>8 DEF Balanced
<1> QED  BY <1>1, <1>2, <1>3, ServerInvariant, PTL DEF Spec
=============================================================================
