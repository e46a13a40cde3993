------------------------------ MODULE TcpServer ------------------------------
(***************************************************************************)
(* src/net/tcp_server.cpp and src/net/acceptor.cpp over TcpConnection: a   *)
(* server whose acceptor runs on the base loop and deals its connections   *)
(* out to num_threads_ other loops, the users' threads that hold a         *)
(* Tcp_Connection_Ptr, and the peers.                                      *)
(*                                                                         *)
(* Loops.  Each loop is the mailbox that EventLoop is proved to implement, *)
(* plus the channels epoll reports.  Callbacks and functors run one at a   *)
(* time on their loop's thread and each is one step: between its steps     *)
(* another thread can only exchange state_ or append to a queue, and a     *)
(* callback reads state_ at one place.  What users' threads do is two      *)
(* steps, the access to state_ and the append.                             *)
(***************************************************************************)
EXTENDS TcpConnection, SequencesExt

CONSTANTS
    Conns,              \* the peers that may connect, and the connections they get
    num_threads_,       \* 0: everything runs on the base loop
    MaxArrivals,        \* bound: segments that peers send, all together
    FdLimit,            \* connections the process may have open: RLIMIT_NOFILE
    UserThreads,        \* do threads outside the server hold connections?
    ServerDies          \* is the server destroyed while it has connections?

ASSUME ServerAssumption ==
    /\ num_threads_ \in Nat /\ MaxArrivals \in Nat /\ FdLimit \in Nat
    /\ {UserThreads, ServerDies} \subseteq BOOLEAN
    /\ "acceptor" \notin Conns

Base == 0
Loops == 0 .. num_threads_

VARIABLES
    conn,           \* the connections, see TcpConnection
    connections_,   \* the map of the server, as a set
    next_,          \* of the pool: the loop that gets the next connection
    listenning_,
    loop,           \* loop[l]: where it is, callbacks and functors to run, queue
    user,           \* user[c]: what the thread that holds a pointer to c is doing
    arrivals,       \* history: segments sent so far
    closing         \* 0: the server lives, k: ~Tcp_Server is at thread k of the pool

vars == <<conn, connections_, next_, listenning_, loop, user, arrivals, closing>>

\* Functors bound to a connection; each of them holds a Tcp_Connection_Ptr.
Functor(op, c) == [op |-> op, c |-> c]
Ops == {"connect_established", "connect_destroyed", "shut_down_in_loop", "send_in_loop",
        "remove_connection_in_loop"}

Init ==
    /\ conn = [c \in Conns |-> NewConnection]
    /\ connections_ = {}
    /\ next_ = 0
    /\ listenning_ = FALSE
    /\ loop = [l \in Loops |-> [at |-> "poll", todo |-> <<>>, functors |-> <<>>,
                                pending |-> <<>>, quit_ |-> FALSE]]
    /\ user = [c \in Conns |-> "none"]
    /\ arrivals = 0
    /\ closing = 0

\* Who keeps a connection alive: the server's map, a user, a queued functor.
Queued(l) == {loop[l].functors[i].c : i \in DOMAIN loop[l].functors}
             \cup {loop[l].pending[i].c : i \in DOMAIN loop[l].pending}
Referenced(c) == c \in connections_ \/ user[c] # "none" \/ \E l \in Loops : c \in Queued(l)

\* A connection that was created and that nobody holds any more was destroyed.
Created(c) == conn[c].peer \notin {"away", "backlog", "refused"}
Destroyed(c) == Created(c) /\ ~Referenced(c)

-----------------------------------------------------------------------------
(* queue_in_loop and run_in_loop, as changes of the variable loop.         *)

queue_in_loop(lp, l, f) == [lp EXCEPT ![l].pending = Append(@, f)]

\* What user code may do in a callback.
UserChoices(x) ==
    {u \in CallbackChoices : u = "send" => x.sends < MaxSends}

\* Recorded as condemned: ~Tcp_Server has connect_destroyed called on a connection
\* that is still closing.
condemn(x) == [x EXCEPT !.condemned = @ \/ x.state_ = "k_disconnecting"]

\* The connection after a member function with a callback in which user code runs.
Calls(c, x, handler(_, _)) ==
    \E u \in UserChoices(x) : conn' = [conn EXCEPT ![c] = handler(x, u)]

-----------------------------------------------------------------------------
(* The server, on the base loop's thread.                                  *)

\* Mutant: next_ wraps around one connection too late.
get_next_loop_overruns == IF num_threads_ = 0 THEN <<Base, 0>>
                          ELSE <<next_ + 1, IF next_ + 1 > num_threads_ THEN 0 ELSE next_ + 1>>

\* The loop and the new value of next_.
get_next_loop == IF num_threads_ = 0 THEN <<Base, 0>>
                 ELSE <<next_ + 1, IF next_ + 1 >= num_threads_ THEN 0 ELSE next_ + 1>>

\* Tcp_Server::start: the threads are there; Acceptor::listen.
start ==
    /\ ~listenning_ /\ closing = 0
    /\ listenning_' = TRUE
    /\ UNCHANGED <<conn, connections_, next_, loop, user, arrivals, closing>>

\* new_connection: run_in_loop calls connect_established at once if the loop is
\* the base loop, and queues it otherwise.
new_connection(c, lp) ==
    LET l == get_next_loop[1]
        x == [conn[c] EXCEPT !.peer = "open", !.loop_ = l]
    IN  /\ connections_' = connections_ \cup {c}
        /\ next_' = get_next_loop[2]
        /\ IF l = Base
           THEN Calls(c, x, connect_established) /\ loop' = lp
           ELSE /\ conn' = [conn EXCEPT ![c] = x]
                /\ loop' = queue_in_loop(lp, l, Functor("connect_established", c))

\* Descriptors in use: nothing in src/ ever closes the socket of a connection.
OpenFds == {c \in Conns : Created(c)}

\* Acceptor::handle_read: accept one connection; at the limit of descriptors
\* give idle_fd_ up, accept, close at once and take idle_fd_ back.
accept(lp) ==
    \E c \in {d \in Conns : conn[d].peer = "backlog"} :
        \/ /\ Cardinality(OpenFds) < FdLimit
           /\ new_connection(c, lp)
        \/ /\ Cardinality(OpenFds) >= FdLimit
           /\ conn' = [conn EXCEPT ![c].peer = "refused"]
           /\ loop' = lp
           /\ UNCHANGED <<connections_, next_>>

\* Mutant: the entry is not erased.
remove_connection_in_loop_keeps_entry(c, cn, lp) ==
    /\ conn' = cn
    /\ loop' = queue_in_loop(lp, cn[c].loop_, Functor("connect_destroyed", c))
    /\ UNCHANGED connections_

\* The entry is erased and connect_destroyed queued, even on the base loop.
remove_connection_in_loop(c, cn, lp) ==
    /\ conn' = [cn EXCEPT ![c] = Assert_(@, c \in connections_, "tcp_server.cpp:124")]
    /\ connections_' = connections_ \ {c}
    /\ loop' = queue_in_loop(lp, cn[c].loop_, Functor("connect_destroyed", c))

\* remove_connection, called on loop l: run_in_loop of the base loop.
remove_connection(l, c, cn, lp) ==
    IF l = Base THEN remove_connection_in_loop(c, cn, lp)
    ELSE /\ conn' = cn
         /\ loop' = queue_in_loop(lp, Base, Functor("remove_connection_in_loop", c))
         /\ UNCHANGED connections_

-----------------------------------------------------------------------------
(* One iteration of a loop.                                                *)

\* The channels epoll has something to say about.
Ready(l) == {c \in Conns : conn[c].loop_ = l /\ conn[c].polled /\ revents(conn[c]) # {}}
Acceptable == listenning_ /\ closing = 0 /\ \E c \in Conns : conn[c].peer = "backlog"

\* epoll_wait returns with the channels that are ready, in some order, or
\* because a functor was queued or the loop told to quit; for each channel the
\* callbacks are fixed now.
poll(l) ==
    LET channels == Ready(l) \cup (IF l = Base /\ Acceptable THEN {"acceptor"} ELSE {})
        callbacks(c) == IF c = "acceptor" THEN <<"read">> ELSE handle_event(revents(conn[c]))
    IN  /\ loop[l].at = "poll"
        /\ channels # {} \/ loop[l].pending # <<>> \/ loop[l].quit_
        /\ \E order \in SetToSeqs(channels) :
             loop' = [loop EXCEPT ![l].at = "events",
                                  ![l].todo = [i \in DOMAIN order |->
                                                 [c |-> order[i], cbs |-> callbacks(order[i])]]]
        /\ UNCHANGED <<conn, connections_, next_, listenning_, user, arrivals, closing>>

\* The next callback of handle_event, of the channel whose turn it is.
event(l) ==
    LET c == Head(loop[l].todo).c
        cb == Head(Head(loop[l].todo).cbs)
        rest == Tail(Head(loop[l].todo).cbs)
        lp == [loop EXCEPT ![l].todo = IF rest = <<>> THEN Tail(@)
                                       ELSE <<[c |-> c, cbs |-> rest]>> \o Tail(@)]
        Closes == \E u \in UserChoices(conn[c]) :
                    /\ remove_connection(l, c, [conn EXCEPT ![c] = handle_close(@, u)], lp)
                    /\ UNCHANGED next_
        Stays == loop' = lp /\ UNCHANGED <<connections_, next_>>
    IN  /\ loop[l].at = "events" /\ loop[l].todo # <<>>
        /\ \/ c = "acceptor" /\ accept(lp)
           \/ c # "acceptor" /\ cb = "error" /\ Stays
                /\ conn' = [conn EXCEPT ![c] = handle_error(@)]
           \/ c # "acceptor" /\ (cb = "close" \/ (cb = "read" /\ AtEof(conn[c]))) /\ Closes
           \/ c # "acceptor" /\ cb = "read" /\ ~AtEof(conn[c]) /\ Stays
                /\ Calls(c, conn[c], handle_read)
           \/ c # "acceptor" /\ cb = "write" /\ Stays
                /\ conn' = [conn EXCEPT ![c] = handle_write(@)]
        /\ UNCHANGED <<listenning_, user, arrivals, closing>>

do_pending_functors(l) ==
    /\ loop[l].at = "events" /\ loop[l].todo = <<>>
    /\ loop' = [loop EXCEPT ![l].at = "functors", ![l].functors = loop[l].pending,
                            ![l].pending = <<>>]
    /\ UNCHANGED <<conn, connections_, next_, listenning_, user, arrivals, closing>>

functor(l) ==
    LET f == Head(loop[l].functors)
        lp == [loop EXCEPT ![l].functors = Tail(@)]
        Stays == loop' = lp /\ UNCHANGED connections_
    IN  /\ loop[l].at = "functors" /\ loop[l].functors # <<>>
        /\ \/ f.op = "connect_established" /\ Stays
                /\ Calls(f.c, conn[f.c], connect_established)
           \/ f.op = "connect_destroyed" /\ Stays
                /\ Calls(f.c, IF closing > 0 THEN condemn(conn[f.c]) ELSE conn[f.c],
                         connect_destroyed)
           \/ f.op = "shut_down_in_loop" /\ Stays
                /\ conn' = [conn EXCEPT ![f.c] = shut_down_in_loop(@)]
           \/ f.op = "send_in_loop" /\ Stays
                /\ conn' = [conn EXCEPT ![f.c] = send_in_loop(@)]
           \/ f.op = "remove_connection_in_loop" /\ remove_connection_in_loop(f.c, conn, lp)
        /\ UNCHANGED <<next_, listenning_, user, arrivals, closing>>

\* The end of an iteration and the test of quit_.  If loop() returns, the thread
\* of another loop than the base loop ends, and the loop is destroyed with the
\* functors that were queued since the swap; recorded as condemned are the
\* connections those were bound to.
functors_done(l) ==
    LET dropped == {loop[l].pending[i].c : i \in DOMAIN loop[l].pending}
    IN  /\ loop[l].at = "functors" /\ loop[l].functors = <<>>
        /\ \/ /\ ~loop[l].quit_
              /\ loop' = [loop EXCEPT ![l].at = "poll"]
              /\ UNCHANGED conn
           \/ /\ loop[l].quit_ /\ l = Base
              /\ loop' = [loop EXCEPT ![l].at = "exited"]
              /\ UNCHANGED conn
           \/ /\ loop[l].quit_ /\ l # Base
              /\ loop' = [loop EXCEPT ![l].at = "exited", ![l].pending = <<>>]
              /\ conn' = [c \in Conns |-> [conn[c] EXCEPT !.condemned = @ \/ c \in dropped]]
        /\ UNCHANGED <<connections_, next_, listenning_, user, arrivals, closing>>

-----------------------------------------------------------------------------
(* ~Tcp_Server, on the thread of the base loop after loop() has returned.  *)

quit ==
    /\ ServerDies /\ closing = 0 /\ ~loop[Base].quit_
    /\ loop' = [loop EXCEPT ![Base].quit_ = TRUE]
    /\ UNCHANGED <<conn, connections_, next_, listenning_, user, arrivals, closing>>

\* connect_destroyed of every connection, run at once or queued, on each loop in
\* some order.  In the callback of those run at once the user may call
\* shutdown(); send() would do nothing.
server_dtor ==
    LET Elsewhere(l) == {c \in connections_ : conn[c].loop_ = l /\ l # Base}
        Orders == [Loops -> UNION {SetToSeqs(Elsewhere(l)) : l \in Loops}]
        destroy(x, u) == IF x.loop_ = Base THEN connect_destroyed(condemn(x), u) ELSE x
    IN  /\ closing = 0 /\ loop[Base].at = "exited"
        /\ \E u \in [connections_ -> {"nothing", "shutdown"}] :
             conn' = [c \in Conns |-> IF c \in connections_ THEN destroy(conn[c], u[c])
                                     ELSE conn[c]]
        /\ connections_' = {}
        /\ closing' = 1
        /\ \E order \in Orders :
             /\ \A l \in Loops : order[l] \in SetToSeqs(Elsewhere(l))
             /\ loop' = [l \in Loops |->
                           [loop[l] EXCEPT !.pending = @ \o [i \in DOMAIN order[l] |->
                                               Functor("connect_destroyed", order[l][i])]]]
        /\ UNCHANGED <<next_, listenning_, user, arrivals>>

\* The threads of the pool, one after the other: quit() and join().
pool_dtor ==
    /\ closing \in Loops \ {0}
    /\ \/ /\ ~loop[closing].quit_
          /\ loop' = [loop EXCEPT ![closing].quit_ = TRUE] /\ UNCHANGED closing
       \/ /\ loop[closing].at = "exited"
          /\ closing' = closing + 1 /\ UNCHANGED loop
    /\ UNCHANGED <<conn, connections_, next_, listenning_, user, arrivals>>

-----------------------------------------------------------------------------
(* Users' threads.  One of them takes a copy of the pointer in the         *)
(* connection callback and drops it some time.                             *)

user_takes(c) ==
    /\ UserThreads /\ user[c] = "none" /\ Created(c) /\ Referenced(c) /\ conn[c].ups > 0
    /\ user' = [user EXCEPT ![c] = "holds"]
    /\ UNCHANGED <<conn, connections_, next_, listenning_, loop, arrivals, closing>>

user_drops(c) ==
    /\ user[c] = "holds"
    /\ user' = [user EXCEPT ![c] = "none"]
    /\ UNCHANGED <<conn, connections_, next_, listenning_, loop, arrivals, closing>>

\* send(): the test of state_, then the append to the queue of the loop.
user_send(c) ==
    /\ user[c] = "holds" /\ conn[c].sends < MaxSends
    /\ conn' = [conn EXCEPT ![c].sends = @ + 1]
    /\ user' = [user EXCEPT ![c] = IF conn[c].state_ = "k_connected" THEN "send_in_loop" ELSE @]
    /\ UNCHANGED <<connections_, next_, listenning_, loop, arrivals, closing>>

\* shutdown(): the exchange of state_, then the append.
user_shutdown(c) ==
    /\ user[c] = "holds"
    /\ user' = [user EXCEPT ![c] = IF conn[c].state_ = "k_connected" THEN "shut_down_in_loop"
                                   ELSE @]
    /\ conn' = [conn EXCEPT ![c] = exchange_disconnecting(@)]
    /\ UNCHANGED <<connections_, next_, listenning_, loop, arrivals, closing>>

user_queues(c) ==
    /\ user[c] \in {"send_in_loop", "shut_down_in_loop"}
    /\ loop' = queue_in_loop(loop, conn[c].loop_, Functor(user[c], c))
    /\ user' = [user EXCEPT ![c] = "holds"]
    /\ UNCHANGED <<conn, connections_, next_, listenning_, arrivals, closing>>

-----------------------------------------------------------------------------
(* Peers (external).                                                       *)

peer_connects(c) ==
    /\ listenning_ /\ closing = 0 /\ conn[c].peer = "away"
    /\ conn' = [conn EXCEPT ![c].peer = "backlog"]
    /\ UNCHANGED <<connections_, next_, listenning_, loop, user, arrivals, closing>>

peer_sends(c) ==
    /\ conn[c].peer = "open" /\ arrivals < MaxArrivals
    /\ conn' = [conn EXCEPT ![c].inq = 1]
    /\ arrivals' = arrivals + 1
    /\ UNCHANGED <<connections_, next_, listenning_, loop, user, closing>>

\* The peer reads a byte that the kernel had buffered.
peer_reads(c) ==
    /\ conn[c].peer \in {"open", "fin"} /\ conn[c].room < SndBuf
    /\ conn' = [conn EXCEPT ![c].room = @ + 1]
    /\ UNCHANGED <<connections_, next_, listenning_, loop, user, arrivals, closing>>

peer_closes(c) ==
    /\ conn[c].peer = "open"
    /\ conn' = [conn EXCEPT ![c].peer = "fin"]
    /\ UNCHANGED <<connections_, next_, listenning_, loop, user, arrivals, closing>>

peer_resets(c) ==
    /\ conn[c].peer \in {"open", "fin"}
    /\ conn' = [conn EXCEPT ![c].peer = "rst", ![c].so_error = TRUE]
    /\ UNCHANGED <<connections_, next_, listenning_, loop, user, arrivals, closing>>

-----------------------------------------------------------------------------
LoopStep(l) ==
    poll(l) \/ event(l) \/ do_pending_functors(l) \/ functor(l) \/ functors_done(l)

ServerStep == start \/ quit \/ server_dtor \/ pool_dtor

UserStep(c) ==
    user_takes(c) \/ user_drops(c) \/ user_send(c) \/ user_shutdown(c) \/ user_queues(c)

PeerStep(c) ==
    peer_connects(c) \/ peer_sends(c) \/ peer_reads(c) \/ peer_closes(c) \/ peer_resets(c)

Next ==
    \/ \E l \in Loops : LoopStep(l)
    \/ ServerStep
    \/ \E c \in Conns : UserStep(c) \/ PeerStep(c)

Spec == Init /\ [][Next]_vars

\* The loops keep running, users' threads end the calls they have begun and drop
\* their pointers, and a peer that neither closed nor reset goes on reading.
Fairness ==
    /\ \A l \in Loops : WF_vars(LoopStep(l))
    /\ \A c \in Conns : WF_vars(user_queues(c)) /\ SF_vars(user_drops(c)) /\ WF_vars(peer_reads(c))

FairSpec == Spec /\ Fairness

-----------------------------------------------------------------------------
(* Properties.                                                             *)

\* Not Regular are the connections on which shutdown() was called after they
\* had been closed, the ones that were still closing when ~Tcp_Server had them
\* destroyed, and the ones whose functors a loop dropped when its thread ended:
\* what is said below of regular connections does not hold of them.
Regular(c) == ~conn[c].late /\ ~conn[c].condemned

\* No assert of channel.cpp, epoll_poller.cpp, tcp_connection.cpp or
\* tcp_server.cpp fails on a regular connection.
NoAssertFails == \A c \in Conns : Regular(c) => conn[c].failed = {}

\* ~Tcp_Connection, assert(state_ == k_disconnected), whichever thread drops
\* the last pointer to a regular connection; its user was told UP once and
\* DOWN once.
DestroyedIsDown ==
    \A c \in Conns : Destroyed(c) /\ Regular(c) =>
        conn[c].state_ = "k_disconnected" /\ conn[c].ups = 1 /\ conn[c].downs = 1

\* active_channels_ and the epoll set hold raw pointers: a channel that
\* handle_event is still to be called on, or that epoll may report, belongs to
\* a connection that is alive.
RawPointersAlive ==
    \A c \in Conns : Destroyed(c) /\ Regular(c) =>
        /\ ~conn[c].polled
        /\ \A l \in Loops : \A i \in DOMAIN loop[l].todo : loop[l].todo[i].c # c

\* send_in_loop, handle_write: while a regular connection is up, epoll waits for
\* OUT exactly when output_buffer_ has something to write: no busy loop, no stall.
WritingIffBuffered ==
    \A c \in Conns : conn[c].state_ \in {"k_connected", "k_disconnecting"} /\ Regular(c) =>
        /\ is_writing(conn[c]) <=> conn[c].output_buffer_ # <<>>
        /\ conn[c].polled /\ conn[c].interest = conn[c].events

\* send: what was written and what waits are together what was accepted, in
\* order, as long as the stream is open.
StreamInOrder ==
    \A c \in Conns :
        LET x == conn[c]
        IN  x.peer # "rst" /\ ~x.wrshut =>
                x.wire \o x.output_buffer_ = [i \in 1 .. x.accepted |-> i]

\* shutdown: the FIN of a connection that was not closed meanwhile follows
\* everything that was accepted before it; nothing waits behind it.  (Once the
\* peer has closed, what waits in output_buffer_ is given up, and a queued
\* shut_down_in_loop then sends the FIN without it.)
FinComesLast ==
    \A c \in Conns :
        LET x == conn[c]
        IN  x.wrshut /\ x.state_ # "k_disconnected" /\ Regular(c) =>
                x.output_buffer_ = <<>> /\ x.wire = [i \in 1 .. Len(x.wire) |-> i]

\* How many connections get_next_loop has dealt to a loop.
Load(l) == Cardinality({c \in Conns : Created(c) /\ conn[c].loop_ = l})

\* get_next_loop: every connection is on one of the pool's loops and none of these
\* gets two connections more than another; after every deal, the last before next_
\* wraps included, the turn is with a loop of the pool that has the fewest.
Balanced ==
    num_threads_ > 0 =>
        LET Pool == Loops \ {Base}
        IN  /\ \A c \in Conns : Created(c) => conn[c].loop_ \in Pool
            /\ \A k, l \in Pool : Load(k) <= Load(l) + 1
            /\ get_next_loop[1] \in Pool
            /\ \A l \in Pool : Load(get_next_loop[1]) <= Load(l)

\* A connection whose peer is gone is removed from the server and destroyed,
\* unless the base loop is quit.
PeerGoneIsCleanedUp ==
    \A c \in Conns : (conn[c].peer \in {"fin", "rst"})
        ~> (Destroyed(c) \/ loop[Base].quit_ \/ ~Regular(c))

\* shutdown() leads to the FIN, however full the send buffer was, unless the
\* connection is closed first.
ShutdownCompletes ==
    \A c \in Conns : (conn[c].state_ = "k_disconnecting")
        ~> (conn[c].wrshut \/ conn[c].state_ = "k_disconnected" \/ loop[Base].quit_
            \/ ~Regular(c))

\* ~Tcp_Connection, assert(state_ == k_disconnected), of every connection.
DestructorAssertHolds ==
    \A c \in Conns : Destroyed(c) => conn[c].state_ = "k_disconnected"

\* Channel::remove, assert(is_none_event()), of every connection.
RemoveAssertHolds == \A c \in Conns : "channel.cpp:95" \notin conn[c].failed
=============================================================================
