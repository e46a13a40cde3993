# DamnWebServer in TLA+

DamnWebServer is a small C++ network library after Muduo: event loops, one per
thread, a TCP server that deals its connections out to them, timers, a byte
buffer, an HTTP server on top and an asynchronous logger. This directory holds
TLA+ modules translated from its source (`src/src/net`, `src/src/http`,
`src/src/base`), the
TLC configurations that check them on small instances, and proofs that TLAPS
checks for every instance.

    tlc -workers 2 -config EventLoop.cfg MCEventLoop
    tlapm EventLoopProofs.tla

## 1. The system

| Part | State | Operations | Talks to |
|---|---|---|---|
| `Event_Loop` | `looping_`, `quit_`, `calling_pending_functors_`, `pending_functions_` under `mutex_`, the eventfd, `active_channels_` | `loop`, `quit`, `run_in_loop`, `queue_in_loop`, `wakeup`, `do_pending_functors` | its poller; every thread that queues work on it |
| `Channel`, `Epoll_Poller` | `events_`, `revents_`, `index_`, `channels_`, the epoll set | `enable_*`, `disable_*`, `remove`, `handle_event`, `poll` | the kernel; the callbacks of the owner of the channel |
| `Tcp_Connection` | `state_` (atomic), `output_buffer_`, `input_buffer_`, its channel | `send`, `shutdown`, `connect_established`, `connect_destroyed`, `handle_read/write/close/error` | its loop, the user's callbacks, the server |
| `Tcp_Server`, `Acceptor` | `connections_`, `listenning_`, `idle_fd_` | `start`, `new_connection`, `remove_connection`, the destructor | base loop, io loops |
| `Event_Loop_Thread(_Pool)`, `Thread`, `Mutex`, `Condition`, `Count_Down_Latch` | `loop_` under `mutex_`, `started_`, `joined_`, `tid_`, `count_`, `next_` | `start_loop`, `thread_func`, destructor, `get_next_loop` | the owner's thread and its children |
| `Timer_Queue`, `Timer`, `Timer_ID` | `timers_`, `active_timers_`, `canceling_timers_`, the timerfd | `add_timer`, `cancel`, `handle_read`, `reset` | the loop, other threads through `run_in_loop` |
| `Buffer` | a vector and two indexes | `append`, `read_fd`, `retrieve`, `retrieve_all` | connections, the HTTP parser |
| `Http_Server`, `Http_Context` | the state of the parser (a local variable of `on_message`) | `on_message`, `parse_request`, `on_request` | `Tcp_Connection`, `Buffer` |
| `Async_Logging`, `Log_File`, `Fixed_Buffer` | `current_buffer_`, `next_buffer_`, `buffers_`, the buffers of the thread, the file | `append`, `thread_func`, `stop`, `roll_file` | every thread that logs, the disk, the clock |
| `Logger`, `Log_Stream` | the level, the buffer of a line | the macros, `operator<<`, `finish`, the destructor | `g_output` |

What is hard about it, and what correctness means part by part:

* **Loop.** Other threads append to `pending_functions_` while the loop polls,
  dispatches or runs a batch, and wake it through an eventfd. Nothing may be
  lost, doubled or reordered; the loop may not sleep over queued work; `quit()`
  must end a sleeping loop.
* **Threads.** An `Event_Loop` lives on the stack of the child and its address is
  handed over through `loop_`. Construction, the hand-over, `quit()`, `join()`
  and the destruction of the mutex have to come in the right order.
* **Connections.** A connection is accepted on the base loop, lives on an io loop,
  is erased on the base loop and destroyed on the io loop, while users hold
  pointers and call `send` and `shutdown` from anywhere, and while the poller
  holds raw pointers. Bytes must leave in order, the FIN last.
* **Timers.** Callbacks add and cancel timers while the batch they belong to is
  running; addresses are used again; the clock of the timers is not the clock
  of the timerfd.
* **Buffer.** Growth, moving to the front and the stack buffer of `read_fd` must
  together be invisible.
* **HTTP.** TCP cuts the stream of requests anywhere, and each `on_message` has
  a parser of its own. Responses must answer the requests in order, and one
  that has no length must be the last thing before the FIN.
* **Logging.** Lines go through buffers that wander between the threads that log
  and the one that writes. None may be lost or overtaken before the logging is
  stopped, and the thread must find the buffers it gives back.

`PROJECT.json` lists these hazards line by line with the properties that cover
them.

## 2. Modules

    FunctorQueue  <- implemented by -  EventLoop      (EventLoopProofs)
    ByteQueue     <- implemented by -  Buffer         (BufferProofs)
    Monitor       <- extended by    -  LoopThreadPool (LoopThreadPoolProofs)
    Channel       <- extended by    -  TcpConnection  (TcpConnectionProofs)
    TcpConnection <- extended by    -  TcpServer      (TcpServerProofs)
    TimerQueue                                        (TimerQueueProofs)
    HttpContext, TcpConnection <- extended by - HttpServer (HttpServerProofs)
    FixedBuffer   <- extended by    -  LogFile
    LogFile       <- extended by    -  AsyncLogging   (AsyncLoggingProofs)

The modules with a prefix `MC` declare model values and the sets built from
them; the others are checked themselves. The module in parentheses has the
theorems.

**EventLoop.** One loop, its thread and any number of callers. `pc` is the
place of the loop's thread in `loop()`; an action stands for the code from one
place where another thread can come in between to the next. The critical
sections do one thing each (append, swap) and are one step. `queue_in_loop`
and `quit` are two steps, the write to memory and the `wakeup` that follows, and
so is the head of `loop()`: `looping_` is set, then `quit_` reset (`reset_quit`), and
a `quit()` in between is lost.
User code in a callback or functor is the loop's thread calling the interface
at the places `handler` and `functor`. The eventfd is a counter with the
kernel's limit as the constant `EventfdMax`.

**FunctorQueue** is what the loop promises: a FIFO mailbox. `EventLoop` maps
`queue` to the rest of the batch followed by the pending vector, and `done` to
what ran. `TcpServer` and `TimerQueue` use mailboxes for their loops.

**Monitor** has `Mutex` and `Condition` as pieces of actions, spurious wakeups
included. **LoopThreadPool** puts `Thread`, `Count_Down_Latch`,
`Event_Loop_Thread` and the start and end of the pool on top, one step per
lock, unlock, wait and access to a shared field. `~Event_Loop_Thread` reads
`loop_` unlocked, so the read is a step of its own. Of a child's loop only the
flags, the eventfd and its lifetime are kept; a write to a loop that is gone is
lost, and a second read of `loop_` that finds `nullptr` crashes.

**Channel** has one channel and its entries in `channels_` and in the epoll set
as operators on a record, with every `assert` recorded in the field `failed`.
**TcpConnection** adds the connection and its socket: the handlers are
operators from record to record, with the choice of the user's callback as
their second argument. The kernel's part (`write`, what epoll reports, what
`read` returns) is marked external. Bytes are numbered as they are accepted.
**TcpServer** says who calls these operators: the loops (`poll`, `event`,
`do_pending_functors`, `functor`, `functors_done`; `todo` is what `active_channels_`
still asks for, the callbacks of one channel after those of another), the server, its destructor
and that of the pool, users' threads and peers. A callback is one step, because
between its parts other threads can only exchange `state_` or append to a
queue, and it reads `state_` in one place; `send` and `shutdown` of users'
threads are two steps. A connection is destroyed when neither `connections_`,
nor a user, nor a queued functor holds it.

**TimerQueue** has the heap of timers (an address is free again after
`delete`), both indexes, the running batch, the timerfd and the wall clock,
which may be set while the timerfd, on `CLOCK_MONOTONIC`, goes on. `cancel` is
public in `Timer_Queue`, though `Event_Loop` does not offer it yet.
`add_timer` on another thread reads `timer->sequence()` after the hand-over; if
the timer is gone by then the read returns anything. `poll` puts the timerfd's
channel into `active_channels_` (`reported`); a callback that comes before
`handle_read` may arm the timerfd again, whose read then fails and is ignored.

**Buffer** has the member functions on a record of vector and indexes; offset
`i` of the vector is `buffer_[i + 1]`. `make_space` takes an `int` and `append` passes
a `size_t`: `to_int` is that conversion, with `IntMod` for the number of values of an
`int`, and the sums with the converted length are unsigned again. **ByteQueue** is
what a Buffer promises as long as the length of each append fits an `int`
(`FitsInt`). Connections and the HTTP parser use it as a queue on that condition.

**HttpContext** has the parser as operators. Text is a sequence of tokens: the
characters the parser looks for, and the words between them.
**HttpServer** puts it on one connection of `TcpConnection` with its loop, its
client and the network. `on_message` reads all there is and makes a context,
`parse_request` takes one line, `on_message_end` sends the response. The
network cuts the client's stream between any two tokens; a cut inside a word has
the effect of one before it. The client's requests are records, from which both
the text on the wire and the expected response (`Expected`) are made, so that
the response does not depend on the model of the parser. `KnownPaths` stands for
the user's callback; with `{}` it is `default_http_callback`.

**FixedBuffer** has `Fixed_Buffer` as it is: `length()` is the size of the array,
and `reset` clears nothing. **LogFile** has `Log_File` and `File_Util` on a record,
with a clock that may be set back. **AsyncLogging** has the threads that log, the
owner and `thread_func`. `append` and the part of `thread_func` under `mutex_` are
one step each; `wait_for` may end at any time, so the condition variable needs no
state. A write of the thread takes several steps when the disk is full. Since a
buffer is written whole and reused without being cleared, lines occur in the
files more than once; `stored` is the set of the lines that were handed to `fwrite`,
and `in_order` says that none of them was first handed over before an earlier one.
`held` are the lines that stdio keeps for its next flush. `File_Util` looks neither at
`fflush` nor at `fclose`: if the disk is full when stdio writes, what it held becomes
`doubtful`, that is, it may be lost though the disk is freed later. `strays` counts
the writes in a row that went to the file of an earlier day. The disk fills up
where the thread writes, flushes or closes the file: nobody else could tell.

## 3. What the runs check

| Run | Bounds | Shows |
|---|---|---|
| `event_loop` | 2 callers, 3 functors, 1 io channel, `EventfdMax` 2 | `FifoExactlyOnce`, `NoMissedWakeup`; live: `QueuedRuns`, `QuitStops`; refinement `MailboxSpec` |
| `loop_thread_pool` | 2 threads | `StartedHasTid`, `StartReturnsLoops`, `ChildEndsFirst`; live: `StartReturns`, `DestructorReturnsIfLooping` |
| `server_threads` | 3 peers, 2 descriptors, 2 io loops, the server may be destroyed | `NoAssertFails`, `DestroyedIsDown`, `RawPointersAlive`, `Balanced` |
| `connection_stream` | 1 connection, messages of 2 bytes over a send buffer of 1, 2 messages, a user's thread | `NoAssertFails`, `WritingIffBuffered`, `StreamInOrder`, `FinComesLast`; live: `PeerGoneIsCleanedUp`, `ShutdownCompletes` |
| `timer_queue` | 2 timers, 2 addresses, delays 0 and 2, time to 3, the clock is set once | `IndexesAgree`, `OneOwner`, `CancelSticks`, `NoneLost`, `AlarmCovers`; live: `DueTimerRuns` |
| `buffer` | prepend 2, vector 3, extrabuf 2, 9 bytes, appends of up to 7, an `int` of 16 values | `IndexesOrdered`, `GrowsOnlyWhenFull`; refinement `QueueSpec` |
| `http_server` | 2 requests of 8 kinds, 1 cut, responses of 2 bytes over a send buffer of 1 | `AnswersInOrder`, `FramedOrLast`, `RefusedForAReason`; live: `TidyClientIsAnswered`, `FinEndsResponse` |
| `async_logging` | 3 lines, buffers of 2 (1 usable), 2 seconds on either side of midnight, files of 5 units, the disk fills up twice, the clock is set back once | `BuffersGoRound`, `NoLineLost`, `StopSavesLines`, `DaysSeparated`; live: `LinesAreWritten` |

Why the bounds are enough: three functors are the fewest with which one is in
the batch, one is pending and one is being queued, and an eventfd that stops
at 2 saturates with two callers. Two threads in the pool show the second start
and the hand-over from one destruction to the next. Two io loops and two
descriptors give every loop a connection and refuse the third peer; with the second
connection `next_` wraps around, and `Balanced` looks at the loop whose turn it is
then, so an index out of `loops_` shows before a third connection is dealt to it.
Two connections of one loop in `active_channels_` together do not occur in this run;
for them there is the theorem `NoDanglingChannel`. A send
buffer of one byte makes every message a partial write. Two timers are one in
the batch and one in the set, or two in a batch, or one that gets the address
of the other. Nine bytes let the small vector grow, move to the front and
overflow into extrabuf, in every order. Two requests are one that is answered
and one that arrives with it, behind it or in its place; a cut at any token, and
the end of what the client has sent so far, make pieces of both. Three lines in
buffers that hold one each use up the reserve, make `append` allocate, and leave
the thread with one buffer more than it keeps; a third write fills a file, and the
one midnight falls before, between and behind the writes.

What `http_server` does not say is as telling: a request whose lines arrive in two
segments is refused with a 400, a second request in one segment is not answered
before more data arrives, and a body is taken for the next request. The
properties name these cases (`split`, `lumped`, `body`), and `bare` for a line without
a colon, which ends the header. In the same way
`StopSavesLines` holds only if the thread was about to exchange the buffers, and it
and `LinesAreWritten` except the `doubtful` lines. `OneOwner` is about the thread of
the loop and the time before `~Timer_Queue`; section 5 says what it leaves out.

Four runs end in a violation, each against a statement of the repository:

* `pool_user_quit`: a user quits the loop and destroys the `Event_Loop_Thread`.
  The destructor sees `loop_ == nullptr`, skips `join()`, and `~Mutex` finds the
  mutex held by the child, against its `assert(holder_ == 0)`. Without a user's
  quit it cannot happen: `ChildEndsFirst`.
* `pool_lost_quit`: `loop()` resets `quit_` after `loop_` was published; a
  destructor in between is never answered, even if `looping_` is set already.
  Behind the reset it always is: `DestructorReturnsIfLooping`, and `QuitStops` for
  any loop.
* `late_shutdown`: `shutdown()` on a closed connection makes it
  `k_disconnecting` again, and `~Tcp_Connection` asserts `k_disconnected`.
* `server_destroyed`: `~Tcp_Server` with a connection in `k_disconnecting`:
  `connect_destroyed` leaves the channel enabled and `Channel::remove` asserts
  that it is not.

These are why `TcpServer` calls a connection `Regular` if none of this
happened to it (`late`, `condemned`), and why `LoopThreadPool` has the history
`user_quit`: the other properties say what holds outside these cases.

### Fairness

* `EventLoop`: a thread that has queued goes on to the `wakeup`, callbacks and
  functors return, the loop's thread runs, and `epoll_wait` returns while the
  eventfd is readable (it is level triggered). Nothing is assumed of the 10 s
  timeout, and nobody has to call `loop()`; who has called it gets past its head.
* `LoopThreadPool`: strong fairness for each thread, since the mutex it waits for
  may be taken and released by others in between. No spurious wakeup is
  promised.
* `TcpServer`: loops run, users' threads finish calls they have begun and drop
  their pointers in the end, and a peer that neither closed nor reset reads.
* `TimerQueue`: the loop runs, epoll reports a timerfd that is readable, callbacks
  return, time passes.
* `HttpServer`: the loop runs, the network delivers, and a client that stays reads.
* `AsyncLogging`: the thread runs, `wait_for` ends (after three seconds at the
  latest), and `join` returns when the thread has ended. Nothing is assumed while
  the disk is full; that it does not stay full is a premise of `LinesAreWritten`.

Deadlock is not checked: peers and users may stop, a bound may be reached, a
failed `pthread_create` leaves the owner waiting for ever.

## 4. What is proved

`EventLoopProofs`, for any threads, functors, channels and `EventfdMax > 0`
(`LoopAssumption`: the loop's thread is not a caller, its wakeup channel not an
io channel):

* `TypeCorrect`: the type invariant.
* `LoopInvariant`: `LoopInv`, which is inductive. `NoMissedWakeup` speaks of a
  loop in `epoll_wait` only and is not: the loop gets there from other places.
  `Armed` says of every place but the dispatching of events that a pending
  functor has its wakeup in the eventfd or on the way; in the dispatching it
  needs none, as `do_pending_functors` comes next. `BatchInv` ties the flag
  `calling_pending_functors_`, by which the loop's own thread decides about the
  wakeup, to the place of the thread.
* `ExactlyOnceInOrder`, `NeverMissesWakeup`: the two safety properties.
* `ImplementsMailbox`: each step is a step of `FunctorQueue` or changes neither
  `queue` nor `done`.

`BufferProofs`, for any sizes of prepend area, vector and extrabuf
(`BufferAssumption`: extrabuf itself is shorter than an `int` can say). The three
theorems have the premise `FitsInt`, that the length of every append fits an `int`:
without it they are false, since `make_space` then makes room for another length, or
shrinks the vector, and `writer_index_` passes the vector's end. In the code the limit
is 2^31 - 1 bytes for one append; of all that a Buffer may hold nothing is assumed:

* One lemma per member function says what it does to indexes and content, over
  lemmas on `std::copy`, `resize` and slices of sequences.
* `IndexesStayOrdered`, `NeverGrowsNeedlessly` (an action property) and
  `ImplementsQueue` put them together. `BufferInv` adds to the order of the
  indexes only the types.

`LoopThreadPoolProofs`, for any number of threads (`PoolAssumption`):

* `PoolInvariant`: `PoolInv`, which is inductive. It has four parts for every
  child. `Holders`: who holds its two mutexes follows from where the owner and
  the child are, so `Monitor` really excludes. `ChildDid`: what the child has
  stored (`tid_`, the count of the latch, `loop_`, its loop) follows from where
  it is. `OneByOne`: the owner starts a child when the one before it has published
  its loop. `QuitByOwner`: a loop ends only after a user or the destructor of its
  `Event_Loop_Thread` told it to.
* `StartedThreadsHaveTids`, `StartReturnsConstructedLoops`, `ChildrenEndFirst`: the
  safety properties. The last one needs all four parts: the owner reaches the
  end of the destructor either through `join()` or because it saw `nullptr`, and
  the second is excluded by `QuitByOwner`.

`TimerQueueProofs`, for any addresses, delays, intervals and numbers of timers
(`TimerAssumption`: the clock, which starts at `MaxSteps + 1` so that it can be set
back, starts within `MaxTime`, and `NoTimer` is not a timer):

* `TimerInvariant`: `TimerInv`, the conjunction of the five properties with
  `BatchAgrees` (the batch exists while callbacks run; what cancel found in it is
  in `canceling_timers_`, so that `reset` will not put it back), `Numbering`
  (sequence numbers are used once, which is what makes a `Timer_ID` of an old
  timer at the same address harmless), `QueueAgrees` (a queued timer is queued
  once, and its `Timer_ID` is not known yet) and `ClockAhead`.
* `TheIndexesAgree`, `EveryTimerHasOneOwner`, `CancelledStays`, `NoTimerIsLost`,
  `TheAlarmCovers`: the five safety properties. None of them is inductive alone:
  that `cancel_in_loop` deletes a timer once needs the indexes to agree, which in
  turn needs that a timer to be inserted is in neither of them yet.

`TcpConnectionProofs` has one lemma per member function of `Tcp_Connection` and
`Channel`: from which phase to which it takes a connection, and what it does to
the stream of bytes. The phases are `Fresh`, `Up`, `Closed` and `Removed`; each fixes
`state_`, the channel's place in the poller and how often the user was told.
`Stream` says that wire and buffer together are what was accepted. `TcpServerProofs`
builds on them, for any number of io loops, connections, descriptors and
messages (`ServerAssumption`; the name of the acceptor's channel is not that of a
connection):

* `ServerInvariant`: `ServerInv`, which is inductive. `ConnOk` is said of each
  connection, and its heart is `Life`: the phase decides how many of
  `connect_established`, `connect_destroyed` and `remove_connection_in_loop` are
  queued for the connection and whether `connections_` holds it, before and after
  the start of `~Tcp_Server`. The asserts in the handlers hold because each of
  these functors meets the phase it expects, and since `connect_established` is
  ahead of `connect_destroyed` in the queue, a connection of a server that is
  destroyed at once is established before it is destroyed. `QueueOk` says on which
  loop a functor is queued; `TodoOk` that callbacks are still to be called only on
  channels that are registered, which is why raw pointers do not dangle;
  `LoopsOk` that a channel is in `active_channels_` once, and that at most one of
  its callbacks ends the connection.
* `AssertsHold`, `TheDestroyedAreDown`, `NoDanglingChannel`, `WritingWhileBuffered`,
  `TheStreamIsInOrder`, `TheFinComesLast` follow from it.
* `ThePoolIsBalanced` needs `InTurn`: every connection is on a loop of the pool, and
  the first `next_` of these have one connection more than the others.

`AsyncLoggingProofs`, for any sizes of buffers and files, any `check_every_n_`, any
length of a day and any number of lines (`LoggingAssumption`: a buffer has at
least two units, so that a line fits; `LogFileAssumption`):

* `LoggingInvariant`: `LogInv`. `SparesAgree` counts the buffers the thread has to
  give back by the buffers it took; `FileAgrees` ties `start_of_period_` to the
  last roll and the `strays` to `count_`. `TheBuffersGoRound` and
  `TheDaysAreSeparated` follow. The latter says "in a row": if the clock is set
  back over midnight and on again, writes to the old file can add up beyond
  `check_every_n_`, which a run that sets the clock only once does not show.
* `LineInvariant`: `LineInv`. `Flow` says where each line is, buffer by buffer and
  unit by unit; `SparesEmpty` says of the units that a buffer keeps from its last
  use that they were written before, so that writing the buffer whole stores
  nothing out of order. `NoLineIsLost` follows. `StopAgrees` follows the lines that
  were there at `stop()` through the last exchange, write and flush, for
  `StopSavesTheLines`.

`HttpServerProofs`, for any set of requests and known paths, any number of requests
and of cuts, and any sizes of responses and of the send buffer
(`HttpAssumption`: the words of a request are tokens that are none of the
characters the parser looks for, which is what makes them words):

* `ParserKeepsItsPlace`: `HttpInv`, which is inductive. It says nothing of the
  stream once the connection has left `k_connected`, because nothing is answered
  then. Until then, `Serving`: `Place` is how much of the client's stream was taken
  from `input_buffer_`, and `IsRest` says token by token what is ahead of it,
  wherever the kernel and the network have cut it. `Cursor` relates the place to
  the parser. Without a context it is behind the header of the request answered
  last, or (`Forgotten`) inside the next one, and then `split` holds: the context
  was a local variable of an `on_message` whose data ended there. With a
  context, it follows the lines of the next request (`AtRequestLine`, `InHeader`,
  `GotAll`), and the request of the context has the version, path and Connection
  header of that request (`Parsed`), or the parser has refused a line
  (`Refused`) and there is a reason.
* `RequestsAnsweredInOrder`, `UnframedResponseIsLast`, `NoRefusalWithoutReason`: the
  three safety properties. That a context is always at the request the next
  response belongs to is the argument for the order. For the reason of a 400 the
  hard case is a request that leaves a body or a second header behind: the
  rest, joined with whatever comes after it, is taken for a request line and
  never is one (`BehindRest`), and if no request comes after it the data ended
  inside the request (`RestWasSplit`).
* Below are lemmas on `find_CRLF` and `std::find`, on `process_request_line` and
  `add_header` for the lines a client sends, and on where these lines stand in
  `Wire`. What the connection does comes from `TcpConnectionProofs`.

The parts of the invariants are about histories only where the property is
(`cancelled`, `ran`, `stored`, `accepted`, `split`).

With this every safety property of the passing runs is a theorem. Only
model-checked: all liveness, which needs fairness and ENABLED and is out of the
prover's reach, and the four violations.

## 5. What is not modelled

* Bodies and texts of HTTP responses; other threads that send on an HTTP
  connection; `version_to_string`.
* `Logger` and `Log_Stream`: a log statement is local to its thread, and formats
  a line into a `Fixed_Buffer`; `Timestamp`, which is a number with formatting.
* `send(Buffer*)` from another thread; SIGPIPE; failures of `epoll_ctl`; the
  growth of the array of `epoll_wait` (EventLoop lets it report any part of what
  is ready).
* Users' threads together with io threads that end: a user's pointer would
  outlive the loop of its connection.
* The destruction of the base loop, thread names, socket options, log texts.

Three things go wrong in the models, and the properties leave them out. A comment in
`~Timer_Queue` (`timer_queue.cpp:70`) says "unique_ptr helps destruct Timer in timers_",
but `timers_` holds plain pointers (`timer_queue.h:23`) and nothing deletes the timers
that are left: `dtor` leaves them in the heap, and `OneOwner` ends there. `add_timer` on
another thread reads `timer->sequence()` (`timer_queue.cpp:77`) when the loop may have
run and deleted the timer ("FIXME: no delete please", `timer_queue.cpp:155`): in
`add_timer_returns` the `Timer_ID` is then anything. And an append longer than an `int`
can say breaks the order of the indexes that the head of `buffer.h` draws: `make_space`
models it, the properties of `Buffer` presuppose `FitsInt`.

Other things the models show and no property is about, because nothing promises
otherwise: no code closes the socket of a connection (`OpenFds` never shrinks);
a peer that half-closes while `output_buffer_` holds data does not get the
rest; a `shutdown()` on the loop's thread overtakes the `send()` another thread
has queued; a cancel on the loop's thread overtakes an `add_timer` that is still
queued; `roll_file`
refuses a second roll in one second, and the file grows beyond its limit; after
a failed `pthread_create` the `stop()` of the logging runs into the
`assert(started_)` of `join` (the place of that name in `AsyncLogging`).

## 6. What could come next

* Liveness is checked on the bounds of section 3 only.
* `TcpServer` with users' threads and ending io threads at once, and a connection
  with both an HTTP parser and users' threads, would be compositions of the
  modules there are.
