---------------------------- MODULE TcpConnection ----------------------------
(***************************************************************************)
(* src/net/tcp_connection.{h,cpp}: what the member functions of a          *)
(* Tcp_Connection do, on the loop's thread, to the connection, its channel *)
(* and its socket, as operators on a record x.  Module TcpServer says who  *)
(* calls them, when, and on which thread.                                  *)
(*                                                                         *)
(* Bytes are numbered in the order in which send_in_loop accepts them, so  *)
(* that the stream the peer reads can be compared with 1, 2, 3, ...        *)
(* input_buffer_ is left out: every read is handed to the message callback *)
(* whole.                                                                  *)
(***************************************************************************)
EXTENDS Channel

CONSTANTS
    SndBuf,     \* bytes the kernel buffers for a connection
    MsgLen,     \* bytes of a message
    MaxSends    \* bound: messages that users send on a connection

ASSUME ConnectionAssumption ==
    SndBuf \in Nat \ {0} /\ MsgLen \in Nat \ {0} /\ MaxSends \in Nat

States == {"k_disconnected", "k_connecting", "k_connected", "k_disconnecting"}

\* The constructor; the channel is not registered anywhere yet.
NewConnection ==
    [events |-> {}, index |-> "k_new", mapped |-> FALSE, polled |-> FALSE,
     interest |-> {}, failed |-> {},
     loop_ |-> 0, state_ |-> "k_connecting", output_buffer_ |-> <<>>,
     ups |-> 0, downs |-> 0,        \* history: calls of connection_callback_
     accepted |-> 0, sends |-> 0,   \* history: bytes accepted, messages sent
     late |-> FALSE,                \* history: shutdown() found it disconnected
     condemned |-> FALSE,           \* history: see Regular in TcpServer
     \* the socket: whether its peer is "away", in the "backlog", connected and
     \* "open", has closed ("fin") or reset ("rst"), or was "refused"
     peer |-> "away", inq |-> 0, so_error |-> FALSE, room |-> SndBuf,
     wire |-> <<>>, wrshut |-> FALSE]

-----------------------------------------------------------------------------
(* The kernel (external).                                                  *)

\* write() fails with EPIPE or ECONNRESET.
Broken(x) == x.peer = "rst" \/ x.wrshut

\* write() takes what the send buffer has room for, or reports the pending error
\* of the socket and so clears it.
Taken(x, bytes) == IF Broken(x) THEN 0 ELSE IF Len(bytes) < x.room THEN Len(bytes) ELSE x.room
write(x, bytes) ==
    LET n == Taken(x, bytes)
    IN  [x EXCEPT !.wire = @ \o SubSeq(bytes, 1, n), !.room = @ - n,
                  !.so_error = @ /\ ~Broken(x)]

\* What epoll reports of the socket: what was asked for, and HUP and ERR anyway.
revents(x) ==
    LET happening == [IN  |-> x.inq > 0 \/ x.peer \in {"fin", "rst"},
                      OUT |-> x.room > 0 \/ x.peer = "rst",
                      HUP |-> x.peer = "rst" \/ (x.peer = "fin" /\ x.wrshut),
                      ERR |-> x.so_error]
    IN  {e \in x.interest \cup {"HUP", "ERR"} : happening[e]}

-----------------------------------------------------------------------------
(* Sending.                                                                *)

\* Mutant: send_in_loop writes past what waits in output_buffer_.
send_in_loop_overtakes(x) ==
    LET bytes == [i \in 1 .. MsgLen |-> x.accepted + i]
        y == [write(x, bytes) EXCEPT !.accepted = @ + MsgLen]
        rest == SubSeq(bytes, Taken(x, bytes) + 1, MsgLen)
        z == [y EXCEPT !.output_buffer_ = @ \o rest]
    IN  IF x.state_ = "k_disconnected" THEN x
        ELSE IF Broken(x) \/ rest = <<>> THEN y
        ELSE IF is_writing(z) THEN z ELSE enable_writing(z)

\* Write at once if nothing waits, buffer the rest and ask for OUT events.
send_in_loop(x) ==
    LET bytes == [i \in 1 .. MsgLen |-> x.accepted + i]
        direct == ~is_writing(x) /\ x.output_buffer_ = <<>>
        y == [(IF direct THEN write(x, bytes) ELSE x) EXCEPT !.accepted = @ + MsgLen]
        rest == SubSeq(bytes, (IF direct THEN Taken(x, bytes) ELSE 0) + 1, MsgLen)
        z == [y EXCEPT !.output_buffer_ = @ \o rest]
    IN  IF x.state_ = "k_disconnected" THEN x
        ELSE IF (direct /\ Broken(x)) \/ rest = <<>> THEN y
        ELSE IF is_writing(z) THEN z ELSE enable_writing(z)

\* Mutant: the FIN goes out although output_buffer_ is not empty.
shut_down_in_loop_at_once(x) == [x EXCEPT !.wrshut = @ \/ x.peer # "rst"]

\* SHUT_WR, unless data still waits; it fails on a socket that was reset.
shut_down_in_loop(x) ==
    IF is_writing(x) THEN x ELSE [x EXCEPT !.wrshut = @ \/ x.peer # "rst"]

\* The first half of shutdown(), on any thread: state_.exchange stores
\* k_disconnecting whatever the state was.
exchange_disconnecting(x) ==
    [x EXCEPT !.state_ = "k_disconnecting", !.late = @ \/ x.state_ = "k_disconnected"]

\* send() and shutdown() called on the loop's thread.
send(x) == IF x.state_ = "k_connected" THEN send_in_loop(x) ELSE x
shutdown(x) ==
    LET y == exchange_disconnecting(x)
    IN  IF x.state_ = "k_connected" THEN shut_down_in_loop(y) ELSE y

-----------------------------------------------------------------------------
(* User code in a callback: u says what it does.                           *)

CallbackChoices == {"nothing", "send", "shutdown"}
callback(x, u) ==
    CASE u = "nothing" -> x
      [] u = "send" -> [send(x) EXCEPT !.sends = @ + 1]
      [] u = "shutdown" -> shutdown(x)

connection_callback_(x, u) ==
    callback([x EXCEPT !.ups = IF x.state_ = "k_connected" THEN @ + 1 ELSE @,
                       !.downs = IF x.state_ = "k_connected" THEN @ ELSE @ + 1], u)

-----------------------------------------------------------------------------
(* The life of a connection and the callbacks of its channel.              *)

connect_established(x, u) ==
    LET y == Assert_(x, x.state_ = "k_connecting", "tcp_connection.cpp:122")
    IN  connection_callback_(enable_reading([y EXCEPT !.state_ = "k_connected"]), u)

\* Mutant: the channel stays enabled.
handle_close_keeps_polling(x, u) ==
    LET y == Assert_(x, x.state_ \in {"k_connected", "k_disconnecting"}, "tcp_connection.cpp:87")
    IN  connection_callback_([y EXCEPT !.state_ = "k_disconnected"], u)

\* Mutant: the user is not told.
handle_close_tells_nobody(x, u) == disable_all([x EXCEPT !.state_ = "k_disconnected"])

\* handle_close without close_callback_, which TcpServer adds.
handle_close(x, u) ==
    LET y == Assert_(x, x.state_ \in {"k_connected", "k_disconnecting"}, "tcp_connection.cpp:87")
    IN  connection_callback_(disable_all([y EXCEPT !.state_ = "k_disconnected"]), u)

\* getsockopt(SO_ERROR) takes the pending error away.
handle_error(x) == [x EXCEPT !.so_error = FALSE]

\* read() returns data first, then a pending error, then end of file.
AtEof(x) == x.inq = 0 /\ ~x.so_error /\ x.peer \in {"fin", "rst"}

\* handle_read when it does not find the end of the file.
handle_read(x, u) == IF x.inq > 0 THEN callback([x EXCEPT !.inq = 0], u) ELSE handle_error(x)

\* Mutant: OUT events stay enabled when output_buffer_ has drained.
handle_write_keeps_polling(x) ==
    LET n == Taken(x, x.output_buffer_)
        y == [write(x, x.output_buffer_) EXCEPT
                !.output_buffer_ = SubSeq(@, n + 1, Len(@))]
    IN  IF ~is_writing(x) THEN x ELSE y

\* Mutant: a shutdown that waited for output_buffer_ is forgotten.
handle_write_forgets_shutdown(x) ==
    LET n == Taken(x, x.output_buffer_)
        y == [write(x, x.output_buffer_) EXCEPT
                !.output_buffer_ = SubSeq(@, n + 1, Len(@))]
    IN  IF ~is_writing(x) THEN x
        ELSE IF n = 0 \/ y.output_buffer_ # <<>> THEN y ELSE disable_writing(y)

\* A failed write is only logged.
handle_write(x) ==
    LET n == Taken(x, x.output_buffer_)
        y == [write(x, x.output_buffer_) EXCEPT
                !.output_buffer_ = SubSeq(@, n + 1, Len(@))]
        z == disable_writing(y)
    IN  IF ~is_writing(x) THEN x
        ELSE IF n = 0 \/ y.output_buffer_ # <<>> THEN y
        ELSE IF z.state_ = "k_disconnecting" THEN shut_down_in_loop(z) ELSE z

\* Mutant: the channel is left with the poller.
connect_destroyed_keeps_channel(x, u) ==
    LET y == [x EXCEPT !.state_ = "k_disconnected"]
    IN  IF x.state_ = "k_connected" THEN connection_callback_(y, u) ELSE y

\* Only a connection that was still k_connected has its channel disabled here.
connect_destroyed(x, u) ==
    LET y == [x EXCEPT !.state_ = "k_disconnected"]
    IN  remove(IF x.state_ = "k_connected"
               THEN connection_callback_(disable_all(y), u) ELSE y)
=============================================================================
