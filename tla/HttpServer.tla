----------------------------- MODULE HttpServer -----------------------------
(***************************************************************************)
(* src/http/http_server.cpp and http_response.{h,cpp} over TcpConnection   *)
(* and HttpContext: one connection of an Http_Server, the loop it belongs  *)
(* to, its client and the network in between, which cuts the stream of     *)
(* requests where it likes.  No other thread touches the connection.       *)
(*                                                                         *)
(* A cut inside a token has the effect of a cut before the token, since    *)
(* the parser acts on whole lines only.  Of a response the status and the  *)
(* headers that frame it are kept, and all take MsgLen bytes.              *)
(***************************************************************************)
EXTENDS TcpConnection, HttpContext

CONSTANTS
    Requests,       \* what the client may ask, see below
    KnownPaths,     \* the paths http_callback_ serves; {} is default_http_callback
    MaxRequests,    \* bound: requests of the client
    MaxSegments     \* bound: segments that do not end where the client's data ends

\* What stands between two of the characters that the parser looks for.
Words == STRING \ {"SP", "?", ":", "CR", "LF"}

ASSUME HttpAssumption ==
    /\ MaxRequests \in Nat /\ MaxSegments \in Nat
    /\ Requests \subseteq [method : Words, path : Words, query : BOOLEAN, version : Words,
                           connection : Words, bare : BOOLEAN, body : BOOLEAN]

VARIABLES
    conn,           \* the connection, see TcpConnection; inq counts tokens
    todo,           \* callbacks of handle_event that are still to run
    context,        \* of the on_message that is running, or NoContext
    inbox,          \* tokens in the receive buffer of the kernel
    input_buffer_,  \* of the connection
    outgoing,       \* tokens on their way to the server
    segments,       \* history: segments that were cut
    requests,       \* history: what the client asked, see Asked
    received,       \* history: tokens the server has read
    split, lumped,  \* history: see on_message_history
    responses       \* history: what was sent

http == <<input_buffer_, received, split, lumped, responses>>
vars == <<conn, todo, context, inbox, outgoing, segments, requests, http>>

-----------------------------------------------------------------------------
(* The client's requests (external).  connection is the value of the       *)
(* Connection header or "none"; bare says that a line without a colon      *)
(* precedes it; body that a body without a line end follows the header.    *)

crlf_ == <<"CR", "LF">>

\* The lines of a request, and the whole request on the wire.
RequestLine(r) ==
    IF r.query THEN <<r.method, "SP", r.path, "?", "q", "SP", r.version>>
    ELSE <<r.method, "SP", r.path, "SP", r.version>>
BareLine == <<"bare">>
ConnectionLine(r) == <<"Connection", ":", "SP", r.connection, "SP">>
Wire(r) ==
    (RequestLine(r) \o crlf_)
    \o (IF r.bare THEN BareLine \o crlf_ ELSE <<>>)
    \o (IF r.connection = "none" THEN <<>> ELSE ConnectionLine(r) \o crlf_)
    \o crlf_ \o (IF r.body THEN <<"body">> ELSE <<>>)

\* A request with the place in the stream where it begins, where its request
\* line ends, and where it ends itself.
Asked(r) ==
    LET begin == IF requests = <<>> THEN 0 ELSE Last(requests).end
    IN  [what |-> r, begin |-> begin, line |-> begin + Len(RequestLine(r)) + 2,
         end |-> begin + Len(Wire(r))]

Malformed(r) == r.version \notin {"HTTP/1.0", "HTTP/1.1"} \/ r.method \notin Methods

NoContext == [ok |-> TRUE, has_more |-> FALSE]

-----------------------------------------------------------------------------
Init ==
    /\ conn = connect_established([NewConnection EXCEPT !.peer = "open"], "nothing")
    /\ todo = <<>> /\ context = NoContext /\ inbox = <<>> /\ input_buffer_ = <<>> /\ outgoing = <<>>
    /\ segments = 0 /\ requests = <<>> /\ received = 0
    /\ split = FALSE /\ lumped = FALSE
    /\ responses = <<>>

-----------------------------------------------------------------------------
(* Http_Server.                                                            *)

\* default_http_callback, and one like that of tests/http_test.cpp: unknown paths
\* are not found, and the connection is closed.
http_callback_(request, close) ==
    IF request.path \in {<<p>> : p \in KnownPaths}
    THEN [status |-> 200, close |-> close]
    ELSE [status |-> 404, close |-> TRUE]

\* Http_Response::append_to_buffer: a response that closes has no Content-Length.
append_to_buffer(response) ==
    [status |-> response.status, content_length |-> ~response.close]
BadRequest == [status |-> 400, content_length |-> FALSE]

\* Mutant: the connection stays open.
on_request_keeps_open(x, request) ==
    LET connection == get_header(request, <<"Connection">>)
        close == connection = <<"close">>
                 \/ (request.version = "HTTP/1.0" /\ connection # <<"Keep-Alive">>)
        response == http_callback_(request, close)
    IN  [conn |-> send(x), response |-> append_to_buffer(response)]

\* The connection after send() and shutdown(), and the response.
on_request(x, request) ==
    LET connection == get_header(request, <<"Connection">>)
        close == connection = <<"close">>
                 \/ (request.version = "HTTP/1.0" /\ connection # <<"Keep-Alive">>)
        response == http_callback_(request, close)
    IN  [conn |-> IF response.close THEN shutdown(send(x)) ELSE send(x),
         response |-> append_to_buffer(response)]

\* History: split if data ends inside a request, behind its request line;
\* lumped if a read brings anything but one whole request.
on_message_history ==
    LET n == received + Len(inbox)
        asked == ToSet(requests)
    IN  /\ received' = n
        /\ split' = (split \/ \E a \in asked : a.line <= n /\ n < a.end)
        /\ lumped' = (lumped \/ \A a \in asked : received # a.begin \/ n # a.end)

-----------------------------------------------------------------------------
(* The loop of the connection.                                             *)

poll ==
    /\ todo = <<>> /\ conn.polled
    /\ todo' = handle_event(revents(conn)) /\ todo' # <<>>
    /\ UNCHANGED <<conn, context, inbox, outgoing, segments, requests, http>>

Runs(callback_) == todo # <<>> /\ Head(todo) = callback_ /\ context = NoContext

\* handle_read up to the loop of parse_request: read_fd takes all there is, and
\* on_message makes a new Http_Context.
on_message ==
    /\ Runs("read") /\ inbox # <<>>
    /\ conn' = [conn EXCEPT !.inq = 0]
    /\ input_buffer_' = input_buffer_ \o inbox
    /\ inbox' = <<>>
    /\ context' = Http_Context
    /\ on_message_history
    /\ UNCHANGED <<todo, outgoing, segments, requests, responses>>

\* parse_request takes a line; one that is refused stays in the buffer.
parse_request ==
    LET crlf == find_CRLF(input_buffer_)
    IN  /\ context.has_more /\ crlf # 0
        /\ \E line \in {SubSeq(input_buffer_, 1, crlf - 1)} : context' = parse_line(context, line)
        /\ input_buffer_' = IF context'.ok THEN Behind(input_buffer_, crlf + 1) ELSE input_buffer_
        /\ UNCHANGED <<conn, todo, inbox, outgoing, segments, requests,
                       received, split, lumped, responses>>

\* Recorded as a response is what send() accepts.
respond(answer) ==
    /\ conn' = answer.conn
    /\ responses' = IF conn.state_ = "k_connected" THEN Append(responses, answer.response)
                    ELSE responses

\* The rest of on_message, when parse_request has returned.
on_message_end ==
    /\ context # NoContext /\ (context.has_more => find_CRLF(input_buffer_) = 0)
    /\ \/ ~context.ok /\ respond([conn |-> shutdown(send(conn)), response |-> BadRequest])
       \/ context.state_ = "GOT_ALL" /\ respond(on_request(conn, context.request_))
       \/ context.ok /\ context.state_ # "GOT_ALL" /\ UNCHANGED <<conn, responses>>
    /\ context' = NoContext
    /\ todo' = Tail(todo)
    /\ UNCHANGED <<inbox, outgoing, segments, requests, input_buffer_, received, split, lumped>>

\* The other callbacks of the channel; connection_callback_ only logs.
event ==
    /\ \/ /\ Runs("close") \/ (Runs("read") /\ AtEof(conn))
          /\ conn' = handle_close(conn, "nothing")
       \/ /\ Runs("error") \/ (Runs("read") /\ inbox = <<>> /\ ~AtEof(conn))
          /\ conn' = handle_error(conn)
       \/ Runs("write") /\ conn' = handle_write(conn)
    /\ todo' = Tail(todo)
    /\ UNCHANGED <<context, inbox, outgoing, segments, requests, http>>

\* The functor that close_callback_ has queued.
destroyed ==
    /\ todo = <<>> /\ conn.state_ = "k_disconnected" /\ conn.mapped
    /\ conn' = connect_destroyed(conn, "nothing")
    /\ UNCHANGED <<todo, context, inbox, outgoing, segments, requests, http>>

-----------------------------------------------------------------------------
(* The client and the network (external).                                  *)

client_asks(r) ==
    /\ conn.peer = "open" /\ Len(requests) < MaxRequests
    /\ requests' = Append(requests, Asked(r))
    /\ outgoing' = outgoing \o Wire(r)
    /\ UNCHANGED <<conn, todo, context, inbox, segments, http>>

segment_arrives(n) ==
    /\ conn.peer = "open" /\ n \in DOMAIN outgoing
    /\ n < Len(outgoing) => segments < MaxSegments
    /\ segments' = IF n < Len(outgoing) THEN segments + 1 ELSE segments
    /\ inbox' = inbox \o SubSeq(outgoing, 1, n)
    /\ outgoing' = Behind(outgoing, n)
    /\ conn' = [conn EXCEPT !.inq = Len(inbox')]
    /\ UNCHANGED <<todo, context, requests, http>>

client_reads ==
    /\ conn.peer \in {"open", "fin"} /\ conn.room < SndBuf
    /\ conn' = [conn EXCEPT !.room = @ + 1]
    /\ UNCHANGED <<todo, context, inbox, outgoing, segments, requests, http>>

client_closes ==
    /\ conn.peer = "open" /\ outgoing = <<>>
    /\ conn' = [conn EXCEPT !.peer = "fin"]
    /\ UNCHANGED <<todo, context, inbox, outgoing, segments, requests, http>>

client_resets ==
    /\ conn.peer \in {"open", "fin"}
    /\ conn' = [conn EXCEPT !.peer = "rst", !.so_error = TRUE]
    /\ UNCHANGED <<todo, context, inbox, outgoing, segments, requests, http>>

-----------------------------------------------------------------------------
LoopStep == poll \/ on_message \/ parse_request \/ on_message_end \/ event \/ destroyed

SegmentArrives == \E n \in DOMAIN outgoing : segment_arrives(n)

Next ==
    \/ LoopStep
    \/ \E r \in Requests : client_asks(r)
    \/ SegmentArrives \/ client_reads \/ client_closes \/ client_resets

Spec == Init /\ [][Next]_vars

\* The loop keeps running, the network delivers, and a client that has neither
\* closed nor reset reads.
FairSpec == Spec /\ WF_vars(LoopStep) /\ WF_vars(SegmentArrives) /\ WF_vars(client_reads)

-----------------------------------------------------------------------------
(* Properties.                                                             *)

\* What the client may expect of a request, from the request itself; a line without
\* a colon ends the header, and the Connection header behind it is not seen.
Expected(r) ==
    LET connection == IF r.bare THEN "none" ELSE r.connection
        closes == connection = "close" \/ (r.version = "HTTP/1.0" /\ connection # "Keep-Alive")
    IN  IF r.path \in KnownPaths THEN [status |-> 200, content_length |-> ~closes]
        ELSE [status |-> 404, content_length |-> FALSE]

\* on_message, on_request: wherever the stream is cut and however many requests
\* arrive together, the responses answer the requests in their order, each
\* with the headers of its own request only; a 400 is the only exception.
AnswersInOrder ==
    \A i \in DOMAIN responses :
        responses[i].status # 400 =>
            i <= Len(requests) /\ responses[i] = Expected(requests[i].what)

\* append_to_buffer, shutdown: a response without Content-Length is told from
\* the next only by the end of the stream, so nothing is sent behind it.
FramedOrLast ==
    \A i \in DOMAIN responses : i < Len(responses) => responses[i].content_length

\* Is something of the request left in input_buffer_ when its answer is sent?
LeavesRest(r) == r.body \/ r.bare

\* on_message, 400: a client is refused only if a request of its was malformed, if
\* more data followed a request that leaves something behind, or if data ended
\* inside a request, behind its request line.
RefusedForAReason ==
    (\E i \in DOMAIN responses : responses[i].status = 400) =>
        \/ split
        \/ \E i \in DOMAIN requests :
            \/ Malformed(requests[i].what)
            \/ LeavesRest(requests[i].what) /\ i < Len(requests)

\* on_message: a client whose requests are well formed and arrive one at a time,
\* each in one piece, gets an answer to each until one closes the connection.
TidyClientIsAnswered ==
    \A k \in 1 .. MaxRequests :
        (Len(requests) >= k)
            ~> (Len(responses) >= k \/ lumped \/ conn.state_ # "k_connected" \/ conn.peer # "open")

\* on_request, shutdown: behind a response without Content-Length comes the end of
\* the stream, and all that was sent before it, to a client that stays and reads.
FinEndsResponse ==
    (\E i \in DOMAIN responses : ~responses[i].content_length)
        ~> \/ conn.wrshut /\ Len(conn.wire) = MsgLen * Len(responses)
           \/ conn.peer # "open"
=============================================================================
