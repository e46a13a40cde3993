---------------------------- MODULE HttpContext ----------------------------
(***************************************************************************)
(* src/http/http_context.cpp and http_request.h: the parser of a request,  *)
(* as operators on what is readable in a Buffer.                           *)
(*                                                                         *)
(* Text is a sequence of tokens.  The characters the parser looks for are  *)
(* tokens of their own: "SP", "?", ":", "CR" and "LF"; a word between      *)
(* them is one token.                                                      *)
(***************************************************************************)
EXTENDS Naturals, SequencesExt

\* std::find in the indices first .. last - 1 of text: last if there is none.
find(text, first, last, token) ==
    Min({i \in first .. last - 1 : text[i] = token} \cup {last})

Behind(text, i) == SubSeq(text, i + 1, Len(text))

\* Mutant: a CR at the end of the data is taken for a CRLF.
find_CRLF_half(buf) ==
    LET crlfs == {i \in 1 .. Len(buf) : buf[i] = "CR"}
    IN  IF crlfs = {} THEN 0 ELSE Min(crlfs)

\* Buffer::find_CRLF: 0 stands for NULL.
find_CRLF(buf) ==
    LET crlfs == {i \in 1 .. Len(buf) - 1 : buf[i] = "CR" /\ buf[i + 1] = "LF"}
    IN  IF crlfs = {} THEN 0 ELSE Min(crlfs)

-----------------------------------------------------------------------------
(* Http_Request.                                                           *)

Methods == {"GET", "POST", "HEAD", "PUT", "DELETE"}

Http_Request == [method |-> "INVALID", version |-> "UNKNOWN", path |-> <<>>, query |-> <<>>,
                 headers |-> <<>>]

\* headers_[field] = value.
with_header(headers, field, value) ==
    [f \in DOMAIN headers \cup {field} |-> IF f = field THEN value ELSE headers[f]]

\* Mutant: the value keeps the spaces around it.
add_header_untrimmed(request, line, colon) ==
    [request EXCEPT !.headers =
        with_header(@, SubSeq(line, 1, colon - 1), Behind(line, colon))]

\* The value without the spaces around it; the last header of a name counts.
add_header(request, line, colon) ==
    LET words == {i \in colon + 1 .. Len(line) : line[i] # "SP"}
        value == IF words = {} THEN <<>> ELSE SubSeq(line, Min(words), Max(words))
    IN  [request EXCEPT !.headers = with_header(@, SubSeq(line, 1, colon - 1), value)]

get_header(request, field) ==
    IF field \in DOMAIN request.headers THEN request.headers[field] ELSE <<>>

-----------------------------------------------------------------------------
(* Http_Context.                                                           *)

\* ok is what parse_request returns.
Http_Context == [state_ |-> "EXPECT_REQUESR_LINE", request_ |-> Http_Request,
                 ok |-> TRUE, has_more |-> TRUE]

\* The request, with the method INVALID if the line is refused: what the code has
\* set by then is never looked at.
process_request_line(line) ==
    LET end == Len(line) + 1
        space == find(line, 1, end, "SP")
        space2 == find(line, space + 1, end, "SP")
        question == find(line, space + 1, space2, "?")
    IN  IF /\ space < end /\ SubSeq(line, 1, space - 1) \in {<<m>> : m \in Methods}
           /\ space2 < end
           /\ Behind(line, space2) \in {<<"HTTP/1.0">>, <<"HTTP/1.1">>}
        THEN [Http_Request EXCEPT !.method = line[1],
                                  !.path = SubSeq(line, space + 1, question - 1),
                                  !.query = SubSeq(line, question, space2 - 1),
                                  !.version = Last(line)]
        ELSE Http_Request

\* Mutant: a body is waited for behind the header of a POST.
parse_line_awaits_body(context, line) ==
    LET request == process_request_line(line)
        colon == find(line, 1, Len(line) + 1, ":")
    IN  CASE context.state_ = "EXPECT_REQUESR_LINE" /\ request.method = "INVALID" ->
               [context EXCEPT !.ok = FALSE, !.has_more = FALSE]
          [] context.state_ = "EXPECT_REQUESR_LINE" /\ request.method # "INVALID" ->
               [context EXCEPT !.request_ = request, !.state_ = "EXPECT_HEADERS"]
          [] context.state_ = "EXPECT_HEADERS" /\ colon <= Len(line) ->
               [context EXCEPT !.request_ = add_header(@, line, colon)]
          [] context.state_ = "EXPECT_HEADERS" /\ colon > Len(line) ->
               [context EXCEPT !.has_more = FALSE,
                               !.state_ = IF context.request_.method = "POST" THEN "EXPECT_BODY"
                                          ELSE "GOT_ALL"]

\* An iteration of the loop of parse_request that has found a line; EXPECT_BODY is
\* never reached.
parse_line(context, line) ==
    LET request == process_request_line(line)
        colon == find(line, 1, Len(line) + 1, ":")
    IN  CASE context.state_ = "EXPECT_REQUESR_LINE" /\ request.method = "INVALID" ->
               [context EXCEPT !.ok = FALSE, !.has_more = FALSE]
          [] context.state_ = "EXPECT_REQUESR_LINE" /\ request.method # "INVALID" ->
               [context EXCEPT !.request_ = request, !.state_ = "EXPECT_HEADERS"]
          [] context.state_ = "EXPECT_HEADERS" /\ colon <= Len(line) ->
               [context EXCEPT !.request_ = add_header(@, line, colon)]
          [] context.state_ = "EXPECT_HEADERS" /\ colon > Len(line) ->
               [context EXCEPT !.state_ = "GOT_ALL", !.has_more = FALSE]
=============================================================================
