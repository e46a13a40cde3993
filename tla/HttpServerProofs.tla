--------------------------- MODULE HttpServerProofs ---------------------------
(***************************************************************************)
(* The invariants of HttpServer, for any requests, any cuts of the stream  *)
(* and any number of both.                                                 *)
(*                                                                         *)
(* The argument follows the place in the client's stream up to which the   *)
(* server has taken it, while the connection is k_connected: behind the    *)
(* header of the request that was answered last, or inside the request     *)
(* that comes next.  What is ahead of that place is known token by token.  *)
(***************************************************************************)
EXTENDS HttpServer, TcpConnectionProofs

-----------------------------------------------------------------------------
(* The inductive invariant.                                                *)

\* What the client's stream is made of.
Tokens == Words \cup {"SP", "?", ":", "CR", "LF", "q", "bare", "Connection", "body"}
Texts == Seq(Tokens)

\* What the server has not taken yet.
Text == input_buffer_ \o (inbox \o outgoing)

\* Where the text of the first k requests ends, and how much of it was taken.
EndOf(reqs, k) == IF k = 0 THEN 0 ELSE reqs[k].end
Place == EndOf(requests, Len(requests)) - Len(Text)

AskedRequests == [what : Requests, begin : Nat, line : Nat, end : Nat]

\* The requests lie one behind the other in the stream.
InARow(reqs) ==
    /\ reqs \in Seq(AskedRequests)
    /\ \A j \in DOMAIN reqs :
        /\ reqs[j].begin = EndOf(reqs, j - 1)
        /\ reqs[j].line = reqs[j].begin + Len(RequestLine(reqs[j].what)) + 2
        /\ reqs[j].end = reqs[j].begin + Len(Wire(reqs[j].what))
    /\ \A j, k \in DOMAIN reqs : j < k => reqs[j].end <= reqs[k].begin

\* text is their stream from the place p on.
IsRest(text, p, reqs) ==
    /\ text \in Texts /\ p \in Nat
    /\ Len(text) = EndOf(reqs, Len(reqs)) - p
    /\ \A j \in DOMAIN reqs : \A i \in 1 .. Len(Wire(reqs[j].what)) :
        reqs[j].begin + i > p => text[reqs[j].begin + i - p] = Wire(reqs[j].what)[i]

\* What split remembers.
SplitAgrees ==
    /\ received = Place + Len(input_buffer_)
    /\ \A j \in DOMAIN requests :
        requests[j].line <= received /\ received < requests[j].end => split

\* How much of a request is taken with its request line, with its Connection
\* header, and with all of the header, when it is answered.
HeaderAt(r) == Len(RequestLine(r)) + 2
ConnectionAt(r) == HeaderAt(r) + 7
AnswerAt(r) ==
    IF r.bare THEN HeaderAt(r) + 3
    ELSE IF r.connection = "none" THEN HeaderAt(r) + 2 ELSE ConnectionAt(r) + 2

\* The place at which the last of the first n requests was answered.
AnsweredAt(n) ==
    IF n = 0 THEN 0 ELSE requests[n].begin + AnswerAt(requests[n].what)

Answered == Len(responses)
Coming == requests[Answered + 1]

\* The header of the request that comes next was begun, and the context is gone.
Forgotten ==
    /\ Answered < Len(requests) /\ split
    /\ \/ Place = Coming.begin + HeaderAt(Coming.what)
       \/ /\ ~Coming.what.bare /\ Coming.what.connection # "none"
          /\ Place = Coming.begin + ConnectionAt(Coming.what)

Between == Place = AnsweredAt(Answered) \/ Forgotten

\* Why a 400 is sent.
Reason ==
    \/ split
    \/ \E i \in DOMAIN requests :
        \/ Malformed(requests[i].what)
        \/ LeavesRest(requests[i].what) /\ i < Len(requests)

\* More data has arrived behind a request that leaves something.
RestFollowed ==
    Answered > 0 /\ LeavesRest(requests[Answered].what) => split \/ Answered < Len(requests)

\* What the parser has of request r, whose Connection header it has seen or not.
IsRequest(q) ==
    q = [method |-> q.method, version |-> q.version, path |-> q.path, query |-> q.query,
         headers |-> q.headers]
Parsed(q, r, seen) ==
    /\ IsRequest(q) /\ q.version = r.version /\ q.path = <<r.path>>
    /\ get_header(q, <<"Connection">>) = IF seen THEN <<r.connection>> ELSE <<>>

IsContext(c) ==
    c = [state_ |-> c.state_, request_ |-> c.request_, ok |-> c.ok, has_more |-> c.has_more]

AtRequestLine ==
    /\ context.state_ = "EXPECT_REQUESR_LINE" /\ context.ok /\ context.has_more
    /\ Between /\ RestFollowed
InHeader ==
    /\ context.state_ = "EXPECT_HEADERS" /\ context.ok /\ context.has_more
    /\ Answered < Len(requests) /\ ~Malformed(Coming.what)
    /\ \/ /\ Place = Coming.begin + HeaderAt(Coming.what)
          /\ Parsed(context.request_, Coming.what, FALSE)
       \/ /\ ~Coming.what.bare /\ Coming.what.connection # "none"
          /\ Place = Coming.begin + ConnectionAt(Coming.what)
          /\ Parsed(context.request_, Coming.what, TRUE)
GotAll ==
    /\ context.state_ = "GOT_ALL" /\ context.ok /\ ~context.has_more
    /\ Answered < Len(requests) /\ Place = AnsweredAt(Answered + 1)
    /\ Parsed(context.request_, Coming.what, ~Coming.what.bare /\ Coming.what.connection # "none")
Refused ==
    context.state_ = "EXPECT_REQUESR_LINE" /\ ~context.ok /\ ~context.has_more /\ Reason

\* Where the parser is.
Cursor ==
    \/ context = NoContext /\ Between
    \/ /\ context # NoContext /\ IsContext(context)
       /\ AtRequestLine \/ InHeader \/ GotAll \/ Refused

\* While the server can still answer.
Serving ==
    /\ input_buffer_ \in Texts /\ inbox \in Texts /\ outgoing \in Texts
    /\ IsRest(Text, Place, requests) /\ SplitAgrees
    /\ Answered <= Len(requests) /\ Cursor

Responses == [status : Nat, content_length : BOOLEAN]

HttpInv ==
    /\ conn \in Conn /\ inbox \in Texts /\ outgoing \in Texts
    /\ InARow(requests) /\ responses \in Seq(Responses)
    /\ AnswersInOrder /\ RefusedForAReason
    /\ conn.state_ = "k_connected" =>
        Serving /\ \A i \in DOMAIN responses : responses[i].content_length
    /\ FramedOrLast

-----------------------------------------------------------------------------
(* Texts.                                                                  *)

\* s stands in w behind the first o tokens.
HasAt(w, o, s) == o + Len(s) <= Len(w) /\ \A i \in 1 .. Len(s) : w[o + i] = s[i]

\* The tokens of a concatenation.
LEMMA Joined ==
    ASSUME NEW s \in Texts, NEW t \in Texts
    PROVE  /\ s \o t \in Texts /\ Len(s \o t) = Len(s) + Len(t)
           /\ Len(s) \in Nat /\ Len(t) \in Nat
           /\ \A i \in 1 .. Len(s) : (s \o t)[i] = s[i]
           /\ \A i \in 1 .. Len(t) : (s \o t)[Len(s) + i] = t[i]
<1>1. Len(s) \in Nat /\ Len(t) \in Nat
  BY LenProperties DEF Texts
<1>2. /\ s \o t \in Texts /\ Len(s \o t) = Len(s) + Len(t)
      /\ \A i \in 1 .. Len(s) + Len(t) :
            (s \o t)[i] = IF i <= Len(s) THEN s[i] ELSE t[i - Len(s)]
  BY ConcatProperties, Zenon DEF Texts
<1> DEFINE w == s \o t
<1> HIDE DEF w
<1>3. \A i \in 1 .. Len(s) + Len(t) : w[i] = IF i <= Len(s) THEN s[i] ELSE t[i - Len(s)]
  BY <1>2 DEF w
<1>4. ASSUME NEW i \in 1 .. Len(s) PROVE w[i] = s[i]
  BY <1>1, <1>3
<1>5. ASSUME NEW i \in 1 .. Len(t) PROVE w[Len(s) + i] = t[i]
  <2>1. Len(s) + i \in 1 .. Len(s) + Len(t) /\ ~(Len(s) + i <= Len(s)) /\ (Len(s) + i) - Len(s) = i
    BY <1>1
  <2> QED  BY <2>1, <1>3
<1> QED  BY <1>1, <1>2, <1>4, <1>5 DEF w

\* The parts of a concatenation stand in it, and so does what stands in them.
LEMMA PartsStand ==
    ASSUME NEW s \in Texts, NEW t \in Texts
    PROVE  /\ s \o t \in Texts /\ HasAt(s \o t, 0, s) /\ HasAt(s \o t, Len(s), t)
           /\ \A o \in Nat, u \in Texts : HasAt(s, o, u) => HasAt(s \o t, o, u)
<1> DEFINE w == s \o t
<1>1. /\ w \in Texts /\ Len(w) = Len(s) + Len(t) /\ Len(s) \in Nat /\ Len(t) \in Nat
      /\ \A i \in 1 .. Len(s) : w[i] = s[i]
      /\ \A i \in 1 .. Len(t) : w[Len(s) + i] = t[i]
  BY Joined
<1> HIDE DEF w
<1>2. HasAt(w, 0, s) /\ HasAt(w, Len(s), t)
  BY <1>1 DEF HasAt
<1>3. ASSUME NEW o \in Nat, NEW u \in Texts, HasAt(s, o, u) PROVE HasAt(w, o, u)
  <2>1. Len(u) \in Nat
    BY LenProperties DEF Texts
  <2>2. \A i \in 1 .. Len(u) : o + i \in 1 .. Len(s) /\ s[o + i] = u[i]
    BY <1>1, <1>3, <2>1 DEF HasAt
  <2> QED  BY <1>1, <1>3, <2>1, <2>2 DEF HasAt
<1> QED  BY <1>1, <1>2, <1>3 DEF w

\* Where the parts of a text are put together does not matter.
LEMMA Regrouped ==
    ASSUME NEW s \in Texts, NEW t \in Texts, NEW u \in Texts
    PROVE  (s \o t) \o u = s \o (t \o u)
<1>1. s \in Seq(Tokens) /\ t \in Seq(Tokens) /\ u \in Seq(Tokens)
  BY DEF Texts
<1> QED  BY <1>1, ConcatAssociative

\* What stands in a part stands in the whole.
LEMMA StandsWithin ==
    ASSUME NEW w \in Texts, NEW s \in Texts, NEW t \in Texts, NEW o \in Nat, NEW p \in Nat,
           HasAt(w, o, s), HasAt(s, p, t)
    PROVE  HasAt(w, o + p, t)
<1>1. Len(w) \in Nat /\ Len(s) \in Nat /\ Len(t) \in Nat
  BY LenProperties DEF Texts
<1>2. ASSUME NEW i \in 1 .. Len(t) PROVE w[(o + p) + i] = t[i]
  <2>1. p + i \in 1 .. Len(s) /\ s[p + i] = t[i] /\ o + (p + i) = (o + p) + i
    BY <1>1 DEF HasAt
  <2> QED  BY <2>1 DEF HasAt
<1>3. (o + p) + Len(t) <= Len(w)
  BY <1>1 DEF HasAt
<1> QED  BY <1>2, <1>3 DEF HasAt

\* The least element of a set.
LEMMA MinIs ==
    ASSUME NEW S \in SUBSET Nat, NEW m \in S, \A y \in S : m <= y
    PROVE  Min(S) = m
<1>1. Min(S) \in S /\ \A y \in S : Min(S) <= y
  <2>1. \E x \in S : \A y \in S : x <= y
    OBVIOUS
  <2> QED  BY <2>1, Zenon DEF Min
<1> DEFINE x == Min(S)
<1> HIDE DEF x
<1>2. x \in S /\ m <= x /\ x <= m
  BY <1>1 DEF x
<1>3. x = m
  BY <1>2
<1> QED  BY <1>3 DEF x

LEMMA MaxIs ==
    ASSUME NEW S \in SUBSET Nat, NEW m \in S, \A y \in S : m >= y
    PROVE  Max(S) = m
<1>1. Max(S) \in S /\ \A y \in S : Max(S) >= y
  <2>1. \E x \in S : \A y \in S : x >= y
    OBVIOUS
  <2> QED  BY <2>1, Zenon DEF Max
<1> DEFINE x == Max(S)
<1> HIDE DEF x
<1>2. x \in S /\ m >= x /\ x >= m
  BY <1>1 DEF x
<1>3. x = m
  BY <1>2
<1> QED  BY <1>3 DEF x

\* std::find.
LEMMA FindIs ==
    ASSUME NEW text, NEW first \in Nat, NEW last \in Nat, NEW token, NEW k \in first .. last,
           k < last => text[k] = token, \A i \in first .. k - 1 : text[i] # token
    PROVE  find(text, first, last, token) = k
<1> DEFINE S == {i \in first .. last - 1 : text[i] = token} \cup {last}
<1>1. S \in SUBSET Nat /\ k \in S
  OBVIOUS
<1>2. ASSUME NEW y \in S PROVE k <= y
  OBVIOUS
<1> HIDE DEF S
<1>3. Min(S) = k
  BY <1>1, <1>2, MinIs
<1> QED  BY <1>3 DEF find, S

\* A sequence of one token.
LEMMA OneToken ==
    ASSUME NEW s \in Texts, NEW i \in 1 .. Len(s)
    PROVE  SubSeq(s, i, i) = <<s[i]>>
<1> DEFINE p == SubSeq(s, i, i)
           q == <<s[i]>>
<1>1. Len(s) \in Nat /\ s[i] \in Tokens
  BY LenProperties, ElementOfSeq DEF Texts
<1>2. p \in Texts /\ Len(p) = 1 /\ p[1] = s[i]
  <2>1. i \in Int /\ \A j \in i .. i : s[j] \in Tokens
    BY <1>1
  <2>2. p \in Seq(Tokens) /\ Len(p) = (IF i <= i THEN i - i + 1 ELSE 0)
        /\ \A j \in 1 .. i - i + 1 : p[j] = s[i + j - 1]
    BY <2>1, SubSeqProperties
  <2> QED  BY <2>1, <2>2 DEF Texts
<1>3. q \in Texts /\ Len(q) = 1 /\ q[1] = s[i]
  BY <1>1 DEF Texts
<1> HIDE DEF p, q
<1>4. \A j \in 1 .. Len(p) : p[j] = q[j]
  BY <1>2, <1>3
<1>5. p = q
  BY <1>2, <1>3, <1>4, SeqEqual DEF Texts
<1> QED  BY <1>5 DEF p, q

-----------------------------------------------------------------------------
(* Lines.                                                                  *)

\* Buffer::find_CRLF on a buffer that holds a line, or the beginning of one.
LEMMA FirstLine ==
    ASSUME NEW buf \in Texts, NEW line \in Texts, \A i \in 1 .. Len(line) : line[i] # "CR",
           \A i \in 1 .. Len(buf) : /\ i <= Len(line) => buf[i] = line[i]
                                    /\ i = Len(line) + 1 => buf[i] = "CR"
                                    /\ i = Len(line) + 2 => buf[i] = "LF"
    PROVE  /\ find_CRLF(buf) # 0 <=> Len(buf) >= Len(line) + 2
           /\ find_CRLF(buf) # 0 => /\ find_CRLF(buf) = Len(line) + 1
                                    /\ SubSeq(buf, 1, find_CRLF(buf) - 1) = line
<1> DEFINE crlfs == {i \in 1 .. Len(buf) - 1 : buf[i] = "CR" /\ buf[i + 1] = "LF"}
           n == Len(line)
<1>1. Len(buf) \in Nat /\ n \in Nat
  BY LenProperties DEF Texts
<1>2. find_CRLF(buf) = IF crlfs = {} THEN 0 ELSE Min(crlfs)
  BY DEF find_CRLF
<1>3. \A i \in crlfs : i >= n + 1
  BY <1>1
<1>4. CASE Len(buf) >= n + 2
  <2>1. n + 1 \in crlfs /\ crlfs \in SUBSET Nat
    <3>1. n + 1 \in 1 .. Len(buf) - 1 /\ n + 1 \in 1 .. Len(buf) /\ (n + 1) + 1 = n + 2
          /\ n + 2 \in 1 .. Len(buf)
      BY <1>1, <1>4
    <3> QED  BY <1>1, <3>1
  <2> HIDE DEF crlfs
  <2>2. Min(crlfs) = n + 1
    BY <1>3, <2>1, MinIs
  <2>3. find_CRLF(buf) = n + 1
    BY <1>2, <2>1, <2>2
  <2> DEFINE p == SubSeq(buf, 1, n)
  <2>4. \A i \in 1 .. n : i \in 1 .. Len(buf) /\ buf[i] \in Tokens /\ buf[i] = line[i]
    BY <1>1, <1>4, ElementOfSeq DEF Texts
  <2>5. p \in Seq(Tokens) /\ Len(p) = (IF 1 <= n THEN n - 1 + 1 ELSE 0)
        /\ \A i \in 1 .. n - 1 + 1 : p[i] = buf[1 + i - 1]
    BY <1>1, <2>4, SubSeqProperties
  <2> HIDE DEF p
  <2>6. Len(p) = n /\ \A i \in 1 .. n : p[i] = line[i]
    BY <1>1, <2>4, <2>5
  <2>7. p = line
    BY <2>5, <2>6, SeqEqual DEF Texts
  <2>8. (n + 1) - 1 = n
    BY <1>1
  <2> QED  BY <1>1, <1>4, <2>3, <2>7, <2>8 DEF p
<1>5. CASE ~(Len(buf) >= n + 2)
  <2>1. crlfs = {}
    BY <1>1, <1>3, <1>5
  <2>2. find_CRLF(buf) = 0
    BY <1>2, <2>1
  <2> QED  BY <1>5, <2>2
<1> QED  BY <1>4, <1>5

\* Words are not what the parser looks for.
LEMMA RequestFields ==
    ASSUME NEW r \in Requests
    PROVE  /\ r.method \in Tokens /\ r.path \in Tokens /\ r.version \in Tokens
           /\ r.connection \in Tokens
           /\ \A t \in {"SP", "?", ":", "CR", "LF"} :
                r.method # t /\ r.path # t /\ r.version # t /\ r.connection # t
           /\ r.query \in BOOLEAN /\ r.bare \in BOOLEAN /\ r.body \in BOOLEAN
<1>1. r \in [method : Words, path : Words, query : BOOLEAN, version : Words,
             connection : Words, bare : BOOLEAN, body : BOOLEAN]
  BY HttpAssumption
<1> QED  BY <1>1 DEF Words, Tokens

\* Sequences of given tokens.
LEMMA FiveTokens ==
    ASSUME NEW T, NEW a \in T, NEW b \in T, NEW c \in T, NEW d \in T, NEW e \in T
    PROVE  <<a, b, c, d, e>> \in Seq(T) /\ Len(<<a, b, c, d, e>>) = 5
OBVIOUS

LEMMA SevenTokens ==
    ASSUME NEW T, NEW a \in T, NEW b \in T, NEW c \in T, NEW d \in T, NEW e \in T,
           NEW f \in T, NEW g \in T
    PROVE  <<a, b, c, d, e, f, g>> \in Seq(T) /\ Len(<<a, b, c, d, e, f, g>>) = 7
OBVIOUS

\* The tokens of a request line.
LEMMA RequestLineIs ==
    ASSUME NEW r \in Requests
    PROVE  LET line == RequestLine(r)
               n == Len(line)
           IN  /\ line \in Texts /\ n \in {5, 7}
               /\ line[1] = r.method /\ line[2] = "SP" /\ line[3] = r.path
               /\ n = 5 => line[4] = "SP"
               /\ n = 7 => line[4] = "?" /\ line[5] = "q" /\ line[6] = "SP"
               /\ line[n] = r.version
               /\ \A i \in 1 .. n : line[i] # "CR"
<1>1. CASE r.query
  <2> DEFINE line == <<r.method, "SP", r.path, "?", "q", "SP", r.version>>
  <2>1. RequestLine(r) = line
    BY <1>1 DEF RequestLine
  <2>2. line \in Texts /\ Len(line) = 7
    <3>1. "SP" \in Tokens /\ "?" \in Tokens /\ "q" \in Tokens
      BY DEF Tokens
    <3> QED  BY <3>1, RequestFields, SevenTokens, Zenon DEF Texts
  <2>3. /\ line[1] = r.method /\ line[2] = "SP" /\ line[3] = r.path /\ line[4] = "?"
        /\ line[5] = "q" /\ line[6] = "SP" /\ line[7] = r.version
    OBVIOUS
  <2> HIDE DEF line
  <2>4. \A i \in 1 .. 7 : i \in {1, 2, 3, 4, 5, 6, 7}
    OBVIOUS
  <2>5. \A i \in 1 .. 7 : line[i] # "CR"
    BY <2>3, <2>4, RequestFields
  <2> QED  BY <2>1, <2>2, <2>3, <2>5
<1>2. CASE ~r.query
  <2> DEFINE line == <<r.method, "SP", r.path, "SP", r.version>>
  <2>1. RequestLine(r) = line
    BY <1>2 DEF RequestLine
  <2>2. line \in Texts /\ Len(line) = 5
    <3>1. "SP" \in Tokens
      BY DEF Tokens
    <3> QED  BY <3>1, RequestFields, FiveTokens, Zenon DEF Texts
  <2>3. /\ line[1] = r.method /\ line[2] = "SP" /\ line[3] = r.path /\ line[4] = "SP"
        /\ line[5] = r.version
    OBVIOUS
  <2> HIDE DEF line
  <2>4. \A i \in 1 .. 5 : i \in {1, 2, 3, 4, 5}
    OBVIOUS
  <2>5. \A i \in 1 .. 5 : line[i] # "CR"
    BY <2>3, <2>4, RequestFields
  <2> QED  BY <2>1, <2>2, <2>3, <2>5
<1> QED  BY <1>1, <1>2

\* process_request_line refuses a line whose first word is not followed by a
\* space as its second token.
LEMMA RefusesLine ==
    ASSUME NEW line \in Texts, NEW k \in 1 .. Len(line) + 1,
           k # 2 \/ k = Len(line) + 1,
           k <= Len(line) => line[k] = "SP", \A i \in 1 .. k - 1 : line[i] # "SP"
    PROVE  process_request_line(line) = Http_Request
<1> DEFINE end == Len(line) + 1
           space == find(line, 1, end, "SP")
           space2 == find(line, space + 1, end, "SP")
           question == find(line, space + 1, space2, "?")
           word == SubSeq(line, 1, space - 1)
<1>1. Len(line) \in Nat /\ end \in Nat /\ k \in 1 .. end /\ (k < end => line[k] = "SP")
  BY LenProperties DEF Texts
<1>2. space = k
  BY <1>1, FindIs
<1>3. ASSUME space < end, word \in {<<m>> : m \in Methods} PROVE FALSE
  <2>1. k \in Nat /\ 1 <= k /\ k <= Len(line)
    BY <1>1, <1>2, <1>3
  <2>2. \A i \in 1 .. k - 1 : line[i] \in Tokens
    BY <1>1, <2>1, ElementOfSeq DEF Texts
  <2>3. Len(SubSeq(line, 1, k - 1)) = IF 1 <= k - 1 THEN (k - 1) - 1 + 1 ELSE 0
    BY <2>1, <2>2, SubSeqProperties
  <2>4. Len(SubSeq(line, 1, k - 1)) = k - 1
    BY <2>1, <2>3
  <2>5. PICK m \in Methods : SubSeq(line, 1, k - 1) = <<m>>
    BY <1>2, <1>3
  <2> DEFINE sub == SubSeq(line, 1, k - 1)
  <2>6. Len(sub) = k - 1
    BY <2>4
  <2> HIDE DEF end, space, space2, question, word, sub
  <2>7. sub = <<m>> => Len(sub) = 1
    OBVIOUS
  <2>8. k = 2
    BY <2>1, <2>5, <2>6, <2>7 DEF sub
  <2>9. k = Len(line) + 1
    BY <2>8
  <2> QED  BY <2>1, <2>9
<1>4. process_request_line(line) =
        IF /\ space < end /\ word \in {<<m>> : m \in Methods}
           /\ space2 < end
           /\ Behind(line, space2) \in {<<"HTTP/1.0">>, <<"HTTP/1.1">>}
        THEN [Http_Request EXCEPT !.method = line[1],
                                  !.path = SubSeq(line, space + 1, question - 1),
                                  !.query = SubSeq(line, question, space2 - 1),
                                  !.version = Last(line)]
        ELSE Http_Request
  BY DEF process_request_line
<1> QED  BY <1>3, <1>4

\* A request in which all but the headers are set.
WithLine(q, method, path, query, version) ==
    [q EXCEPT !.method = method, !.path = path, !.query = query, !.version = version]

LEMMA RequestWith ==
    ASSUME NEW q, IsRequest(q), NEW method, NEW path, NEW query, NEW version
    PROVE  LET t == WithLine(q, method, path, query, version)
           IN  /\ IsRequest(t) /\ t.headers = q.headers
               /\ t.method = method /\ t.path = path /\ t.query = query /\ t.version = version
<1> DEFINE q1 == [q EXCEPT !.method = method]
           q2 == [q1 EXCEPT !.path = path]
           q3 == [q2 EXCEPT !.query = query]
           q4 == [q3 EXCEPT !.version = version]
<1>1. q1 = [method |-> method, version |-> q.version, path |-> q.path, query |-> q.query,
            headers |-> q.headers]
  BY DEF IsRequest
<1> HIDE DEF q1
<1>2. q2 = [method |-> method, version |-> q.version, path |-> path, query |-> q.query,
            headers |-> q.headers]
  BY <1>1
<1> HIDE DEF q2
<1>3. q3 = [method |-> method, version |-> q.version, path |-> path, query |-> query,
            headers |-> q.headers]
  BY <1>2
<1> HIDE DEF q3
<1>4. q4 = [method |-> method, version |-> version, path |-> path, query |-> query,
            headers |-> q.headers]
  BY <1>3
<1> HIDE DEF q4
<1>5. WithLine(q, method, path, query, version) = q4
  BY Zenon DEF WithLine, q4, q3, q2, q1
<1>6. /\ IsRequest(q4) /\ q4.headers = q.headers
      /\ q4.method = method /\ q4.path = path /\ q4.query = query /\ q4.version = version
  BY <1>4 DEF IsRequest
<1> QED  BY <1>5, <1>6, Zenon

\* It takes a request line that is well formed, and refuses any other.
LEMMA TakesRequestLine ==
    ASSUME NEW r \in Requests
    PROVE  LET q == process_request_line(RequestLine(r))
           IN  /\ Malformed(r) => q = Http_Request
               /\ ~Malformed(r) => q.method # "INVALID" /\ Parsed(q, r, FALSE)
<1> DEFINE line == RequestLine(r)
           n == Len(line)
           end == n + 1
           space == find(line, 1, end, "SP")
           space2 == find(line, space + 1, end, "SP")
           question == find(line, space + 1, space2, "?")
           good == /\ space < end /\ SubSeq(line, 1, space - 1) \in {<<m>> : m \in Methods}
                   /\ space2 < end
                   /\ Behind(line, space2) \in {<<"HTTP/1.0">>, <<"HTTP/1.1">>}
           taken == [Http_Request EXCEPT !.method = line[1],
                                  !.path = SubSeq(line, space + 1, question - 1),
                                  !.query = SubSeq(line, question, space2 - 1),
                                  !.version = Last(line)]
<1>1. /\ line \in Texts /\ n \in {5, 7}
      /\ line[1] = r.method /\ line[2] = "SP" /\ line[3] = r.path
      /\ n = 5 => line[4] = "SP"
      /\ n = 7 => line[4] = "?" /\ line[5] = "q" /\ line[6] = "SP"
      /\ line[n] = r.version
  BY RequestLineIs
<1>2. process_request_line(line) = IF good THEN taken ELSE Http_Request
  BY DEF process_request_line
<1>3. r.method # "SP" /\ r.path # "SP" /\ r.path # "?"
  BY RequestFields
<1> HIDE DEF line
<1>4. space = 2
  <2>1. 2 \in 1 .. end /\ 1 \in Nat /\ end \in Nat /\ (2 < end => line[2] = "SP")
        /\ \A i \in 1 .. 2 - 1 : line[i] # "SP"
    BY <1>1, <1>3
  <2> QED  BY <2>1, FindIs
<1> HIDE DEF space
<1>5. space2 = n - 1
  <2>1. space + 1 = 3 /\ n - 1 \in 3 .. end /\ end \in Nat
    BY <1>1, <1>4
  <2>2. n - 1 < end => line[n - 1] = "SP"
    <3>1. (n = 5 => n - 1 = 4) /\ (n = 7 => n - 1 = 6)
      OBVIOUS
    <3> QED  BY <1>1, <3>1
  <2>3. \A i \in 3 .. (n - 1) - 1 : line[i] # "SP"
    <3>1. \A i \in 3 .. (n - 1) - 1 : i = 3 \/ (n = 7 /\ i \in {4, 5})
      BY <1>1
    <3> QED  BY <1>1, <1>3, <3>1
  <2> QED  BY <2>1, <2>2, <2>3, FindIs
<1> HIDE DEF space2
<1>6. question = 4
  <2>1. space + 1 = 3 /\ space2 \in Nat /\ 4 \in 3 .. space2 /\ (4 < space2 => line[4] = "?")
        /\ \A i \in 3 .. 4 - 1 : line[i] # "?"
    BY <1>1, <1>3, <1>4, <1>5
  <2> QED  BY <2>1, FindIs
<1> HIDE DEF question
<1>7. SubSeq(line, 1, space - 1) = <<r.method>>
  <2>1. space - 1 = 1 /\ 1 \in 1 .. Len(line)
    BY <1>1, <1>4
  <2> QED  BY <1>1, <2>1, OneToken
<1>8. Behind(line, space2) = <<r.version>>
  <2>1. space2 + 1 = n /\ n \in 1 .. Len(line)
    BY <1>1, <1>5
  <2>2. SubSeq(line, n, n) = <<line[n]>>
    BY <1>1, <2>1, OneToken
  <2> QED  BY <1>1, <2>1, <2>2 DEF Behind
<1>9. SubSeq(line, space + 1, question - 1) = <<r.path>>
  <2>1. space + 1 = 3 /\ question - 1 = 3 /\ 3 \in 1 .. Len(line)
    BY <1>1, <1>4, <1>6
  <2> QED  BY <1>1, <2>1, OneToken
<1>10. space < end /\ space2 < end /\ Last(line) = r.version
  BY <1>1, <1>4, <1>5 DEF Last
<1>11. good <=> ~Malformed(r)
  <2>1. SubSeq(line, 1, space - 1) \in {<<m>> : m \in Methods} <=> r.method \in Methods
    <3>1. \A m \in Methods : <<r.method>> = <<m>> => r.method = m
      OBVIOUS
    <3> HIDE DEF n, end
    <3> QED  BY <1>7, <3>1
  <2>2. Behind(line, space2) \in {<<"HTTP/1.0">>, <<"HTTP/1.1">>}
            <=> r.version \in {"HTTP/1.0", "HTTP/1.1"}
    <3>1. \A v : <<r.version>> = <<v>> <=> r.version = v
      OBVIOUS
    <3> QED  BY <1>8, <3>1, Zenon
  <2> QED  BY <1>10, <2>1, <2>2 DEF Malformed
<1>12. ASSUME ~Malformed(r) PROVE taken.method # "INVALID" /\ Parsed(taken, r, FALSE)
  <2>1. IsRequest(Http_Request) /\ Http_Request.headers = <<>>
    BY DEF Http_Request, IsRequest
  <2>2. taken = WithLine(Http_Request, line[1], SubSeq(line, space + 1, question - 1),
                         SubSeq(line, question, space2 - 1), Last(line))
    BY Zenon DEF WithLine
  <2> HIDE DEF taken
  <2>3. /\ IsRequest(taken) /\ taken.headers = <<>> /\ taken.method = r.method
        /\ taken.path = <<r.path>> /\ taken.version = r.version
    <3> DEFINE m == line[1]
               p == SubSeq(line, space + 1, question - 1)
               u == SubSeq(line, question, space2 - 1)
               v == Last(line)
    <3>1. IsRequest(Http_Request) /\ taken = WithLine(Http_Request, m, p, u, v)
      BY <2>1, <2>2
    <3> HIDE DEF m, p, u, v
    <3>2. /\ IsRequest(taken) /\ taken.headers = Http_Request.headers /\ taken.method = m
          /\ taken.path = p /\ taken.version = v
      BY <3>1, RequestWith
    <3> QED  BY <1>1, <1>9, <1>10, <2>1, <3>2, Zenon DEF m, p, v
  <2>4. r.method # "INVALID"
    BY <1>12 DEF Malformed, Methods
  <2>5. \A h : h = <<>> => DOMAIN h = {}
    OBVIOUS
  <2>6. get_header(taken, <<"Connection">>) = <<>>
    BY <2>3, <2>5, Zenon DEF get_header
  <2> QED  BY <2>3, <2>4, <2>6 DEF Parsed
<1> HIDE DEF good, taken
<1> QED  BY <1>2, <1>11, <1>12 DEF line

\* The tokens of a Connection header.
LEMMA ConnectionLineIs ==
    ASSUME NEW r \in Requests
    PROVE  LET line == ConnectionLine(r)
           IN  /\ line \in Texts /\ Len(line) = 5
               /\ line[1] = "Connection" /\ line[2] = ":" /\ line[3] = "SP"
               /\ line[4] = r.connection /\ line[5] = "SP"
               /\ \A i \in 1 .. 5 : line[i] # "CR"
<1> DEFINE line == <<"Connection", ":", "SP", r.connection, "SP">>
<1>1. ConnectionLine(r) = line
  BY DEF ConnectionLine
<1>2. line \in Texts /\ Len(line) = 5
  <2>1. "Connection" \in Tokens /\ ":" \in Tokens /\ "SP" \in Tokens
    BY DEF Tokens
  <2> QED  BY <2>1, RequestFields, FiveTokens, Zenon DEF Texts
<1>3. /\ line[1] = "Connection" /\ line[2] = ":" /\ line[3] = "SP"
      /\ line[4] = r.connection /\ line[5] = "SP"
  OBVIOUS
<1> HIDE DEF line
<1>4. \A i \in 1 .. 5 : i \in {1, 2, 3, 4, 5}
  OBVIOUS
<1>5. \A i \in 1 .. 5 : line[i] # "CR"
  BY <1>3, <1>4, RequestFields
<1> QED  BY <1>1, <1>2, <1>3, <1>5

\* A line without a colon, and the empty line.
LEMMA BareLineIs ==
    /\ BareLine \in Texts /\ Len(BareLine) = 1 /\ BareLine[1] = "bare"
    /\ <<>> \in Texts /\ Len(<<>>) = 0
    /\ crlf_ \in Texts /\ Len(crlf_) = 2 /\ crlf_[1] = "CR" /\ crlf_[2] = "LF"
    /\ <<"body">> \in Texts /\ Len(<<"body">>) = 1 /\ <<"body">>[1] = "body"
<1>1. "bare" \in Tokens /\ "CR" \in Tokens /\ "LF" \in Tokens /\ "body" \in Tokens
  BY DEF Tokens
<1>2. \A T : \A a \in T, b \in T :
        /\ <<a, b>> \in Seq(T) /\ Len(<<a, b>>) = 2
        /\ <<a>> \in Seq(T) /\ Len(<<a>>) = 1
        /\ <<>> \in Seq(T) /\ Len(<<>>) = 0
  OBVIOUS
<1>3. /\ <<"bare">>[1] = "bare" /\ <<"body">>[1] = "body"
      /\ <<"CR", "LF">>[1] = "CR" /\ <<"CR", "LF">>[2] = "LF"
  OBVIOUS
<1>4. /\ <<"bare">> \in Seq(Tokens) /\ Len(<<"bare">>) = 1
      /\ <<"body">> \in Seq(Tokens) /\ Len(<<"body">>) = 1
      /\ <<>> \in Seq(Tokens) /\ Len(<<>>) = 0
      /\ <<"CR", "LF">> \in Seq(Tokens) /\ Len(<<"CR", "LF">>) = 2
  BY <1>1, <1>2, Zenon
<1> QED  BY <1>3, <1>4, Zenon DEF BareLine, crlf_, Texts

\* A request whose headers are set.
WithHeaders(q, headers) == [q EXCEPT !.headers = headers]

LEMMA RequestWithHeaders ==
    ASSUME NEW q, IsRequest(q), NEW headers
    PROVE  LET t == WithHeaders(q, headers)
           IN  /\ IsRequest(t) /\ t.headers = headers
               /\ t.method = q.method /\ t.path = q.path /\ t.version = q.version
<1> DEFINE t == WithHeaders(q, headers)
<1>1. t = [method |-> q.method, version |-> q.version, path |-> q.path, query |-> q.query,
           headers |-> headers]
  BY DEF IsRequest, WithHeaders
<1> HIDE DEF t
<1>2. /\ IsRequest(t) /\ t.headers = headers
      /\ t.method = q.method /\ t.path = q.path /\ t.version = q.version
  BY <1>1 DEF IsRequest
<1> QED  BY <1>2 DEF t

\* Http_Request::add_header gives the value of a Connection header without the
\* spaces around it.
LEMMA AddsHeader ==
    ASSUME NEW r \in Requests, NEW q, Parsed(q, r, FALSE)
    PROVE  LET line == ConnectionLine(r)
           IN  /\ find(line, 1, Len(line) + 1, ":") = 2
               /\ Parsed(add_header(q, line, 2), r, TRUE)
<1> DEFINE line == ConnectionLine(r)
           field == SubSeq(line, 1, 2 - 1)
           words == {i \in 2 + 1 .. Len(line) : line[i] # "SP"}
           value == IF words = {} THEN <<>> ELSE SubSeq(line, Min(words), Max(words))
           headers == with_header(q.headers, field, value)
<1>1. /\ line \in Texts /\ Len(line) = 5
      /\ line[1] = "Connection" /\ line[2] = ":" /\ line[3] = "SP"
      /\ line[4] = r.connection /\ line[5] = "SP"
  BY ConnectionLineIs
<1>2. add_header(q, line, 2) = WithHeaders(q, headers)
  BY Zenon DEF add_header, WithHeaders
<1> HIDE DEF line
<1>3. find(line, 1, Len(line) + 1, ":") = 2
  <2>1. /\ 1 \in Nat /\ Len(line) + 1 \in Nat /\ 2 \in 1 .. Len(line) + 1
        /\ (2 < Len(line) + 1 => line[2] = ":") /\ \A i \in 1 .. 2 - 1 : line[i] # ":"
    BY <1>1
  <2> QED  BY <2>1, FindIs
<1>4. words = {4} /\ 2 - 1 = 1
  <2>1. \A i \in 2 + 1 .. Len(line) : i \in {3, 4, 5}
    BY <1>1
  <2>2. 4 \in words
    BY <1>1, RequestFields
  <2> QED  BY <1>1, <2>1, <2>2
<1>5. Min({4}) = 4 /\ Max({4}) = 4
  <2>1. {4} \in SUBSET Nat /\ 4 \in {4} /\ \A y \in {4} : 4 <= y /\ 4 >= y
    OBVIOUS
  <2> QED  BY <2>1, MinIs, MaxIs
<1>6. field = <<"Connection">> /\ value = <<r.connection>>
  <2>1. 1 \in 1 .. Len(line) /\ 4 \in 1 .. Len(line)
    BY <1>1
  <2>2. SubSeq(line, 1, 1) = <<line[1]>> /\ SubSeq(line, 4, 4) = <<line[4]>>
    BY <1>1, <2>1, OneToken
  <2>3. {4} # {}
    OBVIOUS
  <2> HIDE DEF words
  <2> QED  BY <1>1, <1>4, <1>5, <2>2, <2>3, Zenon
<1> HIDE DEF field, value, headers
<1> DEFINE t == WithHeaders(q, headers)
<1>7. IsRequest(t) /\ t.headers = headers /\ t.path = q.path /\ t.version = q.version
  BY RequestWithHeaders DEF Parsed
<1> HIDE DEF t
<1>8. field \in DOMAIN headers /\ headers[field] = value
  BY DEF headers, with_header
<1>9. get_header(t, <<"Connection">>) = <<r.connection>>
  BY <1>6, <1>7, <1>8, Zenon DEF get_header
<1> QED  BY <1>2, <1>3, <1>7, <1>9 DEF Parsed, t, line

-----------------------------------------------------------------------------
(* A line of parse_request.                                                *)

\* A context with given parts.
LEMMA ContextWith ==
    ASSUME NEW c, IsContext(c), NEW s, NEW q, NEW o, NEW h
    PROVE  /\ [c EXCEPT !.ok = o, !.has_more = h]
                = [state_ |-> c.state_, request_ |-> c.request_, ok |-> o, has_more |-> h]
           /\ [c EXCEPT !.request_ = q, !.state_ = s]
                = [state_ |-> s, request_ |-> q, ok |-> c.ok, has_more |-> c.has_more]
           /\ [c EXCEPT !.request_ = q]
                = [state_ |-> c.state_, request_ |-> q, ok |-> c.ok, has_more |-> c.has_more]
           /\ [c EXCEPT !.state_ = s, !.has_more = h]
                = [state_ |-> s, request_ |-> c.request_, ok |-> c.ok, has_more |-> h]
<1> DEFINE c1 == [c EXCEPT !.ok = o]
           c2 == [c EXCEPT !.request_ = q]
           c3 == [c EXCEPT !.state_ = s]
<1>1. /\ c1 = [state_ |-> c.state_, request_ |-> c.request_, ok |-> o, has_more |-> c.has_more]
      /\ c2 = [state_ |-> c.state_, request_ |-> q, ok |-> c.ok, has_more |-> c.has_more]
      /\ c3 = [state_ |-> s, request_ |-> c.request_, ok |-> c.ok, has_more |-> c.has_more]
  BY DEF IsContext
<1> HIDE DEF c1, c2, c3
<1>2. [c1 EXCEPT !.has_more = h]
        = [state_ |-> c.state_, request_ |-> c.request_, ok |-> o, has_more |-> h]
  BY <1>1
<1>3. [c2 EXCEPT !.state_ = s]
        = [state_ |-> s, request_ |-> q, ok |-> c.ok, has_more |-> c.has_more]
  BY <1>1
<1>4. [c3 EXCEPT !.has_more = h]
        = [state_ |-> s, request_ |-> c.request_, ok |-> c.ok, has_more |-> h]
  BY <1>1
<1> QED  BY <1>1, <1>2, <1>3, <1>4, Zenon DEF c1, c2, c3

\* The parts of a context.
ContextIs(c, s, q, o, h) == c = [state_ |-> s, request_ |-> q, ok |-> o, has_more |-> h]

LEMMA ContextParts ==
    ASSUME NEW c, NEW s, NEW q, NEW o, NEW h, ContextIs(c, s, q, o, h)
    PROVE  IsContext(c) /\ c.state_ = s /\ c.request_ = q /\ c.ok = o /\ c.has_more = h
BY DEF IsContext, ContextIs

\* In EXPECT_REQUESR_LINE, a line that is refused and one that is taken.
LEMMA ParsesRequestLine ==
    ASSUME NEW c, IsContext(c), c.state_ = "EXPECT_REQUESR_LINE", NEW line
    PROVE  LET q == process_request_line(line)
               d == parse_line(c, line)
           IN  /\ q.method = "INVALID" => ContextIs(d, c.state_, c.request_, FALSE, FALSE)
               /\ q.method # "INVALID" => ContextIs(d, "EXPECT_HEADERS", q, c.ok, c.has_more)
<1> DEFINE q == process_request_line(line)
           d == parse_line(c, line)
<1>1. CASE q.method = "INVALID"
  <2>1. d = [c EXCEPT !.ok = FALSE, !.has_more = FALSE]
    BY <1>1 DEF parse_line
  <2>2. ContextIs(d, c.state_, c.request_, FALSE, FALSE)
    BY <2>1, ContextWith, ZenonT(30) DEF ContextIs
  <2> QED  BY <1>1, <2>2
<1>2. CASE q.method # "INVALID"
  <2>1. d = [c EXCEPT !.request_ = q, !.state_ = "EXPECT_HEADERS"]
    BY <1>2 DEF parse_line
  <2> HIDE DEF q
  <2>2. ContextIs(d, "EXPECT_HEADERS", q, c.ok, c.has_more)
    BY <2>1, ContextWith, ZenonT(90) DEF ContextIs
  <2> QED  BY <1>2, <2>2 DEF q
<1> QED  BY <1>1, <1>2

\* In EXPECT_HEADERS, a header and the end of the header.
LEMMA ParsesHeader ==
    ASSUME NEW c, IsContext(c), c.state_ = "EXPECT_HEADERS", NEW line \in Texts,
           NEW colon \in Nat, colon = find(line, 1, Len(line) + 1, ":")
    PROVE  LET d == parse_line(c, line)
           IN  /\ colon <= Len(line) =>
                    ContextIs(d, c.state_, add_header(c.request_, line, colon), c.ok, c.has_more)
               /\ ~(colon <= Len(line)) => ContextIs(d, "GOT_ALL", c.request_, c.ok, FALSE)
<1> DEFINE q == add_header(c.request_, line, colon)
           d == parse_line(c, line)
<1>1. Len(line) \in Nat
  BY LenProperties DEF Texts
<1>2. /\ ~(colon > Len(line)) <=> colon <= Len(line)
      /\ colon > Len(line) <=> ~(colon <= Len(line))
  BY <1>1
<1>3. CASE colon <= Len(line)
  <2>1. d = [c EXCEPT !.request_ = q]
    BY <1>1, <1>2, <1>3 DEF parse_line
  <2> HIDE DEF q
  <2>2. ContextIs(d, c.state_, q, c.ok, c.has_more)
    BY <2>1, ContextWith DEF ContextIs
  <2> QED  BY <1>3, <2>2 DEF q
<1>4. CASE ~(colon <= Len(line))
  <2>1. d = [c EXCEPT !.state_ = "GOT_ALL", !.has_more = FALSE]
    BY <1>1, <1>2, <1>4 DEF parse_line
  <2>2. ContextIs(d, "GOT_ALL", c.request_, c.ok, FALSE)
    BY <2>1, ContextWith, ZenonT(30) DEF ContextIs
  <2> QED  BY <1>4, <2>2
<1> QED  BY <1>3, <1>4

\* A line without a colon ends the header.
LEMMA EndsHeader ==
    ASSUME NEW line \in Texts, \A i \in 1 .. Len(line) : line[i] # ":"
    PROVE  find(line, 1, Len(line) + 1, ":") = Len(line) + 1
<1>1. Len(line) \in Nat
  BY LenProperties DEF Texts
<1>2. /\ 1 \in Nat /\ Len(line) + 1 \in Nat /\ Len(line) + 1 \in 1 .. Len(line) + 1
      /\ (Len(line) + 1 < Len(line) + 1 => line[Len(line) + 1] = ":")
      /\ \A i \in 1 .. (Len(line) + 1) - 1 : line[i] # ":"
  BY <1>1
<1> QED  BY <1>2, FindIs

-----------------------------------------------------------------------------
(* The lines of a request on the wire.                                     *)

\* Two parts, one behind the other.
LEMMA StandJoined ==
    ASSUME NEW w \in Texts, NEW o \in Nat, NEW s \in Texts, NEW t \in Texts,
           HasAt(w, o, s), HasAt(w, o + Len(s), t)
    PROVE  HasAt(w, o, s \o t)
<1> DEFINE u == s \o t
<1>1. /\ u \in Texts /\ Len(u) = Len(s) + Len(t) /\ Len(s) \in Nat /\ Len(t) \in Nat
      /\ \A i \in 1 .. Len(s) : u[i] = s[i]
      /\ \A i \in 1 .. Len(t) : u[Len(s) + i] = t[i]
  BY Joined
<1> HIDE DEF u
<1>2. o + Len(u) <= Len(w)
  <2>1. Len(w) \in Nat
    BY LenProperties DEF Texts
  <2> QED  BY <1>1, <2>1 DEF HasAt
<1>3. ASSUME NEW i \in 1 .. Len(u) PROVE w[o + i] = u[i]
  <2>1. CASE i <= Len(s)
    BY <1>1, <2>1 DEF HasAt
  <2>2. CASE ~(i <= Len(s))
    <3>1. /\ i - Len(s) \in 1 .. Len(t) /\ Len(s) + (i - Len(s)) = i
          /\ (o + Len(s)) + (i - Len(s)) = o + i
      BY <1>1, <2>2
    <3> QED  BY <1>1, <3>1 DEF HasAt
  <2> QED  BY <2>1, <2>2
<1> QED  BY <1>2, <1>3 DEF HasAt, u

\* How a request is laid out.
LEMMA WireIs ==
    ASSUME NEW r \in Requests
    PROVE  /\ Wire(r) \in Texts /\ HeaderAt(r) \in {7, 9}
           /\ HasAt(Wire(r), 0, RequestLine(r) \o crlf_)
           /\ r.bare => HasAt(Wire(r), HeaderAt(r), BareLine \o crlf_)
           /\ r.connection # "none" =>
                /\ r.bare => HasAt(Wire(r), AnswerAt(r), ConnectionLine(r) \o crlf_)
                /\ ~r.bare => /\ HasAt(Wire(r), HeaderAt(r), ConnectionLine(r) \o crlf_)
                              /\ HasAt(Wire(r), ConnectionAt(r), crlf_)
           /\ r.connection = "none" =>
                /\ r.bare => HasAt(Wire(r), AnswerAt(r), crlf_)
                /\ ~r.bare => HasAt(Wire(r), HeaderAt(r), crlf_)
           /\ ~LeavesRest(r) => Len(Wire(r)) = AnswerAt(r)
           /\ r.body /\ ~r.bare =>
                Len(Wire(r)) = AnswerAt(r) + 1 /\ HasAt(Wire(r), AnswerAt(r), <<"body">>)
<1> DEFINE a == RequestLine(r) \o crlf_
           b == IF r.bare THEN BareLine \o crlf_ ELSE <<>>
           c == IF r.connection = "none" THEN <<>> ELSE ConnectionLine(r) \o crlf_
           d == IF r.body THEN <<"body">> ELSE <<>>
           w2 == a \o b
           w3 == w2 \o c
           w4 == w3 \o crlf_
           w5 == w4 \o d
<1>1. Wire(r) = w5
  BY DEF Wire
<1>2. /\ crlf_ \in Texts /\ Len(crlf_) = 2 /\ a \in Texts /\ Len(a) = Len(RequestLine(r)) + 2
      /\ Len(a) \in {7, 9}
  <2>1. RequestLine(r) \in Texts /\ Len(RequestLine(r)) \in {5, 7}
    BY RequestLineIs
  <2>2. crlf_ \in Texts /\ Len(crlf_) = 2
    BY BareLineIs
  <2>3. a \in Texts /\ Len(a) = Len(RequestLine(r)) + Len(crlf_)
    BY <2>1, <2>2, Joined
  <2> HIDE DEF a
  <2>4. CASE Len(RequestLine(r)) = 5
    BY <2>2, <2>3, <2>4
  <2>5. CASE Len(RequestLine(r)) = 7
    BY <2>2, <2>3, <2>5
  <2> QED  BY <2>1, <2>4, <2>5, Zenon
<1>3. b \in Texts /\ (r.bare => Len(b) = 3) /\ (~r.bare => Len(b) = 0)
  <2>1. BareLine \in Texts /\ Len(BareLine) = 1
    BY BareLineIs
  <2> DEFINE l == BareLine \o crlf_
  <2>2. l \in Texts /\ Len(l) = Len(BareLine) + Len(crlf_)
    BY <1>2, <2>1, Joined
  <2>3. l \in Texts /\ Len(l) = 3
    BY <1>2, <2>1, <2>2
  <2> QED  BY <2>3, BareLineIs, Zenon
<1>4. /\ c \in Texts /\ (r.connection = "none" => Len(c) = 0)
      /\ (r.connection # "none" => Len(c) = 7)
  <2>1. ConnectionLine(r) \in Texts /\ Len(ConnectionLine(r)) = 5
    BY ConnectionLineIs
  <2> DEFINE l == ConnectionLine(r) \o crlf_
  <2>2. l \in Texts /\ Len(l) = Len(ConnectionLine(r)) + Len(crlf_)
    BY <1>2, <2>1, Joined
  <2>3. l \in Texts /\ Len(l) = 7
    BY <1>2, <2>1, <2>2
  <2> QED  BY <2>3, BareLineIs, Zenon
<1>5. d \in Texts /\ (r.body => Len(d) = 1) /\ (~r.body => Len(d) = 0)
  BY BareLineIs, Zenon
<1> HIDE DEF a, b, c, d
<1>6. /\ w2 \in Texts /\ Len(w2) = Len(a) + Len(b) /\ HasAt(w2, 0, a) /\ HasAt(w2, Len(a), b)
  BY <1>2, <1>3, Joined, PartsStand
<1> HIDE DEF w2
<1>7. /\ w3 \in Texts /\ Len(w3) = Len(w2) + Len(c) /\ HasAt(w3, Len(w2), c)
      /\ HasAt(w3, 0, a) /\ HasAt(w3, Len(a), b)
  <2>1. 0 \in Nat /\ Len(a) \in Nat
    BY <1>2
  <2> QED  BY <1>2, <1>3, <1>4, <1>6, <2>1, Joined, PartsStand
<1> HIDE DEF w3
<1>8. /\ w4 \in Texts /\ Len(w4) = Len(w3) + 2 /\ HasAt(w4, Len(w3), crlf_)
      /\ HasAt(w4, 0, a) /\ HasAt(w4, Len(a), b) /\ HasAt(w4, Len(w2), c)
  <2>1. 0 \in Nat /\ Len(a) \in Nat /\ Len(w2) \in Nat
    BY <1>2, <1>6, LenProperties DEF Texts
  <2>2. w4 \in Texts /\ Len(w4) = Len(w3) + Len(crlf_) /\ HasAt(w4, Len(w3), crlf_)
    BY <1>2, <1>7, Joined, PartsStand
  <2>3. HasAt(w4, 0, a) /\ HasAt(w4, Len(a), b) /\ HasAt(w4, Len(w2), c)
    BY <1>2, <1>3, <1>4, <1>7, <2>1, PartsStand
  <2> QED  BY <1>2, <2>2, <2>3
<1> HIDE DEF w4
<1>9. /\ w5 \in Texts /\ Len(w5) = Len(w4) + Len(d) /\ HasAt(w5, Len(w4), d)
      /\ HasAt(w5, 0, a) /\ HasAt(w5, Len(a), b) /\ HasAt(w5, Len(w2), c)
      /\ HasAt(w5, Len(w3), crlf_)
  <2>1. 0 \in Nat /\ Len(a) \in Nat /\ Len(w2) \in Nat /\ Len(w3) \in Nat
    BY <1>2, <1>6, <1>7, LenProperties DEF Texts
  <2> QED  BY <1>2, <1>3, <1>4, <1>5, <1>8, <2>1, Joined, PartsStand, ZenonT(30)
<1> HIDE DEF w5
<1>10. HeaderAt(r) = Len(a) /\ HeaderAt(r) \in {7, 9}
  BY <1>2 DEF HeaderAt
<1>11. /\ Len(w2) = HeaderAt(r) + Len(b) /\ Len(w3) = HeaderAt(r) + Len(b) + Len(c)
       /\ Len(w4) = HeaderAt(r) + Len(b) + Len(c) + 2
       /\ Len(w5) = HeaderAt(r) + Len(b) + Len(c) + 2 + Len(d)
  BY <1>6, <1>7, <1>8, <1>9, <1>10
<1>12. r.bare \in BOOLEAN /\ r.body \in BOOLEAN
  BY RequestFields
<1>13. /\ r.bare => Len(w2) = AnswerAt(r) /\ b = BareLine \o crlf_
       /\ ~r.bare => Len(w2) = HeaderAt(r)
  BY <1>3, <1>10, <1>11 DEF AnswerAt, b
<1>14. /\ r.connection = "none" => Len(w3) = Len(w2)
       /\ r.connection # "none" => Len(w3) = Len(w2) + 7 /\ c = ConnectionLine(r) \o crlf_
  <2>1. CASE r.connection = "none"
    BY <1>3, <1>4, <1>10, <1>11, <1>12, <2>1
  <2>2. CASE r.connection # "none"
    <3>1. c = ConnectionLine(r) \o crlf_
      BY <2>2, Zenon DEF c
    <3> QED  BY <1>3, <1>4, <1>10, <1>11, <1>12, <2>2, <3>1
  <2> QED  BY <2>1, <2>2
<1>15. /\ ~LeavesRest(r) => Len(w5) = AnswerAt(r)
       /\ r.body /\ ~r.bare => Len(w5) = AnswerAt(r) + 1 /\ Len(w4) = AnswerAt(r) /\ d = <<"body">>
  <2>1. r.body => d = <<"body">>
    BY Zenon DEF d
  <2>2. ASSUME ~r.bare PROVE Len(w4) = AnswerAt(r)
    <3>1. Len(w4) = Len(w3) + 2 /\ Len(w2) = HeaderAt(r)
      BY <1>8, <1>13, <2>2
    <3>2. CASE r.connection = "none"
      BY <1>14, <2>2, <3>1, <3>2 DEF AnswerAt
    <3>3. CASE r.connection # "none"
      BY <1>14, <2>2, <3>1, <3>3 DEF AnswerAt, ConnectionAt
    <3> QED  BY <3>2, <3>3
  <2>3. Len(w5) = Len(w4) + Len(d) /\ Len(w4) \in Nat
    BY <1>8, <1>9, LenProperties DEF Texts
  <2>4. /\ ~r.body => Len(w5) = Len(w4)
        /\ r.body => Len(w5) = Len(w4) + 1
    <3>1. Len(d) = 0 => Len(w5) = Len(w4)
      BY <2>3
    <3>2. Len(d) = 1 => Len(w5) = Len(w4) + 1
      BY <2>3
    <3> QED  BY <1>5, <3>1, <3>2, Zenon
  <2> QED  BY <1>12, <2>1, <2>2, <2>4 DEF LeavesRest
<1>16. ConnectionAt(r) = HeaderAt(r) + 7
  BY DEF ConnectionAt
<1> QED  BY <1>1, <1>9, <1>10, <1>12, <1>13, <1>14, <1>15, <1>16 DEF a

-----------------------------------------------------------------------------
(* The stream of the requests.                                             *)

\* Numbers of a row of requests.
LEMMA RowFacts ==
    ASSUME NEW reqs, InARow(reqs)
    PROVE  /\ Len(reqs) \in Nat /\ DOMAIN reqs = 1 .. Len(reqs)
           /\ EndOf(reqs, Len(reqs)) \in Nat
           /\ \A j \in DOMAIN reqs :
                /\ reqs[j].what \in Requests
                /\ reqs[j].begin \in Nat /\ reqs[j].line \in Nat /\ reqs[j].end \in Nat
                /\ reqs[j].line = reqs[j].begin + HeaderAt(reqs[j].what)
                /\ reqs[j].end = reqs[j].begin + Len(Wire(reqs[j].what))
                /\ reqs[j].end <= EndOf(reqs, Len(reqs))
                /\ j = 1 => reqs[j].begin = 0
                /\ j > 1 => j - 1 \in DOMAIN reqs /\ reqs[j].begin = reqs[j - 1].end
<1>1. reqs \in Seq(AskedRequests) /\ Len(reqs) \in Nat /\ DOMAIN reqs = 1 .. Len(reqs)
  BY LenProperties DEF InARow
<1>2. \A j \in DOMAIN reqs : reqs[j] \in AskedRequests
  BY <1>1, ElementOfSeq
<1>3. \A j \in DOMAIN reqs :
        /\ reqs[j].what \in Requests
        /\ reqs[j].begin \in Nat /\ reqs[j].line \in Nat /\ reqs[j].end \in Nat
  BY <1>2 DEF AskedRequests
<1>4. ASSUME NEW j \in DOMAIN reqs
      PROVE  /\ reqs[j].line = reqs[j].begin + HeaderAt(reqs[j].what)
             /\ reqs[j].end = reqs[j].begin + Len(Wire(reqs[j].what))
             /\ j = 1 => reqs[j].begin = 0
             /\ j > 1 => j - 1 \in DOMAIN reqs /\ reqs[j].begin = reqs[j - 1].end
  <2>1. /\ reqs[j].begin = EndOf(reqs, j - 1)
        /\ reqs[j].line = reqs[j].begin + Len(RequestLine(reqs[j].what)) + 2
        /\ reqs[j].end = reqs[j].begin + Len(Wire(reqs[j].what))
    BY DEF InARow
  <2>2. Len(RequestLine(reqs[j].what)) \in Nat
    BY <1>3, RequestLineIs, LenProperties DEF Texts
  <2>3. reqs[j].line = reqs[j].begin + HeaderAt(reqs[j].what)
    BY <1>3, <2>1, <2>2, SMTT(30) DEF HeaderAt
  <2>4. j \in Nat /\ 1 <= j /\ j <= Len(reqs)
    BY <1>1
  <2>5. j = 1 => reqs[j].begin = 0
    BY <2>1, <2>4 DEF EndOf
  <2>6. j > 1 => j - 1 \in DOMAIN reqs /\ reqs[j].begin = reqs[j - 1].end
    BY <1>1, <2>1, <2>4 DEF EndOf
  <2> QED  BY <2>1, <2>3, <2>5, <2>6
<1>5. \A j \in DOMAIN reqs : Len(Wire(reqs[j].what)) \in Nat
  BY <1>3, WireIs, LenProperties DEF Texts
<1>6. EndOf(reqs, Len(reqs)) \in Nat
  <2>1. CASE Len(reqs) = 0
    BY <2>1 DEF EndOf
  <2>2. CASE Len(reqs) # 0
    BY <1>1, <1>3, <2>2 DEF EndOf
  <2> QED  BY <2>1, <2>2
<1>7. ASSUME NEW j \in DOMAIN reqs PROVE reqs[j].end <= EndOf(reqs, Len(reqs))
  <2> DEFINE n == Len(reqs)
  <2>1. j \in Nat /\ 1 <= j /\ j <= n /\ n \in DOMAIN reqs /\ n # 0
    BY <1>1
  <2>2. EndOf(reqs, n) = reqs[n].end
    BY <2>1 DEF EndOf
  <2>3. CASE j = n
    BY <1>3, <2>1, <2>2, <2>3
  <2>4. CASE j < n
    <3>1. reqs[j].end <= reqs[n].begin
      BY <2>1, <2>4 DEF InARow
    <3>2. reqs[n].end = reqs[n].begin + Len(Wire(reqs[n].what))
      BY <1>4, <2>1, Zenon
    <3>3. Len(Wire(reqs[n].what)) \in Nat /\ reqs[n].begin \in Nat /\ reqs[j].end \in Nat
      BY <1>3, <1>5, <2>1, Zenon
    <3> QED  BY <2>2, <3>1, <3>2, <3>3
  <2> QED  BY <1>1, <2>1, <2>3, <2>4
<1> QED  BY <1>1, <1>3, <1>4, <1>6, <1>7

\* What stands in a request that was not taken yet stands in the rest.
LEMMA StandsAhead ==
    ASSUME NEW reqs, InARow(reqs), NEW text, NEW p, IsRest(text, p, reqs),
           NEW j \in DOMAIN reqs, NEW o \in Nat, NEW s \in Texts,
           HasAt(Wire(reqs[j].what), o, s), p <= reqs[j].begin + o
    PROVE  (reqs[j].begin + o) - p \in Nat /\ HasAt(text, (reqs[j].begin + o) - p, s)
<1> DEFINE w == Wire(reqs[j].what)
           b == reqs[j].begin
           e == EndOf(reqs, Len(reqs))
           k == (b + o) - p
<1>1. /\ reqs[j].what \in Requests /\ b \in Nat /\ e \in Nat /\ reqs[j].end <= e
      /\ reqs[j].end = b + Len(w)
  BY RowFacts
<1>2. w \in Texts /\ Len(w) \in Nat /\ Len(s) \in Nat /\ Len(text) \in Nat /\ p \in Nat
  BY <1>1, WireIs, LenProperties DEF Texts, IsRest
<1>3. /\ Len(text) = e - p
      /\ \A i \in 1 .. Len(w) : b + i > p => text[b + i - p] = w[i]
  BY DEF IsRest
<1>4. o + Len(s) <= Len(w) /\ \A i \in 1 .. Len(s) : w[o + i] = s[i]
  BY DEF HasAt
<1>5. p <= b + o
  OBVIOUS
<1> HIDE DEF w, b, e
<1>6. k \in Nat /\ k + Len(s) <= Len(text)
  BY <1>1, <1>2, <1>3, <1>4, <1>5
<1>7. ASSUME NEW i \in 1 .. Len(s) PROVE text[k + i] = s[i]
  <2> DEFINE m == o + i
  <2>1. m \in 1 .. Len(w) /\ b + m > p /\ b + m - p = k + i /\ w[m] = s[i]
    BY <1>1, <1>2, <1>4, <1>5
  <2> HIDE DEF m, k
  <2>2. text[b + m - p] = w[m]
    BY <1>3, <2>1
  <2> QED  BY <2>1, <2>2
<1>8. HasAt(text, k, s)
  BY <1>6, <1>7 DEF HasAt
<1> QED  BY <1>6, <1>8 DEF b

\* The line that comes next in the stream, as find_CRLF finds it in the buffer.
LEMMA BufferedLine ==
    ASSUME NEW buf \in Texts, NEW rest \in Texts, NEW line \in Texts,
           \A i \in 1 .. Len(line) : line[i] # "CR", HasAt(buf \o rest, 0, line \o crlf_)
    PROVE  /\ find_CRLF(buf) # 0 <=> Len(buf) >= Len(line) + 2
           /\ find_CRLF(buf) # 0 => /\ find_CRLF(buf) = Len(line) + 1
                                    /\ SubSeq(buf, 1, find_CRLF(buf) - 1) = line
<1> DEFINE t == buf \o rest
           l == line \o crlf_
<1>1. /\ t \in Texts /\ Len(t) = Len(buf) + Len(rest) /\ Len(buf) \in Nat /\ Len(rest) \in Nat
      /\ \A i \in 1 .. Len(buf) : t[i] = buf[i]
  BY Joined
<1>2. /\ l \in Texts /\ Len(l) = Len(line) + 2 /\ Len(line) \in Nat
      /\ \A i \in 1 .. Len(line) : l[i] = line[i]
      /\ l[Len(line) + 1] = "CR" /\ l[Len(line) + 2] = "LF"
  <2>1. crlf_ \in Texts /\ Len(crlf_) = 2 /\ crlf_[1] = "CR" /\ crlf_[2] = "LF"
    BY BareLineIs
  <2>2. /\ l \in Texts /\ Len(l) = Len(line) + Len(crlf_) /\ Len(line) \in Nat
        /\ \A i \in 1 .. Len(line) : l[i] = line[i]
        /\ \A i \in 1 .. Len(crlf_) : l[Len(line) + i] = crlf_[i]
    BY <2>1, Joined
  <2> HIDE DEF l
  <2>3. 1 \in 1 .. Len(crlf_) /\ 2 \in 1 .. Len(crlf_)
    BY <2>1
  <2> QED  BY <2>1, <2>2, <2>3
<1>3. 0 + Len(l) <= Len(t) /\ \A i \in 1 .. Len(l) : t[0 + i] = l[i]
  BY DEF HasAt
<1> HIDE DEF t, l
<1>4. ASSUME NEW i \in 1 .. Len(buf)
      PROVE  /\ i <= Len(line) => buf[i] = line[i]
             /\ i = Len(line) + 1 => buf[i] = "CR"
             /\ i = Len(line) + 2 => buf[i] = "LF"
  <2>1. t[i] = buf[i] /\ 0 + i = i /\ i \in Nat /\ 1 <= i
    BY <1>1
  <2>2. i <= Len(line) + 2 => i \in 1 .. Len(l) /\ buf[i] = l[i]
    BY <1>2, <1>3, <2>1
  <2>3. i <= Len(line) => i \in 1 .. Len(line) /\ i <= Len(line) + 2 /\ l[i] = line[i]
    BY <1>2, <2>1
  <2> QED  BY <1>2, <2>1, <2>2, <2>3
<1> QED  BY <1>4, FirstLine

LEMMA NoLine ==
    ASSUME NEW buf \in Texts, Len(buf) <= 1
    PROVE  find_CRLF(buf) = 0
<1>1. Len(buf) \in Nat
  BY LenProperties DEF Texts
<1>2. {i \in 1 .. Len(buf) - 1 : buf[i] = "CR" /\ buf[i + 1] = "LF"} = {}
  BY <1>1
<1> QED  BY <1>2, Zenon DEF find_CRLF

\* Taking tokens from the buffer takes them from the stream.
LEMMA TakenFromBuffer ==
    ASSUME NEW buf \in Texts, NEW rest \in Texts, NEW k \in Nat, k <= Len(buf)
    PROVE  LET t == buf \o rest
               u == Behind(buf, k) \o rest
           IN  /\ Behind(buf, k) \in Texts /\ Len(Behind(buf, k)) = Len(buf) - k
               /\ u \in Texts /\ Len(u) = Len(t) - k
               /\ \A i \in 1 .. Len(u) : u[i] = t[k + i]
<1> DEFINE t == buf \o rest
           b == Behind(buf, k)
           u == b \o rest
<1>1. /\ t \in Texts /\ Len(t) = Len(buf) + Len(rest) /\ Len(buf) \in Nat /\ Len(rest) \in Nat
      /\ \A i \in 1 .. Len(buf) : t[i] = buf[i]
      /\ \A i \in 1 .. Len(rest) : t[Len(buf) + i] = rest[i]
  BY Joined
<1>2. b \in Texts /\ Len(b) = Len(buf) - k /\ \A i \in 1 .. Len(b) : b[i] = buf[k + i]
  <2>1. k + 1 \in Int /\ Len(buf) \in Int /\ \A i \in k + 1 .. Len(buf) : buf[i] \in Tokens
    BY <1>1, ElementOfSeq DEF Texts
  <2> DEFINE q == SubSeq(buf, k + 1, Len(buf))
  <2>2. q \in Seq(Tokens) /\ Len(q) = (IF k + 1 <= Len(buf) THEN Len(buf) - (k + 1) + 1 ELSE 0)
        /\ \A i \in 1 .. Len(buf) - (k + 1) + 1 : q[i] = buf[(k + 1) + i - 1]
    BY <2>1, SubSeqProperties
  <2>3. b = q
    BY DEF Behind
  <2> HIDE DEF q, b
  <2>4. Len(q) = Len(buf) - k /\ Len(buf) - (k + 1) + 1 = Len(buf) - k
    BY <1>1, <2>2
  <2>5. ASSUME NEW i \in 1 .. Len(q) PROVE q[i] = buf[k + i]
    <3>1. (k + 1) + i - 1 = k + i
      BY <1>1, <2>4
    <3> QED  BY <2>2, <2>4, <3>1
  <2> QED  BY <2>2, <2>3, <2>4, <2>5 DEF Texts
<1> HIDE DEF b, t
<1>3. /\ u \in Texts /\ Len(u) = Len(b) + Len(rest)
      /\ \A i \in 1 .. Len(b) : u[i] = b[i]
      /\ \A i \in 1 .. Len(rest) : u[Len(b) + i] = rest[i]
  BY <1>2, Joined
<1> HIDE DEF u
<1>4. Len(u) = Len(t) - k
  BY <1>1, <1>2, <1>3
<1>5. ASSUME NEW i \in 1 .. Len(u) PROVE u[i] = t[k + i]
  <2>1. CASE i <= Len(b)
    <3>1. i \in 1 .. Len(b) /\ k + i \in 1 .. Len(buf)
      BY <1>1, <1>2, <2>1
    <3> QED  BY <1>1, <1>2, <1>3, <3>1
  <2>2. CASE ~(i <= Len(b))
    <3> DEFINE j == i - Len(b)
    <3>1. j \in 1 .. Len(rest) /\ Len(b) + j = i /\ Len(buf) + j = k + i
      BY <1>1, <1>2, <1>3, <2>2
    <3> HIDE DEF j
    <3>2. u[Len(b) + j] = rest[j] /\ t[Len(buf) + j] = rest[j]
      BY <1>1, <1>3, <3>1
    <3> QED  BY <3>1, <3>2
  <2> QED  BY <2>1, <2>2
<1> QED  BY <1>2, <1>3, <1>4, <1>5 DEF b, t, u

LEMMA RestShifts ==
    ASSUME NEW reqs, InARow(reqs), NEW text, NEW p, IsRest(text, p, reqs),
           NEW k \in Nat, NEW u \in Texts, Len(u) = Len(text) - k,
           \A i \in 1 .. Len(u) : u[i] = text[k + i]
    PROVE  IsRest(u, p + k, reqs)
<1> DEFINE e == EndOf(reqs, Len(reqs))
<1>1. p \in Nat /\ e \in Nat /\ Len(text) = e - p /\ Len(u) \in Nat
  BY RowFacts, LenProperties DEF IsRest, Texts
<1> HIDE DEF e
<1>2. Len(u) = e - (p + k) /\ p + k \in Nat
  BY <1>1
<1>3. ASSUME NEW j \in DOMAIN reqs, NEW i \in 1 .. Len(Wire(reqs[j].what)),
             reqs[j].begin + i > p + k
      PROVE  u[reqs[j].begin + i - (p + k)] = Wire(reqs[j].what)[i]
  <2> DEFINE b == reqs[j].begin
             w == Wire(reqs[j].what)
             m == b + i - (p + k)
  <2>1. b \in Nat /\ reqs[j].what \in Requests /\ reqs[j].end <= e /\ reqs[j].end = b + Len(w)
    BY RowFacts DEF e
  <2>2. w \in Texts /\ Len(w) \in Nat /\ i \in Nat
    BY <2>1, WireIs, LenProperties DEF Texts
  <2>3. text[b + i - p] = w[i]
    <3>1. b + i > p
      BY <1>1, <1>3, <2>1, <2>2
    <3> QED  BY <3>1 DEF IsRest
  <2>4. b + i > p + k
    BY <1>3
  <2> HIDE DEF b, w
  <2>5. i <= Len(w)
    BY <2>2 DEF w
  <2>6. m \in 1 .. Len(u) /\ k + m = b + i - p
    BY <1>1, <1>2, <2>1, <2>2, <2>4, <2>5, SMTT(30) DEF b, w
  <2> HIDE DEF m
  <2>7. u[m] = text[k + m]
    BY <2>6
  <2> QED  BY <2>3, <2>6, <2>7 DEF m, b, w
<1> QED  BY <1>2, <1>3 DEF IsRest, e

-----------------------------------------------------------------------------
(* parse_request.                                                          *)

\* What Serving says of the stream.
LEMMA ServingFacts ==
    ASSUME InARow(requests), responses \in Seq(Responses), Serving
    PROVE  /\ input_buffer_ \in Texts /\ inbox \in Texts /\ outgoing \in Texts
           /\ inbox \o outgoing \in Texts /\ Text \in Texts
           /\ Len(input_buffer_) \in Nat /\ Len(inbox) \in Nat /\ Len(outgoing) \in Nat
           /\ Len(Text) = Len(input_buffer_) + (Len(inbox) + Len(outgoing))
           /\ Place \in Nat /\ Place + Len(Text) = EndOf(requests, Len(requests))
           /\ received = Place + Len(input_buffer_)
           /\ Answered \in Nat /\ Answered <= Len(requests)
<1>1. /\ input_buffer_ \in Texts /\ inbox \in Texts /\ outgoing \in Texts
      /\ IsRest(Text, Place, requests) /\ SplitAgrees /\ Answered <= Len(requests)
  BY DEF Serving
<1>2. /\ Len(input_buffer_) \in Nat /\ Len(inbox) \in Nat /\ Len(outgoing) \in Nat
  BY <1>1, LenProperties DEF Texts
<1>3. inbox \o outgoing \in Texts /\ Len(inbox \o outgoing) = Len(inbox) + Len(outgoing)
  BY <1>1, Joined
<1>4. Text \in Texts /\ Len(Text) = Len(input_buffer_) + Len(inbox \o outgoing)
  BY <1>1, <1>3, Joined DEF Text
<1>5. Place \in Nat /\ Len(Text) = EndOf(requests, Len(requests)) - Place
  BY <1>1 DEF IsRest
<1>6. EndOf(requests, Len(requests)) \in Nat
  BY RowFacts
<1>7. Place + Len(Text) = EndOf(requests, Len(requests))
  BY <1>5, <1>6
<1>8. received = Place + Len(input_buffer_)
  BY <1>1 DEF SplitAgrees
<1>9. Answered \in Nat
  BY LenProperties DEF Answered
<1> QED  BY <1>1, <1>2, <1>3, <1>4, <1>5, <1>7, <1>8, <1>9

\* Everything that the stream and the requests are made of is as it was.
SameStream ==
    UNCHANGED <<Text, input_buffer_, requests, received, split, responses>>

LEMMA StreamKept ==
    ASSUME SameStream
    PROVE  /\ Text' = Text /\ Place' = Place /\ Answered' = Answered
           /\ SplitAgrees' = SplitAgrees /\ Reason' = Reason /\ Between' = Between
           /\ \A k : AnsweredAt(k)' = AnsweredAt(k)
  BY DEF SameStream, Place, Answered, SplitAgrees, Reason, Between, AnsweredAt, Forgotten,
         Coming, EndOf

\* What parse_request does with the line that comes next.
LEMMA TakesLine ==
    ASSUME InARow(requests), responses \in Seq(Responses), Serving, parse_request,
           NEW line \in Texts, \A i \in 1 .. Len(line) : line[i] # "CR",
           HasAt(Text, 0, line \o crlf_)
    PROVE  /\ context' = parse_line(context, line)
           /\ input_buffer_' \in Texts /\ inbox' \in Texts /\ outgoing' \in Texts
           /\ IsRest(Text', Place', requests') /\ SplitAgrees'
           /\ context'.ok => Place' = Place + (Len(line) + 2)
           /\ ~context'.ok => Place' = Place
           /\ UNCHANGED <<conn, requests, responses, split>>
<1> DEFINE rest == inbox \o outgoing
           crlf == find_CRLF(input_buffer_)
           k == Len(line) + 2
           e == EndOf(requests, Len(requests))
<1>1. /\ input_buffer_ \in Texts /\ inbox \in Texts /\ outgoing \in Texts
      /\ rest \in Texts /\ Text \in Texts
      /\ Len(input_buffer_) \in Nat /\ Len(Text) \in Nat
      /\ Place \in Nat /\ Place + Len(Text) = e /\ e \in Nat
      /\ received = Place + Len(input_buffer_) /\ Len(line) \in Nat
  BY ServingFacts, RowFacts, LenProperties DEF Texts
<1>2. Text = input_buffer_ \o rest
  BY DEF Text
<1>3. /\ crlf # 0 /\ context' = parse_line(context, SubSeq(input_buffer_, 1, crlf - 1))
      /\ input_buffer_' = IF context'.ok THEN Behind(input_buffer_, crlf + 1) ELSE input_buffer_
      /\ UNCHANGED <<conn, todo, inbox, outgoing, segments, requests,
                     received, split, lumped, responses>>
  BY DEF parse_request
<1>4. /\ crlf = Len(line) + 1 /\ SubSeq(input_buffer_, 1, crlf - 1) = line
      /\ Len(input_buffer_) >= Len(line) + 2
  BY <1>1, <1>2, <1>3, BufferedLine
<1>5. crlf + 1 = k /\ k \in Nat /\ k <= Len(input_buffer_)
  BY <1>1, <1>4
<1>6. context' = parse_line(context, line)
  BY <1>3, <1>4
<1> HIDE DEF k, crlf, rest, e
<1>7. CASE ~context'.ok
  <2>1. input_buffer_' = input_buffer_
    BY <1>3, <1>7
  <2>2. SameStream
    BY <1>3, <2>1 DEF SameStream, Text
  <2>3. Text' = Text /\ Place' = Place /\ SplitAgrees' = SplitAgrees
    BY <2>2, StreamKept
  <2>4. IsRest(Text, Place, requests) /\ SplitAgrees
    BY DEF Serving
  <2> QED  BY <1>1, <1>3, <1>6, <1>7, <2>1, <2>3, <2>4
<1>8. CASE context'.ok
  <2> DEFINE b == Behind(input_buffer_, k)
             u == b \o rest
  <2>1. input_buffer_' = b
    BY <1>3, <1>5, <1>8
  <2>2. Text' = u
    BY <1>3, <2>1 DEF Text, rest
  <2>3. /\ b \in Texts /\ Len(b) = Len(input_buffer_) - k
        /\ u \in Texts /\ Len(u) = Len(Text) - k
        /\ \A i \in 1 .. Len(u) : u[i] = Text[k + i]
    <3> DEFINE t == input_buffer_ \o rest
    <3>1. /\ b \in Texts /\ Len(b) = Len(input_buffer_) - k
          /\ u \in Texts /\ Len(u) = Len(t) - k
          /\ \A i \in 1 .. Len(u) : u[i] = t[k + i]
      <4>1. input_buffer_ \in Texts /\ rest \in Texts /\ k \in Nat /\ k <= Len(input_buffer_)
        BY <1>1, <1>5
      <4> QED  BY <4>1, TakenFromBuffer, Zenon
    <3> HIDE DEF t, u, b
    <3>2. t = Text
      BY <1>2 DEF t
    <3> QED  BY <3>1, <3>2
  <2>4. IsRest(u, Place + k, requests)
    <3>1. IsRest(Text, Place, requests)
      BY DEF Serving
    <3> HIDE DEF u
    <3> QED  BY <1>5, <2>3, <3>1, RestShifts
  <2> HIDE DEF u, b
  <2>5. Place' = e - Len(u)
    BY <1>3, <2>2 DEF Place, e
  <2>6. Place' = Place + k
    <3>1. Len(u) = Len(Text) - k
      BY <2>3
    <3>2. Place \in Nat /\ Len(Text) \in Nat /\ Place + Len(Text) = e /\ k \in Nat
      BY <1>1, <1>5
    <3> QED  BY <2>5, <3>1, <3>2
  <2>7. received' = Place' + Len(input_buffer_')
    <3>1. received' = received /\ Len(input_buffer_') = Len(input_buffer_) - k
      BY <1>3, <2>1, <2>3
    <3>2. /\ Place \in Nat /\ Len(input_buffer_) \in Nat /\ k \in Nat
          /\ received = Place + Len(input_buffer_)
      BY <1>1, <1>5
    <3> QED  BY <2>6, <3>1, <3>2
  <2>8. SplitAgrees'
    <3>1. SplitAgrees
      BY DEF Serving
    <3> QED  BY <1>3, <2>7, <3>1 DEF SplitAgrees
  <2> QED  BY <1>1, <1>3, <1>6, <1>8, <2>1, <2>2, <2>3, <2>4, <2>6, <2>8 DEF k
<1> QED  BY <1>7, <1>8

\* A line of a request that the server has come to.
LEMMA LineAhead ==
    ASSUME InARow(requests), responses \in Seq(Responses), Serving,
           NEW j \in DOMAIN requests, NEW o \in Nat, NEW line \in Texts,
           HasAt(Wire(requests[j].what), o, line), Place = requests[j].begin + o
    PROVE  HasAt(Text, 0, line)
<1>1. IsRest(Text, Place, requests) /\ Place \in Nat
  BY ServingFacts DEF Serving
<1>2. requests[j].begin \in Nat
  BY RowFacts
<1>3. Place <= requests[j].begin + o /\ (requests[j].begin + o) - Place = 0
  BY <1>1, <1>2
<1>4. HasAt(Text, (requests[j].begin + o) - Place, line)
  BY <1>1, <1>3, StandsAhead
<1> QED  BY <1>3, <1>4

\* A line and its CRLF.
LEMMA LineIsText ==
    ASSUME NEW line \in Texts
    PROVE  line \o crlf_ \in Texts /\ Len(line \o crlf_) = Len(line) + 2
<1>1. crlf_ \in Texts /\ Len(crlf_) = 2
  BY BareLineIs
<1>2. line \o crlf_ \in Texts /\ Len(line \o crlf_) = Len(line) + Len(crlf_)
  BY <1>1, Joined
<1> QED  BY <1>1, <1>2

\* A context is told from the absence of one.
LEMMA IsNoContext ==
    ASSUME NEW c, IsContext(c)
    PROVE  c # NoContext
<1>1. "state_" \in DOMAIN c
  BY DEF IsContext
<1>2. "state_" \notin DOMAIN NoContext
  BY DEF NoContext
<1> QED  BY <1>1, <1>2, Zenon

\* on_message answers 400 to a line that is refused.
LEMMA RefusedStep ==
    ASSUME InARow(requests), responses \in Seq(Responses), Serving, parse_request,
           IsContext(context), context.state_ = "EXPECT_REQUESR_LINE", Reason,
           NEW line \in Texts, \A i \in 1 .. Len(line) : line[i] # "CR",
           HasAt(Text, 0, line \o crlf_), process_request_line(line) = Http_Request
    PROVE  Serving' /\ UNCHANGED <<conn, requests, responses, split>>
<1>1. /\ context' = parse_line(context, line)
      /\ input_buffer_' \in Texts /\ inbox' \in Texts /\ outgoing' \in Texts
      /\ IsRest(Text', Place', requests') /\ SplitAgrees'
      /\ UNCHANGED <<conn, requests, responses, split>>
  BY TakesLine
<1>2. process_request_line(line).method = "INVALID"
  BY DEF Http_Request
<1>3. /\ IsContext(context') /\ context'.state_ = "EXPECT_REQUESR_LINE"
      /\ context'.ok = FALSE /\ context'.has_more = FALSE
  <2>1. ContextIs(context', "EXPECT_REQUESR_LINE", context.request_, FALSE, FALSE)
    BY <1>1, <1>2, ParsesRequestLine
  <2> QED  BY <2>1, ContextParts
<1>4. Reason'
  BY <1>1 DEF Reason
<1>5. Refused'
  BY <1>3, <1>4 DEF Refused
<1>6. context' # NoContext
  BY <1>3, IsNoContext
<1>7. Cursor'
  BY <1>3, <1>5, <1>6 DEF Cursor, NoContext
<1>8. (Answered <= Len(requests))'
  BY <1>1 DEF Serving, Answered
<1> QED  BY <1>1, <1>7, <1>8 DEF Serving

\* Lines that do not begin a request.
LEMMA RefusedLines ==
    ASSUME NEW r \in Requests
    PROVE  /\ process_request_line(<<>>) = Http_Request
           /\ process_request_line(BareLine) = Http_Request
           /\ process_request_line(ConnectionLine(r)) = Http_Request
<1>1. process_request_line(<<>>) = Http_Request
  <2> DEFINE line == <<>>
  <2>1. line \in Texts /\ Len(line) = 0
    BY BareLineIs
  <2> HIDE DEF line
  <2>2. /\ 1 \in 1 .. Len(line) + 1 /\ 1 = Len(line) + 1 /\ ~(1 <= Len(line))
        /\ \A i \in 1 .. 1 - 1 : line[i] # "SP"
    BY <2>1
  <2>3. process_request_line(line) = Http_Request
    BY <2>1, <2>2, RefusesLine
  <2> QED  BY <2>3 DEF line
<1>2. process_request_line(BareLine) = Http_Request
  <2> DEFINE line == BareLine
  <2>1. line \in Texts /\ Len(line) = 1 /\ line[1] = "bare"
    BY BareLineIs
  <2> HIDE DEF line
  <2>2. /\ 2 \in 1 .. Len(line) + 1 /\ 2 = Len(line) + 1 /\ ~(2 <= Len(line))
        /\ \A i \in 1 .. 2 - 1 : line[i] # "SP"
    BY <2>1
  <2>3. process_request_line(line) = Http_Request
    BY <2>1, <2>2, RefusesLine
  <2> QED  BY <2>3 DEF line
<1>3. process_request_line(ConnectionLine(r)) = Http_Request
  <2> DEFINE line == ConnectionLine(r)
  <2>1. /\ line \in Texts /\ Len(line) = 5 /\ line[1] = "Connection" /\ line[2] = ":"
        /\ line[3] = "SP"
    BY ConnectionLineIs
  <2> HIDE DEF line
  <2>2. /\ 3 \in 1 .. Len(line) + 1 /\ 3 # 2 /\ line[3] = "SP"
        /\ \A i \in 1 .. 3 - 1 : i \in {1, 2} /\ line[i] # "SP"
    BY <2>1
  <2>3. process_request_line(line) = Http_Request
    BY <2>1, <2>2, RefusesLine
  <2> QED  BY <2>3 DEF line
<1> QED  BY <1>1, <1>2, <1>3

\* The next request behind a body that nobody has taken.
LEMMA BodyLine ==
    ASSUME NEW r \in Requests
    PROVE  LET line == <<"body">> \o RequestLine(r)
           IN  /\ line \in Texts /\ \A i \in 1 .. Len(line) : line[i] # "CR"
               /\ process_request_line(line) = Http_Request
<1> DEFINE body == <<"body">>
           tail == RequestLine(r)
           line == body \o tail
<1>1. body \in Texts /\ Len(body) = 1 /\ body[1] = "body"
  BY BareLineIs
<1>2. /\ tail \in Texts /\ Len(tail) \in {5, 7} /\ tail[1] = r.method /\ tail[2] = "SP"
      /\ \A i \in 1 .. Len(tail) : tail[i] # "CR"
  BY RequestLineIs
<1> HIDE DEF body, tail
<1>3. /\ line \in Texts /\ Len(line) = Len(body) + Len(tail)
      /\ \A i \in 1 .. Len(body) : line[i] = body[i]
      /\ \A i \in 1 .. Len(tail) : line[Len(body) + i] = tail[i]
  BY <1>1, <1>2, Joined
<1> HIDE DEF line
<1>4. Len(tail) \in Nat /\ Len(tail) >= 5
  <2>1. Len(tail) = 5 \/ Len(tail) = 7
    BY <1>2, Zenon
  <2>2. CASE Len(tail) = 5
    BY <2>2
  <2>3. CASE Len(tail) = 7
    BY <2>3
  <2> QED  BY <2>1, <2>2, <2>3, Zenon
<1>5. /\ Len(line) = 1 + Len(tail) /\ line[1] = "body"
      /\ \A i \in 1 .. Len(tail) : line[1 + i] = tail[i]
  BY <1>1, <1>3, <1>4
<1>6. ASSUME NEW i \in 1 .. Len(line) PROVE line[i] # "CR"
  <2>1. CASE i = 1
    BY <1>5, <2>1
  <2>2. CASE i # 1
    <3> DEFINE m == i - 1
    <3>1. m \in 1 .. Len(tail) /\ 1 + m = i
      BY <1>4, <1>5, <2>2
    <3> HIDE DEF m
    <3> QED  BY <1>2, <1>5, <3>1
  <2> QED  BY <2>1, <2>2
<1>7. line[2] = r.method /\ line[3] = "SP"
  <2>1. 1 \in 1 .. Len(tail) /\ 2 \in 1 .. Len(tail) /\ 1 + 1 = 2 /\ 1 + 2 = 3
    BY <1>4
  <2> QED  BY <1>2, <1>5, <2>1
<1>8. process_request_line(line) = Http_Request
  <2>1. /\ 3 \in 1 .. Len(line) + 1 /\ 3 # 2 /\ line[3] = "SP"
        /\ \A i \in 1 .. 3 - 1 : i \in {1, 2} /\ line[i] # "SP"
    BY <1>4, <1>5, <1>7, RequestFields
  <2> QED  BY <1>3, <2>1, RefusesLine
<1> QED  BY <1>3, <1>6, <1>8 DEF line, body, tail

\* crlf_ is an empty line.
LEMMA EmptyLine ==
    /\ <<>> \o crlf_ = crlf_ /\ \A i \in 1 .. Len(<<>>) : <<>>[i] # "CR" /\ <<>>[i] # ":"
    /\ \A i \in 1 .. Len(BareLine) : BareLine[i] # "CR" /\ BareLine[i] # ":"
<1>1. crlf_ \in Seq(Tokens) /\ Len(<<>>) = 0 /\ Len(BareLine) = 1 /\ BareLine[1] = "bare"
  BY BareLineIs DEF Texts
<1>2. <<>> \o crlf_ = crlf_
  BY <1>1, ConcatEmptySeq
<1>3. \A i \in 1 .. 0 : FALSE
  OBVIOUS
<1>4. \A i \in 1 .. 1 : i = 1
  OBVIOUS
<1> QED  BY <1>1, <1>2, <1>3, <1>4, Zenon

\* A line of a request that the server has come to is refused.
LEMMA RefusedAhead ==
    ASSUME InARow(requests), responses \in Seq(Responses), Serving, parse_request,
           IsContext(context), context.state_ = "EXPECT_REQUESR_LINE", Reason,
           NEW j \in DOMAIN requests, NEW o \in Nat, Place = requests[j].begin + o,
           \/ HasAt(Wire(requests[j].what), o, crlf_)
           \/ HasAt(Wire(requests[j].what), o, BareLine \o crlf_)
           \/ HasAt(Wire(requests[j].what), o, ConnectionLine(requests[j].what) \o crlf_)
    PROVE  Serving' /\ UNCHANGED <<conn, requests, responses, split>>
<1> DEFINE r == requests[j].what
<1>1. r \in Requests
  BY RowFacts
<1>2. ASSUME NEW line \in Texts, \A i \in 1 .. Len(line) : line[i] # "CR",
             HasAt(Wire(r), o, line \o crlf_), process_request_line(line) = Http_Request
      PROVE  Serving' /\ UNCHANGED <<conn, requests, responses, split>>
  <2>1. line \o crlf_ \in Texts
    BY LineIsText
  <2>2. HasAt(Text, 0, line \o crlf_)
    BY <1>2, <2>1, LineAhead
  <2> QED  BY <1>2, <2>2, RefusedStep
<1> HIDE DEF r
<1>3. CASE HasAt(Wire(r), o, crlf_)
  <2> DEFINE line == <<>>
  <2>1. line \in Texts /\ \A i \in 1 .. Len(line) : line[i] # "CR"
    BY BareLineIs, EmptyLine
  <2>2. HasAt(Wire(r), o, line \o crlf_)
    BY <1>3, EmptyLine
  <2>3. process_request_line(line) = Http_Request
    BY <1>1, RefusedLines
  <2> HIDE DEF line
  <2> QED  BY <1>2, <2>1, <2>2, <2>3
<1>4. CASE HasAt(Wire(r), o, BareLine \o crlf_)
  <2>1. BareLine \in Texts /\ \A i \in 1 .. Len(BareLine) : BareLine[i] # "CR"
    BY BareLineIs, EmptyLine
  <2>2. process_request_line(BareLine) = Http_Request
    BY <1>1, RefusedLines
  <2> QED  BY <1>2, <1>4, <2>1, <2>2
<1>5. CASE HasAt(Wire(r), o, ConnectionLine(r) \o crlf_)
  <2> DEFINE line == ConnectionLine(r)
  <2>1. line \in Texts /\ \A i \in 1 .. Len(line) : line[i] # "CR"
    BY <1>1, ConnectionLineIs
  <2>2. process_request_line(line) = Http_Request
    BY <1>1, RefusedLines
  <2> QED  BY <1>2, <1>5, <2>1, <2>2
<1> QED  BY <1>3, <1>4, <1>5 DEF r

\* A request whose context was lost with data that ended inside it.
LEMMA AtForgotten ==
    ASSUME InARow(requests), responses \in Seq(Responses), Serving, parse_request,
           IsContext(context), context.state_ = "EXPECT_REQUESR_LINE", Forgotten
    PROVE  Serving' /\ UNCHANGED <<conn, requests, responses, split>>
<1> DEFINE j == Answered + 1
           r == requests[j].what
<1>1. j \in DOMAIN requests /\ r \in Requests /\ Coming = requests[j]
  <2>1. Answered \in Nat /\ Answered < Len(requests)
    BY ServingFacts DEF Forgotten
  <2>2. j \in DOMAIN requests
    BY <2>1, RowFacts
  <2> QED  BY <2>2, RowFacts DEF Coming
<1>2. Reason
  BY DEF Forgotten, Reason
<1> HIDE DEF j
<1>3. r.bare \in BOOLEAN /\ HeaderAt(r) \in Nat /\ ConnectionAt(r) \in Nat
  <2>1. HeaderAt(r) \in {7, 9}
    BY <1>1, WireIs
  <2>2. HeaderAt(r) \in Nat
    BY <2>1
  <2> QED  BY <1>1, <2>2, RequestFields DEF ConnectionAt
<1>4. /\ r.bare => HasAt(Wire(r), HeaderAt(r), BareLine \o crlf_)
      /\ r.connection # "none" =>
            (~r.bare => /\ HasAt(Wire(r), HeaderAt(r), ConnectionLine(r) \o crlf_)
                        /\ HasAt(Wire(r), ConnectionAt(r), crlf_))
      /\ r.connection = "none" => (~r.bare => HasAt(Wire(r), HeaderAt(r), crlf_))
  BY <1>1, WireIs
<1>5. CASE Place = requests[j].begin + HeaderAt(r)
  BY <1>1, <1>2, <1>3, <1>4, <1>5, RefusedAhead
<1>6. CASE /\ ~r.bare /\ r.connection # "none"
           /\ Place = requests[j].begin + ConnectionAt(r)
  BY <1>1, <1>2, <1>3, <1>4, <1>6, RefusedAhead
<1> QED  BY <1>1, <1>5, <1>6 DEF Forgotten

\* parse_request cannot go on when less than a CRLF is left.
LEMMA NothingAhead ==
    ASSUME InARow(requests), responses \in Seq(Responses), Serving, Len(Text) <= 1
    PROVE  ~parse_request
<1>1. /\ input_buffer_ \in Texts /\ Len(input_buffer_) \in Nat /\ Len(inbox) \in Nat
      /\ Len(outgoing) \in Nat /\ Len(Text) = Len(input_buffer_) + (Len(inbox) + Len(outgoing))
  BY ServingFacts
<1>2. Len(input_buffer_) <= 1
  BY <1>1
<1>3. find_CRLF(input_buffer_) = 0
  BY <1>1, <1>2, NoLine
<1> QED  BY <1>3 DEF parse_request

\* Behind a request that has left something in input_buffer_.
LEMMA BehindRest ==
    ASSUME InARow(requests), responses \in Seq(Responses), Serving, parse_request,
           IsContext(context), context.state_ = "EXPECT_REQUESR_LINE", RestFollowed,
           Answered > 0, LeavesRest(requests[Answered].what), Place = AnsweredAt(Answered)
    PROVE  Serving' /\ UNCHANGED <<conn, requests, responses, split>>
<1> DEFINE n == Answered
           r == requests[n].what
           e == EndOf(requests, Len(requests))
<1>1. /\ n \in Nat /\ n > 0 /\ n <= Len(requests) /\ Len(requests) \in Nat
      /\ DOMAIN requests = 1 .. Len(requests)
  BY ServingFacts, RowFacts
<1>2. /\ n \in DOMAIN requests /\ r \in Requests /\ requests[n].begin \in Nat
      /\ requests[n].end = requests[n].begin + Len(Wire(r))
  <2>1. n \in DOMAIN requests
    BY <1>1
  <2> QED  BY <2>1, RowFacts
<1>3. Reason
  <2>1. split \/ Answered < Len(requests)
    BY DEF RestFollowed
  <2> QED  BY <1>2, <2>1 DEF Reason
<1>4. Place = requests[n].begin + AnswerAt(r)
  BY <1>1 DEF AnsweredAt
<1>5. LeavesRest(r)
  OBVIOUS
<1> HIDE DEF n
<1>6. r.bare \in BOOLEAN /\ AnswerAt(r) \in Nat
  <2>1. HeaderAt(r) \in {7, 9}
    BY <1>2, WireIs
  <2>2. HeaderAt(r) \in Nat
    BY <2>1
  <2> QED  BY <1>2, <2>2, RequestFields DEF ConnectionAt, AnswerAt
<1>7. CASE r.bare
  <2>1. \/ HasAt(Wire(r), AnswerAt(r), crlf_)
        \/ HasAt(Wire(r), AnswerAt(r), ConnectionLine(r) \o crlf_)
    BY <1>2, <1>7, WireIs
  <2> QED  BY <1>2, <1>3, <1>4, <1>6, <2>1, RefusedAhead
<1>8. CASE ~r.bare
  <2>1. r.body
    BY <1>5, <1>8 DEF LeavesRest
  <2>2. Len(Wire(r)) = AnswerAt(r) + 1 /\ HasAt(Wire(r), AnswerAt(r), <<"body">>)
    BY <1>2, <1>8, <2>1, WireIs
  <2>3. requests[n].end = Place + 1 /\ Place \in Nat /\ Place + Len(Text) = e /\ Len(Text) \in Nat
    <3>1. Place \in Nat /\ Place + Len(Text) = e /\ Text \in Seq(Tokens)
      BY ServingFacts DEF Texts
    <3>2. Len(Text) \in Nat
      BY <3>1, LenProperties
    <3>3. requests[n].end = (requests[n].begin + AnswerAt(r)) + 1
      BY <1>2, <1>6, <2>2
    <3> QED  BY <1>4, <3>1, <3>2, <3>3
  <2>4. CASE n = Len(requests)
    <3>1. e = requests[n].end
      BY <1>1, <2>4 DEF EndOf
    <3>2. Len(Text) <= 1
      BY <2>3, <3>1
    <3> QED  BY <3>2, NothingAhead
  <2>5. CASE n # Len(requests)
    <3> DEFINE r2 == requests[n + 1].what
               a == <<"body">>
               b == RequestLine(r2)
               c == b \o crlf_
    <3>1. /\ n + 1 \in DOMAIN requests /\ r2 \in Requests
          /\ requests[n + 1].begin = Place + 1
      <4>1. n + 1 \in DOMAIN requests /\ n + 1 > 1 /\ (n + 1) - 1 = n
        <5>1. n \in Nat /\ n > 0 /\ n <= Len(requests) /\ Len(requests) \in Nat /\ n # Len(requests)
          BY <1>1, <2>5
        <5>2. n + 1 \in 1 .. Len(requests) /\ n + 1 > 1 /\ (n + 1) - 1 = n
          BY <5>1
        <5> QED  BY <1>1, <5>2
      <4>2. requests[n + 1].begin = requests[n].end
        BY <4>1, RowFacts
      <4> QED  BY <2>3, <4>1, <4>2, RowFacts
    <3>2. a \in Texts /\ Len(a) = 1 /\ b \in Texts /\ crlf_ \in Texts /\ c \in Texts
      BY <3>1, BareLineIs, RequestLineIs, LineIsText
    <3>3. HasAt(Text, 0, a)
      BY <1>2, <1>4, <1>6, <2>2, <3>2, LineAhead
    <3>4. HasAt(Wire(r2), 0, c)
      BY <3>1, WireIs
    <3> HIDE DEF a, c, r2
    <3>5. HasAt(Text, 0 + Len(a), c)
      <4>1. IsRest(Text, Place, requests) /\ 0 \in Nat
        BY DEF Serving
      <4>2. Place <= requests[n + 1].begin + 0 /\ (requests[n + 1].begin + 0) - Place = 1
            /\ 0 + Len(a) = 1
        BY <2>3, <3>1, <3>2
      <4>3. HasAt(Text, (requests[n + 1].begin + 0) - Place, c)
        BY <3>1, <3>2, <3>4, <4>1, <4>2, StandsAhead DEF r2
      <4> QED  BY <4>2, <4>3
    <3>6. HasAt(Text, 0, a \o c)
      <4>1. Text \in Texts /\ 0 \in Nat
        BY ServingFacts
      <4> QED  BY <3>2, <3>3, <3>5, <4>1, StandJoined
    <3>7. a \o c = (a \o b) \o crlf_
      BY <3>2, Regrouped DEF c
    <3>8. /\ a \o b \in Texts /\ \A i \in 1 .. Len(a \o b) : (a \o b)[i] # "CR"
          /\ process_request_line(a \o b) = Http_Request
      BY <3>1, BodyLine DEF a
    <3> QED  BY <1>3, <3>6, <3>7, <3>8, RefusedStep
  <2> QED  BY <2>4, <2>5
<1> QED  BY <1>6, <1>7, <1>8

LEMMA Successor ==
    ASSUME NEW n \in Nat, NEW m \in Nat, n <= m, n # m
    PROVE  n + 1 \in 1 .. m /\ (n + 1) - 1 = n /\ n < m
OBVIOUS

\* At the beginning of a request: its request line.
LEMMA AtNext ==
    ASSUME InARow(requests), responses \in Seq(Responses), Serving, parse_request,
           IsContext(context), context.state_ = "EXPECT_REQUESR_LINE", context.ok,
           context.has_more,
           Answered > 0 => ~LeavesRest(requests[Answered].what), Place = AnsweredAt(Answered)
    PROVE  Serving' /\ UNCHANGED <<conn, requests, responses, split>>
<1> DEFINE n == Answered
           j == n + 1
           r == requests[j].what
           line == RequestLine(r)
<1>1. /\ n \in Nat /\ n <= Len(requests) /\ Len(requests) \in Nat
      /\ DOMAIN requests = 1 .. Len(requests)
  BY ServingFacts, RowFacts
<1>2. Place = EndOf(requests, n)
  <2>1. CASE n = 0
    BY <2>1 DEF AnsweredAt, EndOf
  <2>2. CASE n # 0
    <3>1. n \in DOMAIN requests /\ n > 0
      BY <1>1, <2>2
    <3>2. Len(Wire(requests[n].what)) = AnswerAt(requests[n].what)
      BY <3>1, RowFacts, WireIs
    <3>3. requests[n].end = requests[n].begin + AnswerAt(requests[n].what)
      BY <3>1, <3>2, RowFacts
    <3> QED  BY <2>2, <3>3 DEF AnsweredAt, EndOf
  <2> QED  BY <2>1, <2>2
<1>3. n # Len(requests)
  <2> SUFFICES ASSUME n = Len(requests) PROVE FALSE
    OBVIOUS
  <2>1. Place \in Nat /\ Place + Len(Text) = Place /\ Text \in Seq(Tokens)
    BY <1>2, ServingFacts DEF Texts
  <2>2. Len(Text) \in Nat
    BY <2>1, LenProperties
  <2>3. Len(Text) <= 1
    BY <2>1, <2>2
  <2> QED  BY <2>3, NothingAhead
<1>4. j \in DOMAIN requests /\ j - 1 = n /\ n < Len(requests)
  <2>1. j \in 1 .. Len(requests) /\ j - 1 = n /\ n < Len(requests)
    BY <1>1, <1>3, Successor
  <2> QED  BY <1>1, <2>1
<1>5. r \in Requests /\ requests[j].begin = Place /\ Coming = requests[j]
  <2>1. requests[j].begin = EndOf(requests, j - 1)
    BY <1>4 DEF InARow
  <2> QED  BY <1>2, <1>4, <2>1, RowFacts DEF Coming
<1> HIDE DEF j, n
<1>6. line \in Texts /\ \A i \in 1 .. Len(line) : line[i] # "CR"
  BY <1>5, RequestLineIs
<1>7. HasAt(Text, 0, line \o crlf_)
  <2>1. HasAt(Wire(r), 0, line \o crlf_)
    BY <1>5, WireIs
  <2>2. line \o crlf_ \in Texts
    BY <1>6, LineIsText
  <2>3. Place \in Nat
    BY ServingFacts
  <2>4. 0 \in Nat /\ Place = requests[j].begin + 0
    BY <1>5, <2>3
  <2> QED  BY <1>4, <2>1, <2>2, <2>4, LineAhead
<1>8. CASE Malformed(r)
  <2>1. process_request_line(line) = Http_Request
    BY <1>5, <1>8, TakesRequestLine
  <2>2. Reason
    BY <1>4, <1>8 DEF Reason
  <2> QED  BY <1>6, <1>7, <2>1, <2>2, RefusedStep
<1>9. CASE ~Malformed(r)
  <2> DEFINE q == process_request_line(line)
  <2>1. q.method # "INVALID" /\ Parsed(q, r, FALSE)
    BY <1>5, <1>9, TakesRequestLine
  <2>2. /\ context' = parse_line(context, line)
        /\ input_buffer_' \in Texts /\ inbox' \in Texts /\ outgoing' \in Texts
        /\ IsRest(Text', Place', requests') /\ SplitAgrees'
        /\ context'.ok => Place' = Place + (Len(line) + 2)
        /\ UNCHANGED <<conn, requests, responses, split>>
    BY <1>6, <1>7, TakesLine
  <2>3. /\ IsContext(context') /\ context'.state_ = "EXPECT_HEADERS" /\ context'.request_ = q
        /\ context'.ok = context.ok /\ context'.has_more = context.has_more
    <3>1. q.method # "INVALID"
      BY <2>1
    <3> HIDE DEF line, r
    <3>2. ContextIs(context', "EXPECT_HEADERS", q, context.ok, context.has_more)
      BY <2>2, <3>1, ParsesRequestLine
    <3> HIDE DEF q
    <3> QED  BY <3>2, ContextParts
  <2> HIDE DEF q
  <2>4. /\ context'.ok /\ context'.has_more
    BY <2>3
  <2>5. Place' = Place + HeaderAt(r)
    BY <2>2, <2>4 DEF HeaderAt
  <2>6. Answered' = Answered /\ Coming' = Coming /\ requests' = requests
    BY <2>2 DEF Answered, Coming
  <2>7. InHeader'
    <3>1. Parsed(context'.request_, r, FALSE) /\ Coming'.what = r /\ Coming'.begin = Place
      BY <1>5, <2>1, <2>3, <2>6
    <3>2. Place' = Coming'.begin + HeaderAt(Coming'.what)
      BY <2>5, <3>1
    <3> QED  BY <1>4, <1>9, <2>3, <2>4, <2>6, <3>1, <3>2 DEF InHeader, n
  <2>8. context' # NoContext
    BY <2>3, IsNoContext
  <2>9. Cursor'
    BY <2>3, <2>7, <2>8 DEF Cursor, NoContext
  <2>10. (Answered <= Len(requests))'
    BY <2>6 DEF Serving
  <2> QED  BY <2>2, <2>9, <2>10 DEF Serving
<1> QED  BY <1>8, <1>9

\* A line that ends the header.
LEMMA HeaderEnds ==
    ASSUME InARow(requests), responses \in Seq(Responses), Serving, parse_request,
           IsContext(context), context.state_ = "EXPECT_HEADERS", context.ok,
           Answered < Len(requests),
           Parsed(context.request_, Coming.what,
                  ~Coming.what.bare /\ Coming.what.connection # "none"),
           NEW o \in Nat, Place = Coming.begin + o,
           NEW line \in Texts, \A i \in 1 .. Len(line) : line[i] # "CR" /\ line[i] # ":",
           HasAt(Wire(Coming.what), o, line \o crlf_),
           AnswerAt(Coming.what) = o + (Len(line) + 2)
    PROVE  Serving' /\ UNCHANGED <<conn, requests, responses, split>>
<1> DEFINE j == Answered + 1
           r == Coming.what
           colon == find(line, 1, Len(line) + 1, ":")
           q == context.request_
<1>1. /\ Answered \in Nat /\ j # 0 /\ Len(line) \in Nat
      /\ j \in DOMAIN requests /\ Coming = requests[j] /\ Coming.begin \in Nat
  <2>1. Answered \in Nat /\ Answered <= Len(requests) /\ Len(requests) \in Nat
    BY ServingFacts, RowFacts
  <2>2. Answered # Len(requests)
    BY <2>1
  <2>3. j \in DOMAIN requests
    BY <2>1, <2>2, Successor, RowFacts
  <2>4. j # 0
    BY <2>1
  <2>5. Len(line) \in Nat
    BY LenProperties DEF Texts
  <2>6. Coming = requests[j]
    BY DEF Coming
  <2>7. Coming.begin \in Nat
    BY <2>3, <2>6, RowFacts
  <2> QED  BY <2>1, <2>3, <2>4, <2>5, <2>6, <2>7
<1>2. HasAt(Text, 0, line \o crlf_)
  <2>1. line \o crlf_ \in Texts
    BY LineIsText
  <2> QED  BY <1>1, <2>1, LineAhead
<1>3. /\ context' = parse_line(context, line)
      /\ input_buffer_' \in Texts /\ inbox' \in Texts /\ outgoing' \in Texts
      /\ IsRest(Text', Place', requests') /\ SplitAgrees'
      /\ context'.ok => Place' = Place + (Len(line) + 2)
      /\ UNCHANGED <<conn, requests, responses, split>>
  BY <1>2, TakesLine
<1>4. colon = Len(line) + 1 /\ colon \in Nat /\ ~(colon <= Len(line))
  <2>1. colon = Len(line) + 1
    BY EndsHeader
  <2> HIDE DEF colon
  <2> QED  BY <1>1, <2>1
<1>5. ContextIs(context', "GOT_ALL", q, context.ok, FALSE)
  <2>1. ContextIs(parse_line(context, line), "GOT_ALL", q, context.ok, FALSE)
    BY <1>4, ParsesHeader
  <2> QED  BY <1>3, <2>1
<1> HIDE DEF colon, q
<1>6. /\ IsContext(context') /\ context'.state_ = "GOT_ALL" /\ context'.request_ = q
      /\ context'.ok = context.ok /\ context'.has_more = FALSE
  BY <1>5, ContextParts
<1>7. Place' = Coming.begin + AnswerAt(r)
  <2>1. context'.ok
    BY <1>6
  <2>2. Place' = (Coming.begin + o) + (Len(line) + 2)
    BY <1>3, <2>1
  <2>3. \A b, m \in Nat : (b + o) + (m + 2) = b + (o + (m + 2))
    OBVIOUS
  <2> QED  BY <1>1, <2>2, <2>3, Zenon
<1>8. Answered' = Answered /\ Coming' = Coming /\ requests' = requests
  BY <1>3 DEF Answered, Coming
<1>9. Place' = AnsweredAt(Answered + 1)'
  <2>1. AnsweredAt(Answered + 1)' = requests[j].begin + AnswerAt(requests[j].what)
    BY <1>1, <1>8 DEF AnsweredAt
  <2> QED  BY <1>1, <1>7, <2>1
<1>10. GotAll'
  <2>1. Parsed(context'.request_, Coming'.what,
               ~Coming'.what.bare /\ Coming'.what.connection # "none")
    BY <1>6, <1>8 DEF q
  <2> QED  BY <1>6, <1>8, <1>9, <2>1 DEF GotAll
<1>11. context' # NoContext
  BY <1>6, IsNoContext
<1>12. Cursor'
  BY <1>6, <1>10, <1>11 DEF Cursor, NoContext
<1>13. (Answered <= Len(requests))'
  BY <1>8 DEF Serving
<1> QED  BY <1>3, <1>12, <1>13 DEF Serving

\* In the header of a request.
LEMMA InHeaderStep ==
    ASSUME InARow(requests), responses \in Seq(Responses), Serving, parse_request,
           IsContext(context), InHeader
    PROVE  Serving' /\ UNCHANGED <<conn, requests, responses, split>>
<1> DEFINE j == Answered + 1
           r == Coming.what
           seen == ~Coming.what.bare /\ Coming.what.connection # "none"
<1>1. j \in DOMAIN requests /\ Coming = requests[j] /\ Coming.begin \in Nat /\ r \in Requests
  <2>1. Answered \in Nat /\ Answered <= Len(requests) /\ Len(requests) \in Nat
    BY ServingFacts, RowFacts
  <2>2. Answered # Len(requests)
    BY <2>1 DEF InHeader
  <2>3. j \in DOMAIN requests
    BY <2>1, <2>2, Successor, RowFacts
  <2> QED  BY <2>3, RowFacts DEF Coming
<1>2. /\ context.state_ = "EXPECT_HEADERS" /\ context.ok /\ context.has_more
      /\ Answered < Len(requests) /\ ~Malformed(r)
  BY DEF InHeader
<1>3. r.bare \in BOOLEAN /\ HeaderAt(r) \in Nat /\ ConnectionAt(r) \in Nat
  <2>1. HeaderAt(r) \in {7, 9}
    BY <1>1, WireIs
  <2>2. HeaderAt(r) \in Nat
    BY <2>1
  <2> QED  BY <1>1, <2>2, RequestFields DEF ConnectionAt
<1>4. /\ BareLine \in Texts /\ Len(BareLine) = 1 /\ <<>> \in Texts /\ Len(<<>>) = 0
      /\ \A i \in 1 .. Len(<<>>) : <<>>[i] # "CR" /\ <<>>[i] # ":"
      /\ \A i \in 1 .. Len(BareLine) : BareLine[i] # "CR" /\ BareLine[i] # ":"
      /\ <<>> \o crlf_ = crlf_
  BY BareLineIs, EmptyLine
<1>5. CASE /\ Place = Coming.begin + HeaderAt(r) /\ Parsed(context.request_, r, FALSE)
           /\ r.bare
  <2>1. HasAt(Wire(r), HeaderAt(r), BareLine \o crlf_)
    BY <1>1, <1>5, WireIs
  <2>2. AnswerAt(r) = HeaderAt(r) + (Len(BareLine) + 2)
    BY <1>3, <1>4, <1>5 DEF AnswerAt
  <2>3. Parsed(context.request_, r, seen)
    BY <1>5
  <2> QED  BY <1>1, <1>2, <1>3, <1>4, <1>5, <2>1, <2>2, <2>3, HeaderEnds
<1>6. CASE /\ Place = Coming.begin + HeaderAt(r) /\ Parsed(context.request_, r, FALSE)
           /\ ~r.bare /\ r.connection = "none"
  <2> DEFINE line == <<>>
  <2>1. HasAt(Wire(r), HeaderAt(r), crlf_)
    BY <1>1, <1>6, WireIs
  <2>2. /\ line \in Texts /\ Len(line) = 0
        /\ \A i \in 1 .. Len(line) : line[i] # "CR" /\ line[i] # ":"
        /\ HasAt(Wire(r), HeaderAt(r), line \o crlf_)
    BY <1>4, <2>1, Zenon
  <2> HIDE DEF line
  <2>3. AnswerAt(r) = HeaderAt(r) + (Len(line) + 2)
    BY <1>3, <1>6, <2>2 DEF AnswerAt
  <2>4. Parsed(context.request_, r, seen)
    BY <1>6
  <2> QED  BY <1>1, <1>2, <1>3, <1>6, <2>2, <2>3, <2>4, HeaderEnds
<1>7. CASE /\ Place = Coming.begin + ConnectionAt(r) /\ Parsed(context.request_, r, TRUE)
           /\ ~r.bare /\ r.connection # "none"
  <2> DEFINE line == <<>>
  <2>1. HasAt(Wire(r), ConnectionAt(r), crlf_)
    BY <1>1, <1>7, WireIs
  <2>2. /\ line \in Texts /\ Len(line) = 0
        /\ \A i \in 1 .. Len(line) : line[i] # "CR" /\ line[i] # ":"
        /\ HasAt(Wire(r), ConnectionAt(r), line \o crlf_)
    BY <1>4, <2>1, Zenon
  <2> HIDE DEF line
  <2>3. AnswerAt(r) = ConnectionAt(r) + (Len(line) + 2)
    BY <1>3, <1>7, <2>2 DEF AnswerAt
  <2>4. Parsed(context.request_, r, seen)
    BY <1>7
  <2> QED  BY <1>1, <1>2, <1>3, <1>7, <2>2, <2>3, <2>4, HeaderEnds
<1>8. CASE /\ Place = Coming.begin + HeaderAt(r) /\ Parsed(context.request_, r, FALSE)
           /\ ~r.bare /\ r.connection # "none"
  <2> DEFINE line == ConnectionLine(r)
             q == add_header(context.request_, line, 2)
  <2>1. line \in Texts /\ Len(line) = 5 /\ \A i \in 1 .. Len(line) : line[i] # "CR"
    BY <1>1, ConnectionLineIs
  <2>2. HasAt(Text, 0, line \o crlf_)
    <3>1. HasAt(Wire(r), HeaderAt(r), line \o crlf_)
      BY <1>1, <1>8, WireIs
    <3>2. line \o crlf_ \in Texts
      BY <2>1, LineIsText
    <3> QED  BY <1>1, <1>3, <1>8, <3>1, <3>2, LineAhead
  <2>3. /\ context' = parse_line(context, line)
        /\ input_buffer_' \in Texts /\ inbox' \in Texts /\ outgoing' \in Texts
        /\ IsRest(Text', Place', requests') /\ SplitAgrees'
        /\ context'.ok => Place' = Place + (Len(line) + 2)
        /\ UNCHANGED <<conn, requests, responses, split>>
    BY <2>1, <2>2, TakesLine
  <2>4. find(line, 1, Len(line) + 1, ":") = 2 /\ Parsed(q, r, TRUE)
    BY <1>1, <1>8, AddsHeader
  <2>5. ContextIs(context', "EXPECT_HEADERS", q, context.ok, context.has_more)
    <3>1. 2 \in Nat /\ 2 <= Len(line)
      BY <2>1
    <3>2. ContextIs(parse_line(context, line), context.state_, q, context.ok, context.has_more)
      <4> HIDE DEF line
      <4> QED  BY <1>2, <2>1, <2>4, <3>1, ParsesHeader
    <3> QED  BY <1>2, <2>3, <3>2
  <2> HIDE DEF q
  <2>6. /\ IsContext(context') /\ context'.state_ = "EXPECT_HEADERS" /\ context'.request_ = q
        /\ context'.ok = context.ok /\ context'.has_more = context.has_more
    BY <2>5, ContextParts
  <2>7. context'.ok /\ context'.has_more
    BY <1>2, <2>6
  <2>8. Place' = Coming.begin + ConnectionAt(r)
    <3>1. Place' = (Coming.begin + HeaderAt(r)) + 7
      BY <1>1, <1>3, <1>8, <2>1, <2>3, <2>7
    <3> QED  BY <1>1, <1>3, <3>1 DEF ConnectionAt
  <2>9. Answered' = Answered /\ Coming' = Coming /\ requests' = requests
    BY <2>3 DEF Answered, Coming
  <2>10. InHeader'
    BY <1>2, <1>8, <2>4, <2>6, <2>7, <2>8, <2>9 DEF InHeader
  <2>11. context' # NoContext
    BY <2>6, IsNoContext
  <2>12. Cursor'
    BY <2>6, <2>10, <2>11 DEF Cursor, NoContext
  <2>13. (Answered <= Len(requests))'
    BY <2>9 DEF Serving
  <2> QED  BY <2>3, <2>12, <2>13 DEF Serving
<1> QED  BY <1>3, <1>5, <1>6, <1>7, <1>8 DEF InHeader

\* parse_request, wherever the parser is.
LEMMA ParseRequest ==
    ASSUME InARow(requests), responses \in Seq(Responses), Serving, parse_request
    PROVE  Serving'
<1>1. context.has_more
  BY DEF parse_request
<1>2. context # NoContext
  BY <1>1 DEF NoContext
<1>3. IsContext(context) /\ (AtRequestLine \/ InHeader \/ GotAll \/ Refused)
  BY <1>2 DEF Serving, Cursor
<1>4. ~GotAll /\ ~Refused
  BY <1>1 DEF GotAll, Refused
<1>5. CASE InHeader
  BY <1>3, <1>5, InHeaderStep
<1>6. CASE AtRequestLine
  <2>1. /\ context.state_ = "EXPECT_REQUESR_LINE" /\ context.ok /\ context.has_more
        /\ RestFollowed
    BY <1>6 DEF AtRequestLine
  <2>2. Place = AnsweredAt(Answered) \/ Forgotten
    BY <1>6 DEF AtRequestLine, Between
  <2>3. CASE Forgotten
    BY <1>3, <2>1, <2>3, AtForgotten
  <2>4. CASE Place = AnsweredAt(Answered)
    <3>1. CASE Answered > 0 /\ LeavesRest(requests[Answered].what)
      BY <1>3, <2>1, <2>4, <3>1, BehindRest
    <3>2. CASE ~(Answered > 0 /\ LeavesRest(requests[Answered].what))
      BY <1>3, <2>1, <2>4, <3>2, AtNext
    <3> QED  BY <3>1, <3>2
  <2> QED  BY <2>2, <2>3, <2>4
<1> QED  BY <1>3, <1>4, <1>5, <1>6

-----------------------------------------------------------------------------
(* The other steps.                                                        *)

\* A step that changes neither the stream nor what the parser sees of it.
LEMMA ServingKept ==
    ASSUME Serving, SameStream, UNCHANGED context, inbox' \in Texts, outgoing' \in Texts
    PROVE  Serving'
<1>1. /\ Text' = Text /\ Place' = Place /\ Answered' = Answered
      /\ SplitAgrees' = SplitAgrees /\ Reason' = Reason /\ Between' = Between
      /\ \A k : AnsweredAt(k)' = AnsweredAt(k)
  BY StreamKept
<1>2. requests' = requests /\ responses' = responses /\ split' = split /\ context' = context
      /\ input_buffer_' = input_buffer_
  BY DEF SameStream
<1>3. Coming' = Coming /\ RestFollowed' = RestFollowed
  BY <1>1, <1>2 DEF Coming, RestFollowed
<1>4. GotAll' = GotAll
  <2>1. AnsweredAt(Answered + 1)' = AnsweredAt(Answered + 1)
    BY <1>1, <1>2 DEF AnsweredAt
  <2> QED  BY <1>1, <1>2, <1>3, <2>1 DEF GotAll
<1>5. AtRequestLine' = AtRequestLine /\ InHeader' = InHeader /\ Refused' = Refused
  BY <1>1, <1>2, <1>3 DEF AtRequestLine, InHeader, Refused
<1>6. Cursor' = Cursor
  BY <1>1, <1>2, <1>4, <1>5 DEF Cursor
<1> QED  BY <1>1, <1>2, <1>6 DEF Serving

\* What the client has been told, and why, is kept with it.
LEMMA AnswersKept ==
    ASSUME UNCHANGED <<requests, responses, split>>
    PROVE  /\ AnswersInOrder' = AnswersInOrder /\ RefusedForAReason' = RefusedForAReason
           /\ FramedOrLast' = FramedOrLast
  BY DEF AnswersInOrder, RefusedForAReason, FramedOrLast

\* Steps of the connection alone.
LEMMA ConnectionStep ==
    ASSUME HttpInv, SameStream, UNCHANGED context, conn' \in Conn,
           inbox' \in Texts, outgoing' \in Texts,
           conn'.state_ = "k_connected" => conn.state_ = "k_connected"
    PROVE  HttpInv'
<1>1. requests' = requests /\ responses' = responses
  BY DEF SameStream
<1>2. Serving => Serving'
  BY ServingKept
<1>3. /\ AnswersInOrder' = AnswersInOrder /\ RefusedForAReason' = RefusedForAReason
      /\ FramedOrLast' = FramedOrLast
  BY AnswersKept DEF SameStream
<1> QED  BY <1>1, <1>2, <1>3 DEF HttpInv

\* The socket of a connection.
LEMMA SocketChanges ==
    ASSUME NEW x \in Conn
    PROVE  /\ \A n \in Nat : [x EXCEPT !.inq = n] \in Conn /\ [x EXCEPT !.inq = n].state_ = x.state_
           /\ [x EXCEPT !.room = @ + 1] \in Conn /\ [x EXCEPT !.room = @ + 1].state_ = x.state_
           /\ \A p \in Peers :
                [x EXCEPT !.peer = p] \in Conn /\ [x EXCEPT !.peer = p].state_ = x.state_
           /\ [x EXCEPT !.so_error = TRUE] \in Conn
           /\ [x EXCEPT !.so_error = TRUE].state_ = x.state_
<1>1. \A n \in Nat : [x EXCEPT !.inq = n] \in Conn /\ [x EXCEPT !.inq = n].state_ = x.state_
  BY DEF Conn
<1>2. [x EXCEPT !.room = @ + 1] \in Conn /\ [x EXCEPT !.room = @ + 1].state_ = x.state_
  <2>1. x.room + 1 \in Nat
    BY DEF Conn
  <2>2. \A n \in Nat : [x EXCEPT !.room = n] \in Conn /\ [x EXCEPT !.room = n].state_ = x.state_
    BY DEF Conn
  <2> QED  BY <2>1, <2>2, Zenon
<1>3. \A p \in Peers : [x EXCEPT !.peer = p] \in Conn /\ [x EXCEPT !.peer = p].state_ = x.state_
  BY DEF Conn
<1>4. [x EXCEPT !.so_error = TRUE] \in Conn /\ [x EXCEPT !.so_error = TRUE].state_ = x.state_
  BY DEF Conn
<1> QED  BY <1>1, <1>2, <1>3, <1>4

\* poll, the callbacks that do not read, and what the client does to the socket.
LEMMA OtherSteps ==
    ASSUME HttpInv, poll \/ event \/ destroyed \/ client_reads \/ client_closes \/ client_resets
    PROVE  HttpInv'
<1>1. conn \in Conn /\ "nothing" \in CallbackChoices
  BY DEF HttpInv, CallbackChoices
<1>2. SameStream /\ UNCHANGED <<context, inbox, outgoing>>
  BY DEF poll, event, destroyed, client_reads, client_closes, client_resets, http, SameStream, Text
<1>3. conn' \in Conn /\ (conn'.state_ = "k_connected" => conn.state_ = "k_connected")
  <2>1. CASE poll
    BY <1>1, <2>1 DEF poll
  <2>2. CASE event
    <3>1. CASE conn' = handle_close(conn, "nothing")
      <4>1. handle_close(conn, "nothing") \in Conn
            /\ handle_close(conn, "nothing").state_ # "k_connected"
        BY <1>1, HandleClose
      <4> QED  BY <3>1, <4>1
    <3>2. CASE conn' = handle_error(conn)
      BY <1>1, <3>2, HandleError
    <3>3. CASE conn' = handle_write(conn)
      BY <1>1, <3>3, HandleWrite
    <3> QED  BY <2>2, <3>1, <3>2, <3>3 DEF event
  <2>3. CASE destroyed
    <3>1. connect_destroyed(conn, "nothing") \in Conn
          /\ connect_destroyed(conn, "nothing").state_ # "k_connected"
      BY <1>1, ConnectDestroyed
    <3> QED  BY <2>3, <3>1 DEF destroyed
  <2>4. CASE client_reads
    BY <1>1, <2>4, SocketChanges DEF client_reads
  <2>5. CASE client_closes
    BY <1>1, <2>5, SocketChanges DEF client_closes, Peers
  <2>6. CASE client_resets
    <3>1. "rst" \in Peers
      BY DEF Peers
    <3> DEFINE y == [conn EXCEPT !.peer = "rst"]
               z == [y EXCEPT !.so_error = TRUE]
    <3>2. y \in Conn /\ y.state_ = conn.state_
      BY <1>1, <3>1, SocketChanges
    <3>3. conn' = z
      BY <2>6 DEF client_resets
    <3> HIDE DEF y
    <3>4. z \in Conn /\ z.state_ = y.state_
      BY <3>2, SocketChanges
    <3> QED  BY <3>2, <3>3, <3>4
  <2> QED  BY <2>1, <2>2, <2>3, <2>4, <2>5, <2>6
<1>4. inbox' \in Texts /\ outgoing' \in Texts
  BY <1>2 DEF HttpInv
<1> QED  BY <1>2, <1>3, <1>4, ConnectionStep

\* The connection is established, and nothing was asked.
LEMMA HttpStarts ==
    ASSUME Init
    PROVE  HttpInv
<1> DEFINE x == [NewConnection EXCEPT !.peer = "open"]
<1>1. conn \in Conn
  <2>1. x \in Conn
    <3>1. NewConnection \in Conn
      BY ConnectionAssumption DEF NewConnection, Conn, States, Peers
    <3>2. "open" \in Peers
      BY DEF Peers
    <3> QED  BY <3>1, <3>2, SocketChanges
  <2>2. "nothing" \in CallbackChoices
    BY DEF CallbackChoices
  <2> HIDE DEF x
  <2>3. connect_established(x, "nothing") \in Conn
    BY <2>1, <2>2, ConnectEstablished
  <2> QED  BY <2>3 DEF Init, x
<1>2. /\ input_buffer_ = <<>> /\ inbox = <<>> /\ outgoing = <<>> /\ context = NoContext
      /\ requests = <<>> /\ responses = <<>> /\ received = 0
  BY DEF Init
<1>3. <<>> \in Texts /\ <<>> \o <<>> = <<>> /\ Len(<<>>) = 0
  BY DEF Texts
<1>4. Text = <<>> /\ Answered = 0 /\ Len(requests) = 0 /\ Place = 0
  BY <1>2, <1>3 DEF Text, Answered, Place, EndOf
<1>5. InARow(requests) /\ IsRest(Text, Place, requests) /\ SplitAgrees /\ Answered <= Len(requests)
  BY <1>2, <1>3, <1>4 DEF InARow, IsRest, SplitAgrees, EndOf
<1>6. Cursor
  BY <1>2, <1>4 DEF Cursor, Between, AnsweredAt
<1>7. Serving
  BY <1>2, <1>3, <1>5, <1>6 DEF Serving
<1>8. /\ AnswersInOrder /\ RefusedForAReason /\ FramedOrLast /\ responses \in Seq(Responses)
      /\ \A i \in DOMAIN responses : responses[i].content_length
  BY <1>2 DEF AnswersInOrder, RefusedForAReason, FramedOrLast
<1> QED  BY <1>1, <1>2, <1>3, <1>5, <1>7, <1>8 DEF HttpInv

\* A segment arrives: inbox and outgoing together stay what they were.
LEMMA SegmentStep ==
    ASSUME HttpInv, NEW n \in DOMAIN outgoing, segment_arrives(n)
    PROVE  HttpInv'
<1> DEFINE first == SubSeq(outgoing, 1, n)
           rest == Behind(outgoing, n)
<1>1. /\ inbox' = inbox \o first /\ outgoing' = rest /\ conn' = [conn EXCEPT !.inq = Len(inbox')]
      /\ UNCHANGED <<context, input_buffer_, requests, received, split, responses>>
  BY DEF segment_arrives, http
<1>2. inbox \in Texts /\ outgoing \in Texts /\ conn \in Conn
  BY DEF HttpInv
<1>3. Len(outgoing) \in Nat /\ n \in 1 .. Len(outgoing)
  BY <1>2, LenProperties DEF Texts
<1>4. first \in Texts /\ rest \in Texts /\ first \o rest = outgoing
  <2>1. /\ 1 \in 1 .. Len(outgoing) + 1 /\ n \in 1 - 1 .. Len(outgoing)
        /\ Len(outgoing) \in n .. Len(outgoing)
    BY <1>3
  <2>2. outgoing \in Seq(Tokens)
    BY <1>2 DEF Texts
  <2>3. SubSeq(outgoing, 1, n) \o SubSeq(outgoing, n + 1, Len(outgoing))
        = SubSeq(outgoing, 1, Len(outgoing))
    BY <2>1, <2>2, ConcatAdjacentSubSeq
  <2>4. SubSeq(outgoing, 1, Len(outgoing)) = outgoing
    BY <2>2, SubSeqFull
  <2>5. \A i \in 1 .. Len(outgoing) : outgoing[i] \in Tokens
    BY <2>2, ElementOfSeq
  <2>6. /\ 1 \in Int /\ n \in Int /\ n + 1 \in Int /\ Len(outgoing) \in Int
        /\ \A i \in 1 .. n : i \in 1 .. Len(outgoing)
        /\ \A i \in n + 1 .. Len(outgoing) : i \in 1 .. Len(outgoing)
    BY <1>3
  <2>7. SubSeq(outgoing, 1, n) \in Seq(Tokens)
    BY <2>5, <2>6, SubSeqProperties
  <2>8. SubSeq(outgoing, n + 1, Len(outgoing)) \in Seq(Tokens)
    BY <2>5, <2>6, SubSeqProperties
  <2> QED  BY <2>3, <2>4, <2>7, <2>8, Zenon DEF Behind, Texts
<1> HIDE DEF first, rest
<1>5. inbox' \in Texts /\ outgoing' \in Texts /\ Len(inbox') \in Nat
  <2>1. inbox \o first \in Texts
    BY <1>2, <1>4, Joined
  <2>2. inbox' \in Texts /\ outgoing' \in Texts
    BY <1>1, <1>4, <2>1
  <2> QED  BY <2>2, LenProperties DEF Texts
<1>6. inbox' \o outgoing' = inbox \o outgoing
  <2>1. (inbox \o first) \o rest = inbox \o (first \o rest)
    BY <1>2, <1>4, Regrouped, ZenonT(60)
  <2> QED  BY <1>1, <1>4, <2>1, Zenon
<1>7. SameStream
  BY <1>1, <1>6 DEF SameStream, Text
<1>8. conn' \in Conn /\ conn'.state_ = conn.state_
  BY <1>1, <1>2, <1>5, SocketChanges
<1> QED  BY <1>1, <1>5, <1>7, <1>8, ConnectionStep

-----------------------------------------------------------------------------
(* The client asks.                                                        *)

\* The requests lie one behind the other still.
LEMMA RowGrows ==
    ASSUME InARow(requests), NEW r \in Requests
    PROVE  LET reqs == Append(requests, Asked(r))
               n == Len(requests)
               e == EndOf(requests, n)
           IN  /\ InARow(reqs) /\ n \in Nat /\ Len(reqs) = n + 1 /\ e \in Nat
               /\ \A k \in 1 .. n : reqs[k] = requests[k]
               /\ reqs[n + 1].what = r /\ reqs[n + 1].begin = e
               /\ reqs[n + 1].line = e + HeaderAt(r) /\ reqs[n + 1].end = e + Len(Wire(r))
<1> DEFINE n == Len(requests)
           e == EndOf(requests, n)
           a == Asked(r)
           reqs == Append(requests, a)
<1>1. n \in Nat /\ e \in Nat /\ DOMAIN requests = 1 .. n /\ requests \in Seq(AskedRequests)
  BY RowFacts DEF InARow
<1>2. a = [what |-> r, begin |-> e, line |-> e + Len(RequestLine(r)) + 2, end |-> e + Len(Wire(r))]
  <2>1. requests = <<>> <=> n = 0
    BY <1>1, EmptySeq
  <2> QED  BY <2>1 DEF Asked, EndOf, Last
<1>3. Wire(r) \in Texts /\ HeaderAt(r) \in Nat /\ Len(RequestLine(r)) \in Nat
  <2>1. Wire(r) \in Texts /\ RequestLine(r) \in Texts
    BY WireIs, RequestLineIs
  <2>2. Len(RequestLine(r)) \in Nat
    BY <2>1, LenProperties DEF Texts
  <2> QED  BY <2>1, <2>2 DEF HeaderAt
<1>4. Len(Wire(r)) \in Nat
  BY <1>3, LenProperties DEF Texts
<1> HIDE DEF e
<1>5. /\ a \in AskedRequests /\ a.what = r /\ a.begin = e /\ a.end = e + Len(Wire(r))
      /\ a.line = e + HeaderAt(r) /\ a.line = a.begin + Len(RequestLine(r)) + 2
  <2>1. /\ e + Len(RequestLine(r)) + 2 = e + (Len(RequestLine(r)) + 2)
        /\ e + Len(RequestLine(r)) + 2 \in Nat /\ e + Len(Wire(r)) \in Nat
    BY <1>1, <1>3, <1>4
  <2> QED  BY <1>1, <1>2, <2>1 DEF AskedRequests, HeaderAt
<1> HIDE DEF a
<1>6. /\ reqs \in Seq(AskedRequests) /\ Len(reqs) = n + 1
      /\ \A k \in 1 .. n : reqs[k] = requests[k]
      /\ reqs[n + 1] = a
  BY <1>1, <1>5, AppendProperties
<1> HIDE DEF reqs
<1>7. DOMAIN reqs = 1 .. n + 1
  BY <1>6, LenProperties
<1>8. \A k \in 0 .. n : EndOf(reqs, k) = EndOf(requests, k)
  BY <1>1, <1>6 DEF EndOf
<1>9. ASSUME NEW j \in DOMAIN reqs
      PROVE  /\ reqs[j].begin = EndOf(reqs, j - 1)
             /\ reqs[j].line = reqs[j].begin + Len(RequestLine(reqs[j].what)) + 2
             /\ reqs[j].end = reqs[j].begin + Len(Wire(reqs[j].what))
  <2>1. CASE j = n + 1
    <3>1. EndOf(reqs, j - 1) = e
      <4>1. j - 1 = n /\ n \in 0 .. n
        BY <1>1, <2>1
      <4> QED  BY <1>8, <4>1 DEF e
    <3> QED  BY <1>5, <1>6, <2>1, <3>1
  <2>2. CASE j # n + 1
    <3>1. j \in 1 .. n /\ j - 1 \in 0 .. n
      BY <1>1, <1>7, <2>2
    <3>2. reqs[j] = requests[j] /\ EndOf(reqs, j - 1) = EndOf(requests, j - 1)
      BY <1>6, <1>8, <3>1
    <3> QED  BY <1>1, <3>1, <3>2 DEF InARow
  <2> QED  BY <2>1, <2>2
<1>10. ASSUME NEW j \in DOMAIN reqs, NEW k \in DOMAIN reqs, j < k
       PROVE  reqs[j].end <= reqs[k].begin
  <2>1. j \in 1 .. n /\ reqs[j] = requests[j]
    BY <1>1, <1>6, <1>7, <1>10
  <2>2. CASE k = n + 1
    BY <1>1, <1>5, <1>6, <2>1, <2>2, RowFacts DEF e
  <2>3. CASE k # n + 1
    <3>1. k \in 1 .. n /\ reqs[k] = requests[k]
      BY <1>1, <1>6, <1>7, <2>3
    <3> QED  BY <1>1, <1>10, <2>1, <3>1 DEF InARow
  <2> QED  BY <2>2, <2>3
<1>11. InARow(reqs)
  BY <1>6, <1>9, <1>10 DEF InARow
<1> QED  BY <1>1, <1>5, <1>6, <1>11 DEF reqs, a, e

\* What is ahead of the server grows by the request.
LEMMA RestGrows ==
    ASSUME NEW reqs, InARow(reqs), NEW more, InARow(more), NEW text, NEW p, IsRest(text, p, reqs),
           NEW r \in Requests, Len(more) = Len(reqs) + 1,
           \A k \in 1 .. Len(reqs) : more[k] = reqs[k],
           more[Len(reqs) + 1].what = r, more[Len(reqs) + 1].begin = EndOf(reqs, Len(reqs)),
           more[Len(reqs) + 1].end = EndOf(reqs, Len(reqs)) + Len(Wire(r))
    PROVE  /\ IsRest(text \o Wire(r), p, more)
           /\ EndOf(more, Len(more)) - Len(text \o Wire(r)) = p
<1> DEFINE n == Len(reqs)
           e == EndOf(reqs, n)
           w == Wire(r)
           t == text \o w
<1>1. n \in Nat /\ e \in Nat /\ DOMAIN reqs = 1 .. n /\ DOMAIN more = 1 .. n + 1
  BY RowFacts
<1>2. w \in Texts /\ text \in Texts /\ p \in Nat /\ Len(text) = e - p
  BY WireIs DEF IsRest
<1>3. /\ t \in Texts /\ Len(t) = Len(text) + Len(w) /\ Len(text) \in Nat /\ Len(w) \in Nat
      /\ \A i \in 1 .. Len(text) : t[i] = text[i]
      /\ \A i \in 1 .. Len(w) : t[Len(text) + i] = w[i]
  BY <1>2, Joined
<1>4. EndOf(more, Len(more)) = e + Len(w)
  BY <1>1 DEF EndOf
<1> HIDE DEF t, w, e
<1>5. Len(t) = (e + Len(w)) - p /\ (e + Len(w)) - Len(t) = p
  BY <1>1, <1>2, <1>3
<1>6. ASSUME NEW j \in DOMAIN more, NEW i \in 1 .. Len(Wire(more[j].what)), more[j].begin + i > p
      PROVE  t[more[j].begin + i - p] = Wire(more[j].what)[i]
  <2>1. CASE j = n + 1
    <3>1. more[j].what = r /\ more[j].begin = e
      BY <2>1 DEF e
    <3>2. Wire(more[j].what) = w /\ i \in 1 .. Len(w)
      BY <3>1 DEF w
    <3>3. e + i - p = Len(text) + i
      BY <1>1, <1>2, <3>2
    <3> QED  BY <1>3, <3>1, <3>2, <3>3
  <2>2. CASE j # n + 1
    <3>1. j \in 1 .. n /\ more[j] = reqs[j] /\ j \in DOMAIN reqs
      BY <1>1, <2>2
    <3>2. /\ reqs[j].begin \in Nat /\ reqs[j].what \in Requests
          /\ reqs[j].end = reqs[j].begin + Len(Wire(reqs[j].what)) /\ reqs[j].end <= e
      BY <3>1, RowFacts DEF e
    <3>3. Len(Wire(reqs[j].what)) \in Nat
      BY <3>2, WireIs, LenProperties DEF Texts
    <3> DEFINE k == reqs[j].begin + i - p
    <3>4. k \in 1 .. Len(text)
      BY <1>1, <1>2, <1>6, <3>1, <3>2, <3>3, SMTT(60)
    <3>5. text[k] = Wire(reqs[j].what)[i]
      BY <1>6, <3>1 DEF IsRest
    <3> HIDE DEF k
    <3>6. t[k] = text[k]
      BY <1>3, <3>4
    <3> QED  BY <3>1, <3>5, <3>6 DEF k
  <2> QED  BY <2>1, <2>2
<1>7. IsRest(t, p, more)
  BY <1>2, <1>3, <1>4, <1>5, <1>6 DEF IsRest
<1> QED  BY <1>4, <1>5, <1>7 DEF t, w

\* The parser is where it was, with one request more.
LEMMA CursorGrows ==
    ASSUME Answered \in Nat, Len(requests) \in Nat, Answered <= Len(requests), Cursor,
           UNCHANGED <<Place, context, split, responses>>,
           Len(requests') = Len(requests) + 1,
           \A k \in 1 .. Len(requests) : requests'[k] = requests[k],
           DOMAIN requests = 1 .. Len(requests), DOMAIN requests' = 1 .. Len(requests')
    PROVE  Cursor' /\ (Reason => Reason')
<1> DEFINE n == Answered
           m == Len(requests)
<1>1. Answered' = n /\ Place' = Place /\ context' = context /\ split' = split
  BY DEF Answered
<1>2. n <= Len(requests') /\ (n < m => n < Len(requests')) /\ n < Len(requests')
  BY <1>1
<1>3. n # 0 => n \in 1 .. m /\ requests'[n] = requests[n]
  OBVIOUS
<1>4. n < m => n + 1 \in 1 .. m /\ Coming' = Coming
  BY <1>1 DEF Coming
<1>5. AnsweredAt(Answered)' = AnsweredAt(Answered)
  BY <1>1, <1>3 DEF AnsweredAt
<1>6. Between => Between'
  <2>1. Forgotten => Forgotten'
    BY <1>1, <1>2, <1>4 DEF Forgotten
  <2> QED  BY <1>1, <1>5, <2>1 DEF Between
<1>7. RestFollowed'
  BY <1>1, <1>2 DEF RestFollowed
<1>8. Reason => Reason'
  <2>1. CASE split
    BY <1>1, <2>1 DEF Reason
  <2>2. ASSUME NEW i \in DOMAIN requests,
               \/ Malformed(requests[i].what)
               \/ LeavesRest(requests[i].what) /\ i < Len(requests)
        PROVE  Reason'
    <3>1. i \in 1 .. m /\ i \in DOMAIN requests' /\ requests'[i] = requests[i]
      OBVIOUS
    <3>2. i < m => i < Len(requests')
      BY <3>1
    <3> QED  BY <2>2, <3>1, <3>2 DEF Reason
  <2> QED  BY <2>1, <2>2 DEF Reason
<1> HIDE DEF n, m
<1>9. AtRequestLine => AtRequestLine'
  BY <1>1, <1>6, <1>7 DEF AtRequestLine
<1>10. InHeader => InHeader'
  BY <1>1, <1>2, <1>4 DEF InHeader, n, m
<1>11. GotAll => GotAll'
  <2>1. n < m => AnsweredAt(Answered + 1)' = AnsweredAt(Answered + 1)
    <3>1. n < m => requests'[n + 1] = requests[n + 1] /\ n + 1 # 0
      BY <1>4 DEF m, n
    <3> QED  BY <1>1, <3>1 DEF AnsweredAt, n
  <2> QED  BY <1>1, <1>2, <1>4, <2>1 DEF GotAll, n, m
<1>12. Refused => Refused'
  BY <1>1, <1>8 DEF Refused
<1> QED  BY <1>1, <1>6, <1>8, <1>9, <1>10, <1>11, <1>12 DEF Cursor, NoContext

\* client_asks.
LEMMA AskStep ==
    ASSUME HttpInv, NEW r \in Requests, client_asks(r)
    PROVE  HttpInv'
<1> DEFINE reqs == Append(requests, Asked(r))
           n == Len(requests)
           e == EndOf(requests, n)
           w == Wire(r)
<1>1. /\ requests' = reqs /\ outgoing' = outgoing \o w
      /\ UNCHANGED <<conn, context, inbox, input_buffer_, received, split, responses>>
  BY DEF client_asks, http
<1>2. /\ conn \in Conn /\ inbox \in Texts /\ outgoing \in Texts
      /\ InARow(requests) /\ responses \in Seq(Responses)
      /\ AnswersInOrder /\ RefusedForAReason
      /\ conn.state_ = "k_connected" =>
            Serving /\ \A i \in DOMAIN responses : responses[i].content_length
      /\ FramedOrLast
  BY DEF HttpInv
<1>3. /\ InARow(reqs) /\ n \in Nat /\ Len(reqs) = n + 1 /\ e \in Nat
      /\ \A k \in 1 .. n : reqs[k] = requests[k]
      /\ reqs[n + 1].what = r /\ reqs[n + 1].begin = e
      /\ reqs[n + 1].line = e + HeaderAt(r) /\ reqs[n + 1].end = e + Len(w)
  BY <1>2, RowGrows
<1> HIDE DEF reqs
<1>4. DOMAIN requests = 1 .. n /\ DOMAIN reqs = 1 .. n + 1
  BY <1>2, <1>3, RowFacts
<1>5. w \in Texts /\ outgoing' \in Texts
  <2>1. w \in Texts
    BY WireIs
  <2> HIDE DEF w
  <2> QED  BY <1>1, <1>2, <2>1, Joined
<1>6. AnswersInOrder'
  <2> SUFFICES ASSUME NEW i \in DOMAIN responses, responses[i].status # 400
               PROVE  i <= Len(reqs) /\ responses[i] = Expected(reqs[i].what)
    BY <1>1 DEF AnswersInOrder
  <2>1. i <= n /\ responses[i] = Expected(requests[i].what)
    BY <1>2 DEF AnswersInOrder
  <2>2. i \in 1 .. Len(responses) /\ Len(responses) \in Nat
    BY <1>2, LenProperties
  <2>3. i \in 1 .. n /\ i <= n + 1
    BY <1>3, <2>1, <2>2
  <2> QED  BY <1>3, <2>1, <2>3
<1>7. Reason => Reason'
  <2>1. CASE split
    BY <1>1, <2>1 DEF Reason
  <2>2. ASSUME NEW i \in DOMAIN requests,
               \/ Malformed(requests[i].what)
               \/ LeavesRest(requests[i].what) /\ i < Len(requests)
        PROVE  Reason'
    <3>1. i \in 1 .. n + 1 /\ reqs[i] = requests[i] /\ (i < n => i < n + 1)
      BY <1>3, <1>4
    <3> QED  BY <1>1, <1>3, <1>4, <2>2, <3>1 DEF Reason
  <2> QED  BY <2>1, <2>2 DEF Reason
<1>8. RefusedForAReason'
  BY <1>1, <1>2, <1>7 DEF RefusedForAReason, Reason
<1>9. FramedOrLast'
  BY <1>1, <1>2 DEF FramedOrLast
<1>10. ASSUME Serving PROVE Serving'
  <2>1. /\ input_buffer_ \in Texts /\ inbox \o outgoing \in Texts /\ Text \in Texts
        /\ Len(input_buffer_) \in Nat /\ Len(inbox) \in Nat /\ Len(outgoing) \in Nat
        /\ Len(Text) = Len(input_buffer_) + (Len(inbox) + Len(outgoing))
        /\ Place \in Nat /\ Place + Len(Text) = e
        /\ received = Place + Len(input_buffer_)
        /\ Answered \in Nat /\ Answered <= n
    BY <1>2, <1>10, ServingFacts
  <2>2. IsRest(Text, Place, requests) /\ SplitAgrees /\ Cursor
    BY <1>10 DEF Serving
  <2>3. Text' = Text \o w
    <3>1. inbox \o (outgoing \o w) = (inbox \o outgoing) \o w
      BY <1>2, <1>5, Regrouped
    <3> HIDE DEF w
    <3>2. input_buffer_ \o ((inbox \o outgoing) \o w) = (input_buffer_ \o (inbox \o outgoing)) \o w
      <4> DEFINE m == inbox \o outgoing
      <4>1. input_buffer_ \in Texts /\ m \in Texts /\ w \in Texts
        BY <1>5, <2>1
      <4> HIDE DEF m
      <4>2. input_buffer_ \o (m \o w) = (input_buffer_ \o m) \o w
        BY <4>1, Regrouped, SMTT(60)
      <4> QED  BY <4>2 DEF m
    <3> QED  BY <1>1, <3>1, <3>2 DEF Text
  <2>4. IsRest(Text \o w, Place, reqs) /\ EndOf(reqs, Len(reqs)) - Len(Text \o w) = Place
    <3>1. /\ InARow(requests) /\ InARow(reqs) /\ IsRest(Text, Place, requests)
          /\ Len(reqs) = Len(requests) + 1
          /\ \A k \in 1 .. Len(requests) : reqs[k] = requests[k]
          /\ reqs[Len(requests) + 1].what = r
          /\ reqs[Len(requests) + 1].begin = EndOf(requests, Len(requests))
          /\ reqs[Len(requests) + 1].end = EndOf(requests, Len(requests)) + Len(Wire(r))
      BY <1>2, <1>3, <2>2
    <3> HIDE DEF n, e, w
    <3>2. /\ IsRest(Text \o Wire(r), Place, reqs)
          /\ EndOf(reqs, Len(reqs)) - Len(Text \o Wire(r)) = Place
      BY <3>1, RestGrows
    <3> QED  BY <3>2 DEF w
  <2>5. Place' = Place
    BY <1>1, <2>3, <2>4 DEF Place
  <2>6. IsRest(Text', Place', requests')
    BY <1>1, <2>3, <2>4, <2>5
  <2>7. SplitAgrees'
    <3>1. received' = Place' + Len(input_buffer_') /\ received' = received /\ split' = split
      BY <1>1, <2>1, <2>5
    <3>2. ASSUME NEW j \in DOMAIN reqs, reqs[j].line <= received /\ received < reqs[j].end
          PROVE  split
      <4>1. CASE j = n + 1
        <5>1. HeaderAt(r) \in {7, 9}
          BY WireIs
        <5>2. HeaderAt(r) \in Nat /\ HeaderAt(r) > 0
          BY <5>1
        <5>3. e + HeaderAt(r) <= received
          BY <1>3, <3>2, <4>1
        <5>4. received <= e
          BY <1>3, <2>1
        <5>5. received \in Nat
          BY <2>1
        <5> HIDE DEF e
        <5> QED  BY <1>3, <5>2, <5>3, <5>4, <5>5
      <4>2. CASE j # n + 1
        <5>1. j \in 1 .. n /\ reqs[j] = requests[j]
          BY <1>3, <1>4, <4>2
        <5> QED  BY <1>4, <2>2, <3>2, <5>1 DEF SplitAgrees
      <4> QED  BY <4>1, <4>2
    <3> QED  BY <1>1, <3>1, <3>2 DEF SplitAgrees
  <2>8. Cursor'
    BY <1>1, <1>3, <1>4, <2>1, <2>2, <2>5, CursorGrows
  <2>9. Answered' <= Len(requests')
    BY <1>1, <1>3, <2>1 DEF Answered
  <2> QED  BY <1>1, <1>2, <1>5, <2>1, <2>6, <2>7, <2>8, <2>9 DEF Serving
<1> QED  BY <1>1, <1>2, <1>3, <1>5, <1>6, <1>8, <1>9, <1>10 DEF HttpInv

-----------------------------------------------------------------------------
(* on_message.                                                             *)

\* A request is answered behind its request line.
LEMMA AnswerBehindLine ==
    ASSUME NEW r \in Requests
    PROVE  AnswerAt(r) \in Nat /\ HeaderAt(r) \in Nat /\ HeaderAt(r) < AnswerAt(r)
<1>1. HeaderAt(r) \in {7, 9}
  BY WireIs
<1>2. HeaderAt(r) \in Nat
  BY <1>1
<1>3. AnswerAt(r) = HeaderAt(r) + 3 \/ AnswerAt(r) = HeaderAt(r) + 2
      \/ AnswerAt(r) = (HeaderAt(r) + 7) + 2
  BY DEF AnswerAt, ConnectionAt
<1> QED  BY <1>2, <1>3

\* If data waits behind a request that is answered and leaves something, then what
\* has been read ends inside that request or another was asked.
LEMMA RestWasSplit ==
    ASSUME InARow(requests), responses \in Seq(Responses), Serving, Between, inbox # <<>>,
           Answered > 0
    PROVE  split \/ Answered < Len(requests)
<1> DEFINE n == Answered
           r == requests[n].what
<1> SUFFICES ASSUME ~(n < Len(requests)) PROVE split
  OBVIOUS
<1>1. /\ Len(input_buffer_) \in Nat /\ Len(outgoing) \in Nat /\ Len(inbox) \in Nat
      /\ Len(Text) = Len(input_buffer_) + (Len(inbox) + Len(outgoing))
      /\ Place \in Nat /\ Place + Len(Text) = EndOf(requests, Len(requests))
      /\ received = Place + Len(input_buffer_)
      /\ n \in Nat /\ n <= Len(requests)
  BY ServingFacts
<1>2. Len(inbox) > 0
  <2>1. inbox \in Seq(Tokens)
    BY DEF Serving, Texts
  <2>2. Len(inbox) # 0
    BY <2>1, EmptySeq
  <2> QED  BY <1>1, <2>2
<1>3. Len(requests) \in Nat /\ DOMAIN requests = 1 .. Len(requests)
  BY RowFacts
<1>4. n = Len(requests) /\ n \in DOMAIN requests
  <2>1. n \in Nat /\ n <= Len(requests) /\ n > 0 /\ Len(requests) \in Nat
    BY <1>1, <1>3
  <2> HIDE DEF n
  <2>2. n = Len(requests) /\ n \in 1 .. Len(requests)
    BY <2>1
  <2> QED  BY <1>3, <2>2
<1>5. /\ r \in Requests /\ requests[n].begin \in Nat /\ requests[n].end \in Nat
      /\ requests[n].line = requests[n].begin + HeaderAt(r)
  BY <1>4, RowFacts
<1>6. Place = requests[n].begin + AnswerAt(r)
  <2>1. ~Forgotten /\ n # 0
    BY <1>1 DEF Forgotten
  <2> QED  BY <2>1 DEF Between, AnsweredAt
<1>7. EndOf(requests, Len(requests)) = requests[n].end
  BY <1>1, <1>4 DEF EndOf
<1> HIDE DEF n
<1>8. AnswerAt(r) \in Nat /\ HeaderAt(r) \in Nat /\ HeaderAt(r) < AnswerAt(r)
  BY <1>5, AnswerBehindLine
<1> HIDE DEF r
<1>9. requests[n].line <= received
  <2>1. \A b, h, a, l \in Nat : h < a => b + h <= (b + a) + l
    OBVIOUS
  <2>2. received = (requests[n].begin + AnswerAt(r)) + Len(input_buffer_)
    BY <1>1, <1>6
  <2>3. Len(input_buffer_) \in Nat
    BY <1>1
  <2> QED  BY <1>5, <1>8, <2>1, <2>2, <2>3
<1>10. received < requests[n].end
  BY <1>1, <1>2, <1>5, <1>7
<1> QED  BY <1>4, <1>9, <1>10 DEF Serving, SplitAgrees

\* on_message takes what is in inbox and begins at a request line.
LEMMA MessageStep ==
    ASSUME HttpInv, on_message
    PROVE  HttpInv'
<1>1. /\ conn' = [conn EXCEPT !.inq = 0] /\ input_buffer_' = input_buffer_ \o inbox
      /\ inbox' = <<>> /\ inbox # <<>> /\ context = NoContext /\ context' = Http_Context
      /\ outgoing' = outgoing /\ requests' = requests /\ responses' = responses
  BY DEF on_message, Runs
<1>2. /\ received' = received + Len(inbox) /\ (split => split')
      /\ \A j \in DOMAIN requests :
            requests[j].line <= received' /\ received' < requests[j].end => split'
  <2>1. \A j \in DOMAIN requests : requests[j] \in ToSet(requests)
    BY DEF ToSet
  <2> QED  BY <2>1 DEF on_message, on_message_history
<1>3. /\ conn \in Conn /\ inbox \in Texts /\ outgoing \in Texts
      /\ InARow(requests) /\ responses \in Seq(Responses)
      /\ AnswersInOrder /\ RefusedForAReason
      /\ conn.state_ = "k_connected" =>
            Serving /\ \A i \in DOMAIN responses : responses[i].content_length
      /\ FramedOrLast
  BY DEF HttpInv
<1>4. conn' \in Conn /\ conn'.state_ = conn.state_
  BY <1>1, <1>3, SocketChanges
<1>5. AnswersInOrder' /\ FramedOrLast' /\ RefusedForAReason'
  BY <1>1, <1>2, <1>3 DEF AnswersInOrder, FramedOrLast, RefusedForAReason
<1>6. inbox' \in Texts /\ outgoing' \in Texts
  BY <1>1, <1>3 DEF Texts
<1>7. ASSUME Serving PROVE Serving'
  <2>1. /\ input_buffer_ \in Texts /\ Place \in Nat
        /\ Len(input_buffer_) \in Nat /\ Len(inbox) \in Nat
        /\ received = Place + Len(input_buffer_)
    BY <1>3, <1>7, ServingFacts
  <2>2. Between /\ IsRest(Text, Place, requests) /\ Answered <= Len(requests)
    BY <1>1, <1>7 DEF Serving, Cursor
  <2>3. input_buffer_' \in Texts /\ Len(input_buffer_') = Len(input_buffer_) + Len(inbox)
    BY <1>1, <1>3, <2>1, Joined
  <2>4. Text' = Text
    <3>1. <<>> \o outgoing = outgoing
      BY <1>3, ConcatEmptySeq DEF Texts
    <3>2. (input_buffer_ \o inbox) \o outgoing = input_buffer_ \o (inbox \o outgoing)
      BY <1>3, <2>1, Regrouped
    <3> QED  BY <1>1, <3>1, <3>2 DEF Text
  <2>5. Place' = Place /\ Answered' = Answered /\ AnsweredAt(Answered)' = AnsweredAt(Answered)
    BY <1>1, <2>4 DEF Place, Answered, AnsweredAt
  <2>6. SplitAgrees'
    BY <1>1, <1>2, <2>1, <2>3, <2>5 DEF SplitAgrees
  <2>7. Between'
    <3>1. Forgotten => Forgotten'
      BY <1>1, <1>2, <2>5 DEF Forgotten, Coming
    <3> QED  BY <2>2, <2>5, <3>1 DEF Between
  <2>8. RestFollowed'
    <3>1. Answered > 0 => split \/ Answered < Len(requests)
      BY <1>1, <1>3, <1>7, <2>2, RestWasSplit
    <3> QED  BY <1>1, <1>2, <2>5, <3>1 DEF RestFollowed
  <2>9. /\ IsContext(context') /\ context'.state_ = "EXPECT_REQUESR_LINE"
        /\ context'.ok /\ context'.has_more
    BY <1>1 DEF Http_Context, IsContext
  <2>10. context' # NoContext
    BY <2>9, IsNoContext
  <2>11. Cursor'
    BY <2>7, <2>8, <2>9, <2>10 DEF Cursor, AtRequestLine, NoContext
  <2>12. IsRest(Text', Place', requests') /\ Answered' <= Len(requests')
    BY <1>1, <2>2, <2>4, <2>5
  <2> QED  BY <1>6, <2>3, <2>6, <2>11, <2>12 DEF Serving
<1> QED  BY <1>1, <1>3, <1>4, <1>5, <1>6, <1>7 DEF HttpInv

-----------------------------------------------------------------------------
(* The end of on_message.                                                  *)

\* send() keeps the state, and shutdown() leaves k_connected.
LEMMA SendAndShutdown ==
    ASSUME NEW x \in Conn
    PROVE  /\ send(x) \in Conn /\ send(x).state_ = x.state_
           /\ shutdown(x) \in Conn /\ shutdown(x).state_ # "k_connected"
<1>1. send(x) \in Conn /\ send(x).state_ = x.state_
  BY SendInLoop DEF send
<1>2. exchange_disconnecting(x) \in Conn
      /\ exchange_disconnecting(x).state_ = "k_disconnecting"
  BY ExchangeDisconnecting
<1> DEFINE y == exchange_disconnecting(x)
<1>3. shutdown(x) = y \/ shutdown(x) = shut_down_in_loop(y)
  BY DEF shutdown
<1> HIDE DEF y
<1>4. y \in Conn /\ y.state_ = "k_disconnecting"
  BY <1>2 DEF y
<1>5. shut_down_in_loop(y) \in Conn /\ shut_down_in_loop(y).state_ = y.state_
  BY <1>4, ShutDownInLoop
<1> QED  BY <1>1, <1>3, <1>4, <1>5

\* on_request answers what the client may expect of the request.
LEMMA OnRequest ==
    ASSUME NEW x, NEW r \in Requests, NEW q,
           Parsed(q, r, ~r.bare /\ r.connection # "none")
    PROVE  LET answer == on_request(x, q)
           IN  /\ answer.response = Expected(r) /\ Expected(r) \in Responses
               /\ Expected(r).status # 400
               /\ Expected(r).content_length => answer.conn = send(x)
               /\ ~Expected(r).content_length => answer.conn = shutdown(send(x))
<1> DEFINE header == get_header(q, <<"Connection">>)
           word == IF r.bare THEN "none" ELSE r.connection
           close == header = <<"close">> \/ (q.version = "HTTP/1.0" /\ header # <<"Keep-Alive">>)
           closes == word = "close" \/ (r.version = "HTTP/1.0" /\ word # "Keep-Alive")
           response == http_callback_(q, close)
<1>1. /\ header = IF ~r.bare /\ r.connection # "none" THEN <<r.connection>> ELSE <<>>
      /\ q.version = r.version /\ q.path = <<r.path>>
  BY DEF Parsed
<1>2. (header = <<"close">> <=> word = "close")
      /\ (header = <<"Keep-Alive">> <=> word = "Keep-Alive")
  <2>1. CASE ~r.bare /\ r.connection # "none"
    <3>1. header = <<r.connection>> /\ word = r.connection
      BY <1>1, <2>1
    <3> HIDE DEF header, word
    <3> QED  BY <3>1
  <2>2. CASE ~(~r.bare /\ r.connection # "none")
    <3>1. header = <<>> /\ word = "none"
      BY <1>1, <2>2
    <3> HIDE DEF header, word
    <3> QED  BY <3>1
  <2> QED  BY <2>1, <2>2
<1> HIDE DEF header, word
<1>3. close <=> closes
  BY <1>1, <1>2
<1>4. q.path \in {<<p>> : p \in KnownPaths} <=> r.path \in KnownPaths
  <2>1. <<r.path>> \in {<<p>> : p \in KnownPaths} => r.path \in KnownPaths
    <3> SUFFICES ASSUME NEW p \in KnownPaths, <<r.path>> = <<p>> PROVE r.path = p
      OBVIOUS
    <3> QED  OBVIOUS
  <2> QED  BY <1>1, <2>1
<1>5. on_request(x, q) = [conn |-> IF response.close THEN shutdown(send(x)) ELSE send(x),
                          response |-> append_to_buffer(response)]
  BY DEF on_request, header
<1>6. Expected(r) = IF r.path \in KnownPaths THEN [status |-> 200, content_length |-> ~closes]
                    ELSE [status |-> 404, content_length |-> FALSE]
  BY DEF Expected, word
<1>7. response = IF r.path \in KnownPaths THEN [status |-> 200, close |-> close]
                 ELSE [status |-> 404, close |-> TRUE]
  BY <1>4 DEF http_callback_
<1>8. close \in BOOLEAN /\ closes \in BOOLEAN
  OBVIOUS
<1> HIDE DEF close, closes, response
<1>9. close = closes
  BY <1>3, <1>8
<1>10. CASE r.path \in KnownPaths
  <2>1. response = [status |-> 200, close |-> close]
    BY <1>7, <1>10
  <2>2. Expected(r) = [status |-> 200, content_length |-> ~close]
    BY <1>6, <1>9, <1>10
  <2>3. append_to_buffer(response) = [status |-> 200, content_length |-> ~close]
    BY <2>1 DEF append_to_buffer
  <2>4. response.close = close
    BY <2>1
  <2>5. on_request(x, q).response = Expected(r)
    BY <1>5, <2>2, <2>3
  <2>6. Expected(r).content_length = ~close /\ Expected(r).status # 400
    BY <2>2
  <2>7. Expected(r) \in Responses
    BY <1>8, <2>2 DEF Responses
  <2>8. CASE close
    <3>1. response.close /\ ~Expected(r).content_length
      BY <2>4, <2>6, <2>8, Zenon
    <3>2. on_request(x, q).conn = shutdown(send(x))
      BY <1>5, <3>1
    <3> QED  BY <2>5, <2>6, <2>7, <3>1, <3>2, Zenon
  <2>9. CASE ~close
    <3>1. ~response.close /\ Expected(r).content_length
      BY <2>4, <2>6, <2>9, Zenon
    <3>2. on_request(x, q).conn = send(x)
      BY <1>5, <3>1
    <3> QED  BY <2>5, <2>6, <2>7, <3>1, <3>2, Zenon
  <2> QED  BY <2>8, <2>9
<1>11. CASE r.path \notin KnownPaths
  <2>1. response = [status |-> 404, close |-> TRUE]
    BY <1>7, <1>11
  <2>2. Expected(r) = [status |-> 404, content_length |-> FALSE]
    BY <1>6, <1>11
  <2>3. append_to_buffer(response) = [status |-> 404, content_length |-> FALSE]
    BY <2>1 DEF append_to_buffer
  <2>4. Expected(r) \in Responses /\ Expected(r).status # 400
    BY <2>2 DEF Responses
  <2> QED  BY <1>5, <2>1, <2>2, <2>3, <2>4
<1> QED  BY <1>10, <1>11

\* Nothing of a line that has not arrived whole: data ends inside the request.
LEMMA CutInside ==
    ASSUME InARow(requests), responses \in Seq(Responses), Serving,
           NEW j \in DOMAIN requests, NEW o \in Nat, HeaderAt(requests[j].what) <= o,
           NEW line \in Texts, \A i \in 1 .. Len(line) : line[i] # "CR",
           HasAt(Wire(requests[j].what), o, line \o crlf_), Place = requests[j].begin + o,
           find_CRLF(input_buffer_) = 0
    PROVE  split
<1> DEFINE r == requests[j].what
           l == line \o crlf_
<1>1. /\ input_buffer_ \in Texts /\ inbox \o outgoing \in Texts /\ Len(input_buffer_) \in Nat
      /\ received = Place + Len(input_buffer_)
  BY ServingFacts
<1>2. /\ r \in Requests /\ requests[j].begin \in Nat
      /\ requests[j].line = requests[j].begin + HeaderAt(r)
      /\ requests[j].end = requests[j].begin + Len(Wire(r))
  BY RowFacts
<1>3. l \in Texts /\ Len(l) = Len(line) + 2 /\ Len(line) \in Nat
  BY LineIsText
<1>4. HasAt(Text, 0, l)
  <2> HIDE DEF l
  <2>1. HasAt(Wire(r), o, l)
    BY DEF l
  <2> QED  BY <1>3, <2>1, LineAhead
<1>5. ~(Len(input_buffer_) >= Len(line) + 2)
  <2> DEFINE rest == inbox \o outgoing
  <2>1. HasAt(input_buffer_ \o rest, 0, l)
    BY <1>4 DEF Text
  <2> HIDE DEF rest
  <2>2. rest \in Texts
    BY <1>1 DEF rest
  <2> QED  BY <1>1, <2>1, <2>2, BufferedLine
<1>6. HeaderAt(r) \in Nat /\ Len(Wire(r)) \in Nat
  BY <1>2, AnswerBehindLine, WireIs, LenProperties DEF Texts
<1>7. o + (Len(line) + 2) <= Len(Wire(r))
  BY <1>3 DEF HasAt
<1> HIDE DEF r, l
<1>8. HeaderAt(r) <= o
  BY DEF r
<1>9. received = (requests[j].begin + o) + Len(input_buffer_)
  BY <1>1
<1>10. \A b, h, n, k, w \in Nat :
            h <= o /\ ~(n >= k + 2) /\ o + (k + 2) <= w
            => b + h <= (b + o) + n /\ (b + o) + n < b + w
  OBVIOUS
<1>11. requests[j].line <= received /\ received < requests[j].end
  BY <1>1, <1>2, <1>3, <1>5, <1>6, <1>7, <1>8, <1>9, <1>10
<1> QED  BY <1>11 DEF Serving, SplitAgrees

\* A response is sent on a connection that keeps every message framed.
LEMMA ResponseSent ==
    ASSUME responses \in Seq(Responses), AnswersInOrder, RefusedForAReason,
           \A i \in DOMAIN responses : responses[i].content_length,
           NEW a \in Responses, responses' = Append(responses, a), UNCHANGED <<requests, split>>,
           a.status # 400 => /\ Answered + 1 <= Len(requests)
                             /\ a = Expected(requests[Answered + 1].what),
           a.status = 400 => Reason
    PROVE  /\ AnswersInOrder' /\ RefusedForAReason' /\ FramedOrLast'
           /\ responses' \in Seq(Responses) /\ Answered' = Answered + 1
           /\ a.content_length => \A i \in DOMAIN responses' : responses'[i].content_length
<1> DEFINE n == Len(responses)
<1>1. /\ n \in Nat /\ DOMAIN responses = 1 .. n
      /\ responses' \in Seq(Responses) /\ Len(responses') = n + 1
      /\ \A i \in 1 .. n : responses'[i] = responses[i]
      /\ responses'[n + 1] = a
  BY AppendProperties, LenProperties
<1>2. DOMAIN responses' = 1 .. n + 1
  BY <1>1, LenProperties
<1>3. \A i \in DOMAIN responses' : i = n + 1 \/ i \in 1 .. n
  BY <1>1, <1>2
<1>4. Answered = n /\ Answered' = n + 1
  BY <1>1 DEF Answered
<1> HIDE DEF n
<1>5. AnswersInOrder'
  <2> SUFFICES ASSUME NEW i \in DOMAIN responses', responses'[i].status # 400
               PROVE  i <= Len(requests) /\ responses'[i] = Expected(requests[i].what)
    BY DEF AnswersInOrder
  <2>1. CASE i = n + 1
    BY <1>1, <1>4, <2>1
  <2>2. CASE i \in 1 .. n
    BY <1>1, <2>2 DEF AnswersInOrder
  <2> QED  BY <1>3, <2>1, <2>2
<1>6. RefusedForAReason'
  <2> SUFFICES ASSUME NEW i \in DOMAIN responses', responses'[i].status = 400
               PROVE  Reason
    BY DEF RefusedForAReason, Reason
  <2>1. CASE i = n + 1
    BY <1>1, <2>1
  <2>2. CASE i \in 1 .. n
    BY <1>1, <2>2 DEF RefusedForAReason, Reason
  <2> QED  BY <1>3, <2>1, <2>2
<1>7. FramedOrLast'
  <2> SUFFICES ASSUME NEW i \in DOMAIN responses', i < Len(responses')
               PROVE  responses'[i].content_length
    BY DEF FramedOrLast
  <2>1. i \in 1 .. n
    BY <1>1, <1>2
  <2> QED  BY <1>1, <2>1
<1>8. ASSUME a.content_length, NEW i \in DOMAIN responses' PROVE responses'[i].content_length
  <2>1. CASE i = n + 1
    BY <1>1, <1>8, <2>1
  <2>2. CASE i \in 1 .. n
    BY <1>1, <2>2
  <2> QED  BY <1>3, <2>1, <2>2
<1> QED  BY <1>1, <1>4, <1>5, <1>6, <1>7, <1>8

\* The context goes, and what the parser has of the header with it.
LEMMA ContextGone ==
    ASSUME InARow(requests), responses \in Seq(Responses), Serving,
           AtRequestLine \/ (InHeader /\ find_CRLF(input_buffer_) = 0)
    PROVE  Between
<1>1. CASE AtRequestLine
  BY <1>1 DEF AtRequestLine
<1>2. CASE InHeader /\ find_CRLF(input_buffer_) = 0
  <2> DEFINE j == Answered + 1
             r == requests[j].what
  <2>1. Coming = requests[j] /\ Answered < Len(requests)
    BY <1>2 DEF Coming, InHeader
  <2>2. j \in DOMAIN requests
    <3>1. Answered \in Nat /\ Answered <= Len(requests) /\ Len(requests) \in Nat
      BY ServingFacts, RowFacts
    <3>2. Answered # Len(requests)
      BY <2>1, <3>1
    <3> QED  BY <3>1, <3>2, Successor, RowFacts
  <2>3. r \in Requests
    BY <2>2, RowFacts
  <2>4. \/ Place = requests[j].begin + HeaderAt(r)
        \/ ~r.bare /\ r.connection # "none" /\ Place = requests[j].begin + ConnectionAt(r)
    BY <1>2, <2>1 DEF InHeader
  <2> HIDE DEF j
  <2>5. HeaderAt(r) \in Nat /\ HeaderAt(r) <= HeaderAt(r)
        /\ ConnectionAt(r) \in Nat /\ HeaderAt(r) <= ConnectionAt(r)
    BY <2>3, AnswerBehindLine DEF ConnectionAt
  <2>6. /\ BareLine \in Texts /\ <<>> \in Texts /\ <<>> \o crlf_ = crlf_
        /\ \A i \in 1 .. Len(<<>>) : <<>>[i] # "CR"
        /\ \A i \in 1 .. Len(BareLine) : BareLine[i] # "CR"
    BY BareLineIs, EmptyLine
  <2>7. PICK o \in Nat : /\ HeaderAt(r) <= o /\ Place = requests[j].begin + o
                         /\ \E line \in Texts : /\ \A i \in 1 .. Len(line) : line[i] # "CR"
                                                /\ HasAt(Wire(r), o, line \o crlf_)
    <3>1. CASE Place = requests[j].begin + HeaderAt(r) /\ r.bare
      <4>1. HasAt(Wire(r), HeaderAt(r), BareLine \o crlf_)
        BY <2>3, <3>1, WireIs
      <4> QED  BY <2>5, <2>6, <3>1, <4>1, Zenon
    <3>2. CASE Place = requests[j].begin + HeaderAt(r) /\ ~r.bare /\ r.connection = "none"
      <4>1. HasAt(Wire(r), HeaderAt(r), <<>> \o crlf_)
        BY <2>3, <2>6, <3>2, WireIs
      <4> QED  BY <2>5, <2>6, <3>2, <4>1, Zenon
    <3>3. CASE Place = requests[j].begin + HeaderAt(r) /\ ~r.bare /\ r.connection # "none"
      <4>1. HasAt(Wire(r), HeaderAt(r), ConnectionLine(r) \o crlf_)
        BY <2>3, <3>3, WireIs
      <4>2. /\ ConnectionLine(r) \in Texts
            /\ \A i \in 1 .. Len(ConnectionLine(r)) : ConnectionLine(r)[i] # "CR"
        BY <2>3, ConnectionLineIs
      <4> QED  BY <2>5, <3>3, <4>1, <4>2, Zenon
    <3>4. CASE ~r.bare /\ r.connection # "none" /\ Place = requests[j].begin + ConnectionAt(r)
      <4>1. HasAt(Wire(r), ConnectionAt(r), <<>> \o crlf_)
        BY <2>3, <2>6, <3>4, WireIs
      <4> QED  BY <2>5, <2>6, <3>4, <4>1, Zenon
    <3> QED  BY <2>4, <3>1, <3>2, <3>3, <3>4
  <2>8. PICK line \in Texts : /\ \A i \in 1 .. Len(line) : line[i] # "CR"
                              /\ HasAt(Wire(r), o, line \o crlf_)
    BY <2>7
  <2>9. split
    BY <1>2, <2>2, <2>7, <2>8, CutInside
  <2> QED  BY <2>1, <2>4, <2>9 DEF Between, Forgotten
<1> QED  BY <1>1, <1>2

\* The rest of on_message.
LEMMA EndStep ==
    ASSUME HttpInv, on_message_end
    PROVE  HttpInv'
<1>1. /\ context # NoContext /\ (context.has_more => find_CRLF(input_buffer_) = 0)
      /\ context' = NoContext
      /\ UNCHANGED <<inbox, outgoing, requests, input_buffer_, received, split>>
  BY DEF on_message_end
<1>2. /\ conn \in Conn /\ inbox \in Texts /\ outgoing \in Texts
      /\ InARow(requests) /\ responses \in Seq(Responses)
      /\ AnswersInOrder /\ RefusedForAReason
      /\ conn.state_ = "k_connected" =>
            Serving /\ \A i \in DOMAIN responses : responses[i].content_length
      /\ FramedOrLast
  BY DEF HttpInv
<1>3. /\ send(conn) \in Conn /\ send(conn).state_ = conn.state_
      /\ shutdown(send(conn)) \in Conn /\ shutdown(send(conn)).state_ # "k_connected"
  <2>1. send(conn) \in Conn /\ send(conn).state_ = conn.state_
    BY <1>2, SendAndShutdown
  <2> QED  BY <2>1, SendAndShutdown
<1>4. \/ conn' = conn \/ conn' = send(conn) \/ conn' = shutdown(send(conn))
  BY DEF on_message_end, respond, on_request
<1>5. conn' \in Conn /\ (conn'.state_ = "k_connected" => conn.state_ = "k_connected")
  BY <1>2, <1>3, <1>4
<1>6. inbox' \in Texts /\ outgoing' \in Texts /\ InARow(requests')
  BY <1>1, <1>2
<1>7. CASE conn.state_ # "k_connected"
  <2>1. responses' = responses
    BY <1>7 DEF on_message_end, respond
  <2>2. AnswersInOrder' /\ RefusedForAReason' /\ FramedOrLast'
    BY <1>1, <1>2, <2>1, AnswersKept
  <2> QED  BY <1>2, <1>5, <1>6, <1>7, <2>1, <2>2 DEF HttpInv
<1>8. CASE conn.state_ = "k_connected"
  <2>1. Serving /\ \A i \in DOMAIN responses : responses[i].content_length
    BY <1>2, <1>8
  <2>2. /\ IsContext(context) /\ (AtRequestLine \/ InHeader \/ GotAll \/ Refused)
        /\ IsRest(Text, Place, requests) /\ SplitAgrees /\ input_buffer_ \in Texts
    BY <1>1, <2>1 DEF Serving, Cursor
  <2>3. Text' = Text /\ Place' = Place /\ SplitAgrees' = SplitAgrees
    BY <1>1 DEF Text, Place, SplitAgrees, EndOf
  <2>4. Between' /\ Answered' <= Len(requests') => Serving'
    BY <1>1, <1>6, <2>2, <2>3 DEF Serving, Cursor
  <2>5. CASE AtRequestLine \/ InHeader
    <3>1. context.ok /\ context.state_ # "GOT_ALL" /\ context.has_more
      BY <2>5 DEF AtRequestLine, InHeader
    <3>2. conn' = conn /\ responses' = responses
      BY <3>1 DEF on_message_end
    <3>3. Between
      BY <1>1, <1>2, <2>1, <2>5, <3>1, ContextGone
    <3>4. Between' /\ Answered' = Answered
      <4>1. SameStream
        BY <1>1, <2>3, <3>2 DEF SameStream
      <4> QED  BY <3>3, <4>1, StreamKept
    <3>5. Serving'
      BY <1>1, <2>1, <2>4, <3>4 DEF Serving
    <3>6. AnswersInOrder' /\ RefusedForAReason' /\ FramedOrLast'
      BY <1>1, <1>2, <3>2, AnswersKept
    <3> QED  BY <1>2, <1>5, <1>6, <2>1, <3>2, <3>5, <3>6 DEF HttpInv
  <2>6. CASE GotAll
    <3> DEFINE r == requests[Answered + 1].what
               answer == on_request(conn, context.request_)
               a == Expected(r)
    <3>1. /\ context.ok /\ context.state_ = "GOT_ALL" /\ Answered < Len(requests)
          /\ Place = AnsweredAt(Answered + 1)
          /\ Parsed(context.request_, r, ~r.bare /\ r.connection # "none")
      BY <2>6 DEF GotAll, Coming
    <3>2. conn' = answer.conn /\ responses' = Append(responses, answer.response)
      BY <1>8, <3>1 DEF on_message_end, respond
    <3>3. Answered + 1 \in DOMAIN requests /\ Answered + 1 <= Len(requests)
      <4>1. Answered \in Nat /\ Answered <= Len(requests) /\ Len(requests) \in Nat
        BY <1>2, <2>1, ServingFacts, RowFacts
      <4>2. Answered # Len(requests)
        BY <3>1, <4>1
      <4>3. Answered + 1 \in 1 .. Len(requests)
        BY <4>1, <4>2, Successor
      <4> QED  BY <1>2, <4>1, <4>3, RowFacts
    <3>4. r \in Requests
      BY <1>2, <3>3, RowFacts
    <3>5. /\ answer.response = a /\ a \in Responses /\ a.status # 400
          /\ a.content_length => answer.conn = send(conn)
          /\ ~a.content_length => answer.conn = shutdown(send(conn))
      <4>1. Parsed(context.request_, r, ~r.bare /\ r.connection # "none")
        BY <3>1
      <4> HIDE DEF r
      <4> QED  BY <3>4, <4>1, OnRequest
    <3> HIDE DEF answer, a
    <3>6. responses' = Append(responses, a)
      BY <3>2, <3>5
    <3>7. /\ AnswersInOrder' /\ RefusedForAReason' /\ FramedOrLast'
          /\ responses' \in Seq(Responses) /\ Answered' = Answered + 1
          /\ a.content_length => \A i \in DOMAIN responses' : responses'[i].content_length
      <4>1. a = Expected(requests[Answered + 1].what)
        BY DEF a
      <4> QED  BY <1>1, <1>2, <2>1, <3>3, <3>5, <3>6, <4>1, ResponseSent
    <3>8. Between' /\ Answered' <= Len(requests')
      <4>1. AnsweredAt(Answered)' = AnsweredAt(Answered + 1)
        BY <1>1, <3>7 DEF AnsweredAt
      <4> QED  BY <1>1, <2>3, <3>1, <3>3, <3>7, <4>1 DEF Between
    <3>9. conn'.state_ = "k_connected" => a.content_length
      BY <1>3, <3>2, <3>5
    <3> QED  BY <1>5, <1>6, <2>4, <3>7, <3>8, <3>9 DEF HttpInv
  <2>7. CASE Refused
    <3>1. ~context.ok /\ context.state_ # "GOT_ALL" /\ Reason
      BY <2>7 DEF Refused
    <3>2. conn' = shutdown(send(conn)) /\ responses' = Append(responses, BadRequest)
      BY <1>8, <3>1 DEF on_message_end, respond
    <3>3. BadRequest \in Responses /\ BadRequest.status = 400
      BY DEF BadRequest, Responses
    <3>4. AnswersInOrder' /\ RefusedForAReason' /\ FramedOrLast' /\ responses' \in Seq(Responses)
      BY <1>1, <1>2, <2>1, <3>1, <3>2, <3>3, ResponseSent
    <3> QED  BY <1>3, <1>5, <1>6, <3>2, <3>4 DEF HttpInv
  <2> QED  BY <2>2, <2>5, <2>6, <2>7
<1> QED  BY <1>7, <1>8

-----------------------------------------------------------------------------
(* The theorems.                                                           *)

\* Every step of the server, the client and the network keeps HttpInv.
LEMMA HttpKept ==
    ASSUME HttpInv, [Next]_vars
    PROVE  HttpInv'
<1>1. CASE parse_request
  <2>1. UNCHANGED <<conn, inbox, outgoing, requests, responses, split>>
    BY <1>1 DEF parse_request
  <2>2. AnswersInOrder' /\ RefusedForAReason' /\ FramedOrLast'
    BY <2>1, AnswersKept DEF HttpInv
  <2>3. conn.state_ = "k_connected" => Serving'
    BY <1>1, ParseRequest DEF HttpInv
  <2> QED  BY <2>1, <2>2, <2>3 DEF HttpInv
<1>2. CASE on_message
  BY <1>2, MessageStep
<1>3. CASE on_message_end
  BY <1>3, EndStep
<1>4. CASE poll \/ event \/ destroyed \/ client_reads \/ client_closes \/ client_resets
  BY <1>4, OtherSteps
<1>5. CASE \E r \in Requests : client_asks(r)
  BY <1>5, AskStep
<1>6. CASE SegmentArrives
  BY <1>6, SegmentStep DEF SegmentArrives
<1>7. CASE UNCHANGED vars
  <2>1. SameStream /\ UNCHANGED <<conn, context, inbox, outgoing>>
    BY <1>7 DEF vars, http, SameStream, Text
  <2>2. conn' \in Conn /\ inbox' \in Texts /\ outgoing' \in Texts
    BY <2>1 DEF HttpInv
  <2> QED  BY <2>1, <2>2, ConnectionStep
<1> QED  BY <1>1, <1>2, <1>3, <1>4, <1>5, <1>6, <1>7 DEF Next, LoopStep

\* Http_Server: at every moment the parser is at a known place in the stream of
\* requests, and what it has is what the requests say.
THEOREM ParserKeepsItsPlace == Spec => []HttpInv
<1>1. Init => HttpInv
  BY HttpStarts
<1>2. HttpInv /\ [Next]_vars => HttpInv'
  BY HttpKept
<1> QED  BY <1>1, <1>2, PTL DEF Spec

\* on_message, on_request: wherever the stream is cut and however many requests
\* arrive together, the responses answer the requests in their order, each
\* with the headers of its own request only; a 400 is the only exception.
THEOREM RequestsAnsweredInOrder == Spec => []AnswersInOrder
<1>1. HttpInv => AnswersInOrder
  BY DEF HttpInv
<1> QED  BY <1>1, ParserKeepsItsPlace, PTL

\* append_to_buffer, shutdown: nothing is sent behind a response without
\* Content-Length.
THEOREM UnframedResponseIsLast == Spec => []FramedOrLast
<1>1. HttpInv => FramedOrLast
  BY DEF HttpInv
<1> QED  BY <1>1, ParserKeepsItsPlace, PTL

\* on_message, 400: a client is refused only for a malformed request, for data
\* behind a request that leaves something in input_buffer_, or because data
\* ended inside a request, behind its request line.
THEOREM NoRefusalWithoutReason == Spec => []RefusedForAReason
<1>1. HttpInv => RefusedForAReason
  BY DEF HttpInv
<1> QED  BY <1>1, ParserKeepsItsPlace, PTL
=============================================================================
