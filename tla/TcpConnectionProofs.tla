------------------------- MODULE TcpConnectionProofs -------------------------
(***************************************************************************)
(* What the member functions of Tcp_Connection do to one connection: its   *)
(* phases (constructed, established, closed, removed), and the stream of   *)
(* bytes to the peer.  TcpServerProofs builds on these lemmas.             *)
(***************************************************************************)
EXTENDS TcpConnection, SequenceTheorems, TLAPS

\* 1, 2, ..., n.
Numbered(n) == [i \in 1 .. n |-> i]

EventNames == {"IN", "OUT"}
Peers == {"away", "backlog", "open", "fin", "rst", "refused"}

Asserts == {"channel.cpp:95", "epoll_poller.cpp:78", "epoll_poller.cpp:90",
            "epoll_poller.cpp:107", "tcp_connection.cpp:87", "tcp_connection.cpp:122",
            "tcp_server.cpp:124"}

\* The type of a connection.
Conn == [events : SUBSET EventNames, index : {"k_new", "k_added", "k_deleted"},
         mapped : BOOLEAN, polled : BOOLEAN, interest : SUBSET EventNames,
         failed : SUBSET Asserts, loop_ : Nat, state_ : States,
         output_buffer_ : Seq(Nat), ups : Nat, downs : Nat, accepted : Nat, sends : Nat,
         late : BOOLEAN, condemned : BOOLEAN, peer : Peers, inq : Nat,
         so_error : BOOLEAN, room : Nat, wire : Seq(Nat), wrshut : BOOLEAN]

\* The stream to the peer: what was written is numbered 1, 2, ..., and unless the
\* socket is broken what waits continues it up to what was accepted.
Stream(x) ==
    /\ x.wire = Numbered(Len(x.wire))
    /\ ~Broken(x) => x.wire \o x.output_buffer_ = Numbered(x.accepted)

\* The four phases of a connection that nothing happened to that makes it
\* irregular: constructed, established, closed, and taken out of the poller.
Fresh(x) ==
    /\ x.state_ = "k_connecting" /\ x.index = "k_new" /\ ~x.mapped /\ ~x.polled
    /\ x.events = {} /\ x.output_buffer_ = <<>> /\ x.ups = 0 /\ x.downs = 0
    /\ ~x.wrshut /\ x.failed = {}
Up(x) ==
    /\ x.state_ \in {"k_connected", "k_disconnecting"}
    /\ x.index = "k_added" /\ x.mapped /\ x.polled
    /\ "IN" \in x.events /\ x.interest = x.events
    /\ "OUT" \in x.events <=> x.output_buffer_ # <<>>
    /\ x.ups = 1 /\ x.downs = 0
    /\ x.wrshut => x.output_buffer_ = <<>>
    /\ x.failed = {}
Closed(x) ==
    /\ x.state_ = "k_disconnected" /\ x.index = "k_deleted" /\ x.mapped /\ ~x.polled
    /\ x.events = {} /\ x.ups = 1 /\ x.downs = 1 /\ x.failed = {}
Removed(x) ==
    /\ x.state_ = "k_disconnected" /\ x.index = "k_new" /\ ~x.mapped /\ ~x.polled
    /\ x.events = {} /\ x.ups = 1 /\ x.downs = 1 /\ x.failed = {}

\* What every member function does to the fields that say where the connection
\* belongs and what happened to it.
Evolves(x, y) ==
    /\ y \in Conn /\ y.loop_ = x.loop_ /\ y.peer = x.peer /\ x.ups <= y.ups
    /\ x.late => y.late
    /\ x.condemned => y.condemned
    /\ Stream(x) => Stream(y)

\* A change of the channel only.
SameConnection(x, y) ==
    /\ y \in Conn /\ y.loop_ = x.loop_ /\ y.state_ = x.state_
    /\ y.output_buffer_ = x.output_buffer_ /\ y.ups = x.ups /\ y.downs = x.downs
    /\ y.accepted = x.accepted /\ y.sends = x.sends /\ y.late = x.late
    /\ y.condemned = x.condemned /\ y.peer = x.peer /\ y.inq = x.inq
    /\ y.so_error = x.so_error /\ y.room = x.room /\ y.wire = x.wire
    /\ y.wrshut = x.wrshut

-----------------------------------------------------------------------------
(* The channel.                                                            *)

\* SameConnection is transitive.
LEMMA SameTransitive ==
    ASSUME NEW x, NEW y, NEW z, SameConnection(x, y), SameConnection(y, z)
    PROVE  SameConnection(x, z)
  BY DEF SameConnection

Fails(x, where) == [x EXCEPT !.failed = @ \cup {where}]

\* A failing assert touches the channel only.
LEMMA AssertTouches ==
    ASSUME NEW x \in Conn, NEW where \in Asserts
    PROVE  /\ SameConnection(x, x)
           /\ SameConnection(x, Fails(x, where))
<1>1. x.failed \cup {where} \in SUBSET Asserts
  BY DEF Conn
<1>2. SameConnection(x, x)
  BY DEF SameConnection
<1>3. SameConnection(x, Fails(x, where))
  BY <1>1 DEF SameConnection, Conn, Fails
<1> QED  BY <1>2, <1>3

\* What update_channel and remove_channel assign.
LEMMA ChannelTouches ==
    ASSUME NEW x \in Conn, NEW E \in SUBSET EventNames
    PROVE  /\ SameConnection(x, [x EXCEPT !.events = E])
           /\ SameConnection(x, [x EXCEPT !.interest = E])
           /\ SameConnection(x, [x EXCEPT !.polled = FALSE, !.index = "k_deleted"])
           /\ SameConnection(x, [x EXCEPT !.mapped = FALSE, !.polled = FALSE,
                                         !.index = "k_new"])
           /\ SameConnection(x, [x EXCEPT !.mapped = TRUE, !.index = "k_added",
                                         !.polled = TRUE, !.interest = E])
<1>1. SameConnection(x, [x EXCEPT !.events = E])
  BY DEF SameConnection, Conn
<1>2. SameConnection(x, [x EXCEPT !.interest = E])
  BY DEF SameConnection, Conn
<1>3. SameConnection(x, [x EXCEPT !.polled = FALSE, !.index = "k_deleted"])
  BY DEF SameConnection, Conn
<1>4. SameConnection(x, [x EXCEPT !.mapped = FALSE, !.polled = FALSE, !.index = "k_new"])
  BY DEF SameConnection, Conn
<1>5. SameConnection(x, [x EXCEPT !.mapped = TRUE, !.index = "k_added",
                                 !.polled = TRUE, !.interest = E])
  BY DEF SameConnection, Conn
<1> QED  BY <1>1, <1>2, <1>3, <1>4, <1>5

\* Channel::update touches the channel only.
LEMMA UpdateChannel ==
    ASSUME NEW x \in Conn, NEW E \in SUBSET EventNames
    PROVE  SameConnection(x, update_channel([x EXCEPT !.events = E]))
<1> DEFINE w == [x EXCEPT !.events = E]
<1>1. SameConnection(x, w) /\ w.events = E
  BY ChannelTouches DEF Conn
<1>w. w \in Conn
  BY <1>1 DEF SameConnection
<1> HIDE DEF w
<1>2. CASE w.index \in {"k_new", "k_deleted"}
  <2> DEFINE v == Assert_(w, w.mapped <=> w.index = "k_deleted", "epoll_poller.cpp:78")
             z == [v EXCEPT !.mapped = TRUE, !.index = "k_added", !.polled = TRUE,
                            !.interest = E]
  <2>2. update_channel(w) = z
    BY <1>1, <1>2 DEF update_channel
  <2>f1. v = w \/ v = Fails(w, "epoll_poller.cpp:78")
    BY DEF Assert_, Fails
  <2> HIDE DEF v
  <2>1. SameConnection(w, v)
    BY <1>w, <2>f1, AssertTouches DEF Asserts
  <2>v. v \in Conn
    BY <2>1 DEF SameConnection
  <2>3. SameConnection(v, z)
    BY <2>v, ChannelTouches
  <2> HIDE DEF z
  <2>4. SameConnection(x, update_channel(w))
    BY <1>1, <2>1, <2>2, <2>3, SameTransitive
  <2> QED  BY <2>4 DEF w
<1>3. CASE w.index \notin {"k_new", "k_deleted"}
  <2> DEFINE v == Assert_(w, w.mapped, "epoll_poller.cpp:90")
             z == IF is_none_event(w)
                  THEN [v EXCEPT !.polled = FALSE, !.index = "k_deleted"]
                  ELSE [v EXCEPT !.interest = E]
  <2>2. update_channel(w) = z
    BY <1>1, <1>3 DEF update_channel
  <2>f1. v = w \/ v = Fails(w, "epoll_poller.cpp:90")
    BY DEF Assert_, Fails
  <2> HIDE DEF v
  <2>1. SameConnection(w, v)
    BY <1>w, <2>f1, AssertTouches DEF Asserts
  <2>v. v \in Conn
    BY <2>1 DEF SameConnection
  <2>3. SameConnection(v, z)
    BY <2>v, ChannelTouches
  <2> HIDE DEF z
  <2>4. SameConnection(x, update_channel(w))
    BY <1>1, <2>1, <2>2, <2>3, SameTransitive
  <2> QED  BY <2>4 DEF w
<1> QED  BY <1>2, <1>3

\* Epoll_Poller::update_channel, for a channel that it does not know yet.
LEMMA UpdateNew ==
    ASSUME NEW x \in Conn, NEW E \in SUBSET EventNames, x.index = "k_new", ~x.mapped
    PROVE  LET y == update_channel([x EXCEPT !.events = E])
           IN  y.events = E /\ y.interest = E /\ y.index = "k_added" /\ y.mapped /\ y.polled
               /\ y.failed = x.failed
  BY DEF Conn, update_channel, Assert_, is_none_event

\* Epoll_Poller::update_channel, for a channel that is in the epoll set.
LEMMA UpdateAdded ==
    ASSUME NEW x \in Conn, NEW E \in SUBSET EventNames, x.index = "k_added", x.mapped, x.polled
    PROVE  LET y == update_channel([x EXCEPT !.events = E])
           IN  /\ y.events = E /\ y.failed = x.failed /\ y.mapped
               /\ E # {} => y.interest = E /\ y.index = "k_added" /\ y.polled
               /\ E = {} => y.index = "k_deleted" /\ ~y.polled
  BY DEF Conn, update_channel, Assert_, is_none_event

\* Channel::remove.
LEMMA RemoveChannel ==
    ASSUME NEW x \in Conn
    PROVE  /\ SameConnection(x, remove(x))
           /\ remove(x).index = "k_new" /\ ~remove(x).mapped /\ ~remove(x).polled
           /\ remove(x).events = x.events
           /\ x.events = {} /\ x.mapped /\ x.index # "k_new" => remove(x).failed = x.failed
<1> DEFINE w == Assert_(x, is_none_event(x), "channel.cpp:95")
           v == Assert_(w, x.mapped /\ x.index # "k_new", "epoll_poller.cpp:107")
           z == [v EXCEPT !.mapped = FALSE, !.polled = FALSE, !.index = "k_new"]
<1>3. /\ x.events = {} /\ x.mapped /\ x.index # "k_new" => v.failed = x.failed
      /\ v.events = x.events
  BY DEF Assert_, is_none_event, Conn
<1>4. remove(x) = z
  BY DEF remove
<1>f1. w = x \/ w = Fails(x, "channel.cpp:95")
  BY DEF Assert_, Fails
<1> HIDE DEF w
<1>1. SameConnection(x, w)
  BY <1>f1, AssertTouches DEF Asserts
<1>w. w \in Conn
  BY <1>1 DEF SameConnection
<1>f2. v = w \/ v = Fails(w, "epoll_poller.cpp:107")
  BY DEF Assert_, Fails
<1> HIDE DEF v
<1>2. SameConnection(w, v)
  BY <1>w, <1>f2, AssertTouches DEF Asserts
<1>v. v \in Conn
  BY <1>2 DEF SameConnection
<1>5. SameConnection(v, z)
  BY <1>v, ChannelTouches
<1>6. z.index = "k_new" /\ ~z.mapped /\ ~z.polled /\ z.failed = v.failed /\ z.events = v.events
  BY <1>v DEF Conn
<1> HIDE DEF z
<1>7. SameConnection(x, z)
  BY <1>1, <1>2, <1>5, SameTransitive
<1> QED  BY <1>3, <1>4, <1>6, <1>7

-----------------------------------------------------------------------------
(* The bytes.                                                              *)

\* The elements of a concatenation.
LEMMA JoinSeq ==
    ASSUME NEW s \in Seq(Nat), NEW t \in Seq(Nat)
    PROVE  /\ s \o t \in Seq(Nat) /\ Len(s \o t) = Len(s) + Len(t)
           /\ \A i \in 1 .. Len(s) + Len(t) :
                (s \o t)[i] = IF i <= Len(s) THEN s[i] ELSE t[i - Len(s)]
  BY ConcatProperties, Zenon

\* Concatenation is associative.
LEMMA Associative ==
    ASSUME NEW s \in Seq(Nat), NEW t \in Seq(Nat), NEW u \in Seq(Nat)
    PROVE  (s \o t) \o u = s \o (t \o u)
  BY ConcatAssociative, SMTT(30)

\* Four pieces grouped in another way.
Grouped(a, p, b, q) == (a \o p) \o (b \o q) = (a \o (p \o b)) \o q

\* Concatenation of four pieces.
LEMMA Regroup ==
    ASSUME NEW a \in Seq(Nat), NEW p \in Seq(Nat), NEW b \in Seq(Nat), NEW q \in Seq(Nat)
    PROVE  Grouped(a, p, b, q)
<1> DEFINE ap == a \o p
<1>1. ap \in Seq(Nat)
  BY JoinSeq
<1>2. ap \o b = a \o (p \o b)
  BY Associative
<1> HIDE DEF ap
<1>3. (ap \o b) \o q = ap \o (b \o q)
  BY <1>1, Associative
<1> QED  BY <1>2, <1>3 DEF ap, Grouped

\* What is taken from the front of a sequence and what is left are the sequence.
LEMMA SplitSeq ==
    ASSUME NEW s \in Seq(Nat), NEW n \in 0 .. Len(s)
    PROVE  /\ SubSeq(s, 1, n) \in Seq(Nat) /\ SubSeq(s, n + 1, Len(s)) \in Seq(Nat)
           /\ Len(SubSeq(s, 1, n)) = n /\ Len(SubSeq(s, n + 1, Len(s))) = Len(s) - n
           /\ SubSeq(s, 1, n) \o SubSeq(s, n + 1, Len(s)) = s
<1> DEFINE p == SubSeq(s, 1, n)
           q == SubSeq(s, n + 1, Len(s))
<1>0. Len(s) \in Nat /\ n \in Nat /\ n <= Len(s)
  BY LenProperties
<1>1. p \in Seq(Nat) /\ Len(p) = n /\ \A i \in 1 .. n : p[i] = s[i]
  BY <1>0, SubSeqProperties
<1>2. q \in Seq(Nat) /\ Len(q) = Len(s) - n /\ \A i \in 1 .. Len(s) - n : q[i] = s[n + i]
  BY <1>0, SubSeqProperties
<1> HIDE DEF p, q
<1>3. p \o q \in Seq(Nat) /\ Len(p \o q) = Len(s)
  <2>1. p \o q \in Seq(Nat) /\ Len(p \o q) = Len(p) + Len(q)
    BY <1>1, <1>2, JoinSeq
  <2> QED  BY <1>0, <1>1, <1>2, <2>1
<1>4. ASSUME NEW i \in 1 .. Len(s) PROVE (p \o q)[i] = s[i]
  <2>1. i \in 1 .. Len(p) + Len(q)
    BY <1>0, <1>1, <1>2
  <2>2. (p \o q)[i] = IF i <= Len(p) THEN p[i] ELSE q[i - Len(p)]
    BY <1>1, <1>2, <2>1, JoinSeq
  <2>3. CASE i <= n
    BY <1>0, <1>1, <2>2, <2>3
  <2>4. CASE ~(i <= n)
    <3>1. i - n \in 1 .. Len(s) - n /\ n + (i - n) = i
      BY <1>0, <2>4
    <3>2. q[i - n] = s[i]
      BY <1>2, <3>1
    <3> QED  BY <1>1, <2>2, <2>4, <3>2
  <2> QED  BY <2>3, <2>4
<1>5. p \o q = s
  BY <1>3, <1>4, SeqEqual
<1> QED  BY <1>1, <1>2, <1>5 DEF p, q

\* 1, 2, ..., n as a sequence.
LEMMA NumberedSeq ==
    ASSUME NEW n \in Nat
    PROVE  /\ Numbered(n) \in Seq(Nat) /\ Len(Numbered(n)) = n
           /\ \A i \in 1 .. n : Numbered(n)[i] = i
  BY DEF Numbered

\* A beginning of 1, 2, ..., n is 1, 2, ..., k.
LEMMA NumberedBegins ==
    ASSUME NEW s \in Seq(Nat), NEW t \in Seq(Nat), NEW n \in Nat, s \o t = Numbered(n)
    PROVE  s = Numbered(Len(s)) /\ Len(s) + Len(t) = n
<1>1. Len(s) \in Nat /\ Len(t) \in Nat /\ Len(s \o t) = Len(s) + Len(t)
  BY LenProperties, ConcatProperties
<1>2. Len(s) + Len(t) = n
  BY <1>1, NumberedSeq
<1>3. \A i \in 1 .. Len(s) : s[i] = i
  <2> SUFFICES ASSUME NEW i \in 1 .. Len(s) PROVE s[i] = i
    OBVIOUS
  <2>1. (s \o t)[i] = s[i]
    BY <1>1, ConcatProperties
  <2>2. i \in 1 .. n
    BY <1>1, <1>2
  <2>3. Numbered(n)[i] = i
    BY <2>2, NumberedSeq
  <2> QED  BY <2>1, <2>3
<1>4. s = Numbered(Len(s))
  BY <1>1, <1>3, NumberedSeq, SeqEqual
<1> QED  BY <1>2, <1>4

\* The next bytes continue 1, 2, ..., a.
LEMMA NumberedContinues ==
    ASSUME NEW a \in Nat, NEW m \in Nat
    PROVE  LET next == [i \in 1 .. m |-> a + i]
           IN  next \in Seq(Nat) /\ Len(next) = m /\ Numbered(a) \o next = Numbered(a + m)
<1> DEFINE next == [i \in 1 .. m |-> a + i]
<1>1. next \in Seq(Nat) /\ Len(next) = m /\ \A i \in 1 .. m : next[i] = a + i
  OBVIOUS
<1> HIDE DEF next
<1>2. Numbered(a) \in Seq(Nat) /\ Len(Numbered(a)) = a /\ \A i \in 1 .. a : Numbered(a)[i] = i
  BY NumberedSeq
<1>3. a + m \in Nat
  OBVIOUS
<1>4. /\ Numbered(a + m) \in Seq(Nat) /\ Len(Numbered(a + m)) = a + m
      /\ \A i \in 1 .. a + m : Numbered(a + m)[i] = i
  BY <1>3, NumberedSeq
<1>5. Numbered(a) \o next \in Seq(Nat) /\ Len(Numbered(a) \o next) = a + m
  BY <1>1, <1>2, JoinSeq
<1>6. \A i \in 1 .. a + m : (Numbered(a) \o next)[i] = i
  BY <1>1, <1>2, JoinSeq
<1>7. Numbered(a) \o next = Numbered(a + m)
  BY <1>4, <1>5, <1>6, SeqEqual
<1> QED  BY <1>1, <1>7 DEF next

-----------------------------------------------------------------------------
(* Sending.                                                                *)

\* Two records that differ at most in the data they hold.
SameButData(x, y) ==
    /\ y \in Conn
    /\ y.events = x.events /\ y.index = x.index /\ y.mapped = x.mapped
    /\ y.polled = x.polled /\ y.interest = x.interest /\ y.failed = x.failed
    /\ y.loop_ = x.loop_ /\ y.state_ = x.state_ /\ y.ups = x.ups /\ y.downs = x.downs
    /\ y.late = x.late /\ y.condemned = x.condemned /\ y.peer = x.peer
    /\ y.wrshut = x.wrshut

\* Nothing happened to the connection that makes it irregular.
Steady(x) == ~x.late /\ ~x.condemned

\* A step that leaves an established connection, a closed or a removed one what it is.
Keeps(x, y) ==
    /\ Evolves(x, y)
    /\ Steady(y) /\ Up(x) => Up(y)
    /\ Steady(y) /\ Closed(x) => Closed(y)
    /\ Steady(y) /\ Removed(x) => Removed(y)

\* Evolves is reflexive and transitive.
LEMMA EvolvesTransitive ==
    /\ \A x \in Conn : Evolves(x, x)
    /\ \A x, y, z \in Conn : Evolves(x, y) /\ Evolves(y, z) => Evolves(x, z)
<1>1. ASSUME NEW x \in Conn PROVE Evolves(x, x)
  <2>1. x.ups \in Nat
    BY DEF Conn
  <2> QED  BY <2>1 DEF Evolves
<1>2. ASSUME NEW x \in Conn, NEW y \in Conn, NEW z \in Conn, Evolves(x, y), Evolves(y, z)
      PROVE  Evolves(x, z)
  <2>1. x.ups \in Nat /\ y.ups \in Nat /\ z.ups \in Nat
    BY DEF Conn
  <2>2. x.ups <= z.ups
    BY <1>2, <2>1 DEF Evolves
  <2> QED  BY <1>2, <2>2 DEF Evolves
<1> QED  BY <1>1, <1>2

\* Keeps is reflexive and transitive.
LEMMA KeepsTransitive ==
    /\ \A x \in Conn : Keeps(x, x)
    /\ \A x, y, z \in Conn : Keeps(x, y) /\ Keeps(y, z) => Keeps(x, z)
<1>1. \A x \in Conn : Keeps(x, x)
  BY EvolvesTransitive DEF Keeps
<1>2. ASSUME NEW x \in Conn, NEW y \in Conn, NEW z \in Conn, Keeps(x, y), Keeps(y, z)
      PROVE  Keeps(x, z)
  <2>1. Evolves(x, z) /\ (Steady(z) => Steady(y))
    BY <1>2, EvolvesTransitive DEF Keeps, Evolves, Steady
  <2> QED  BY <1>2, <2>1 DEF Keeps
<1> QED  BY <1>1, <1>2

\* A change of the channel leaves the stream alone.
LEMMA SameEvolves ==
    ASSUME NEW x \in Conn, NEW y, SameConnection(x, y)
    PROVE  y \in Conn /\ Evolves(x, y) /\ y.late = x.late /\ y.condemned = x.condemned
<1>1. y \in Conn /\ y.ups = x.ups /\ x.ups \in Nat
  BY DEF SameConnection, Conn
<1>2. Stream(x) => Stream(y)
  BY DEF SameConnection, Stream, Broken
<1> QED  BY <1>1, <1>2 DEF SameConnection, Evolves

\* write() takes a beginning of the bytes, and nothing when the socket is broken.
LEMMA WriteTakes ==
    ASSUME NEW x \in Conn, NEW bytes \in Seq(Nat)
    PROVE  LET n == Taken(x, bytes)
               y == write(x, bytes)
           IN  /\ n \in 0 .. Len(bytes)
               /\ Broken(x) => n = 0
               /\ SameButData(x, y) /\ y.output_buffer_ = x.output_buffer_
               /\ y.accepted = x.accepted
               /\ y.wire = x.wire \o SubSeq(bytes, 1, n)
<1> DEFINE n == Taken(x, bytes)
<1>1. n \in 0 .. Len(bytes) /\ n <= x.room /\ (Broken(x) => n = 0) /\ x.room \in Nat
  BY LenProperties DEF Taken, Conn
<1>0. x.wire \in Seq(Nat) /\ x.room - n \in Nat
  BY <1>1 DEF Conn
<1>a. SubSeq(bytes, 1, n) \in Seq(Nat)
  BY <1>1, SplitSeq
<1> DEFINE W == x.wire \o SubSeq(bytes, 1, n)
           R == x.room - n
<1>2. W \in Seq(Nat) /\ R \in Nat
  BY <1>0, <1>a, JoinSeq
<1>3. PICK e \in BOOLEAN : e = (x.so_error /\ ~Broken(x))
  OBVIOUS
<1>4. write(x, bytes) = [x EXCEPT !.wire = W, !.room = R, !.so_error = e]
  BY <1>3 DEF write
<1> HIDE DEF n, W, R
<1> DEFINE y == [x EXCEPT !.wire = W, !.room = R, !.so_error = e]
<1>5. y \in Conn
  BY <1>2 DEF Conn
<1>6. y.wire = W /\ y.output_buffer_ = x.output_buffer_ /\ y.accepted = x.accepted
  BY DEF Conn
<1>7. SameButData(x, y)
  BY <1>5 DEF Conn, SameButData
<1> HIDE DEF y
<1>8. write(x, bytes) = y
  BY <1>4 DEF y
<1> QED  BY <1>1, <1>6, <1>7, <1>8 DEF n, W

\* Two records that differ at most in the data they hold and in the channel.
SameStatus(x, y) ==
    /\ y \in Conn /\ y.loop_ = x.loop_ /\ y.state_ = x.state_ /\ y.ups = x.ups
    /\ y.downs = x.downs /\ y.late = x.late /\ y.condemned = x.condemned
    /\ y.peer = x.peer /\ y.wrshut = x.wrshut

\* send_in_loop: what could not be written waits, and OUT events are enabled.
LEMMA Buffered ==
    ASSUME NEW x \in Conn, NEW y, SameButData(x, y), NEW rest \in Seq(Nat), rest # <<>>
    PROVE  LET z == [y EXCEPT !.output_buffer_ = @ \o rest]
               r == IF is_writing(z) THEN z ELSE enable_writing(z)
           IN  /\ SameStatus(x, r)
               /\ r.wire = y.wire /\ r.accepted = y.accepted
               /\ r.output_buffer_ = y.output_buffer_ \o rest
               /\ Up(x) /\ ~x.wrshut => Up(r)
<1> DEFINE z == [y EXCEPT !.output_buffer_ = @ \o rest]
           E == z.events \cup {"OUT"}
           w == update_channel([z EXCEPT !.events = E])
           r == IF is_writing(z) THEN z ELSE enable_writing(z)
<1>1. y \in Conn
  BY DEF SameButData
<1>2. y.output_buffer_ \in Seq(Nat)
  BY <1>1 DEF Conn
<1>3. y.output_buffer_ \o rest \in Seq(Nat)
  BY <1>2, JoinSeq
<1>4. y.output_buffer_ \o rest # <<>>
  <2>1. Len(y.output_buffer_ \o rest) = Len(y.output_buffer_) + Len(rest)
    BY <1>2, JoinSeq
  <2>2. Len(rest) # 0 /\ Len(rest) \in Nat /\ Len(y.output_buffer_) \in Nat
    BY <1>2, LenProperties, EmptySeq
  <2>3. Len(y.output_buffer_ \o rest) # 0
    BY <2>1, <2>2
  <2> QED  BY <1>3, <2>3, EmptySeq
<1>5. /\ SameButData(x, z) /\ z.wire = y.wire /\ z.accepted = y.accepted
      /\ z.output_buffer_ = y.output_buffer_ \o rest
  BY <1>1, <1>3 DEF SameButData, Conn
<1>6. z \in Conn /\ E \in SUBSET EventNames
  BY <1>5 DEF SameButData, Conn, EventNames
<1>7. r = IF "OUT" \in z.events THEN z ELSE w
  BY DEF is_writing, enable_writing
<1> HIDE DEF z, r
<1>8. SameConnection(z, w)
  BY <1>6, UpdateChannel
<1>9. Up(x) => z.index = "k_added" /\ z.mapped /\ z.polled
  BY <1>5 DEF Up, SameButData
<1>e. E # {} /\ "OUT" \in E /\ (Up(x) => "IN" \in E)
  BY <1>5 DEF SameButData, Up
<1> HIDE DEF E
<1>10. Up(x) => w.events = E /\ w.failed = z.failed /\ w.mapped
                /\ w.interest = E /\ w.index = "k_added" /\ w.polled
  BY <1>6, <1>9, <1>e, UpdateAdded
<1> HIDE DEF w
<1>11. SameStatus(x, z) /\ (Up(x) /\ ~x.wrshut /\ "OUT" \in z.events => Up(z))
  BY <1>4, <1>5 DEF SameButData, SameStatus, Up
<1>12. /\ SameStatus(x, w) /\ w.wire = y.wire /\ w.accepted = y.accepted
       /\ w.output_buffer_ = y.output_buffer_ \o rest
  BY <1>5, <1>8, <1>11 DEF SameConnection, SameStatus
<1>13. Up(x) /\ ~x.wrshut => Up(w)
  BY <1>4, <1>5, <1>e, <1>10, <1>12 DEF SameButData, SameStatus, Up
<1>14. /\ SameStatus(x, r) /\ r.wire = y.wire /\ r.accepted = y.accepted
       /\ r.output_buffer_ = y.output_buffer_ \o rest
       /\ Up(x) /\ ~x.wrshut => Up(r)
  BY <1>5, <1>7, <1>11, <1>12, <1>13
<1> QED  BY <1>14 DEF r, z

\* A step that keeps the status, and of which the stream is known.
LEMMA StatusKeeps ==
    ASSUME NEW x \in Conn, NEW y, SameStatus(x, y), Stream(x) => Stream(y),
           Up(x) => Up(y), x.state_ # "k_disconnected"
    PROVE  y \in Conn /\ Keeps(x, y)
<1>1. x.ups \in Nat /\ x.ups <= y.ups
  BY DEF Conn, SameStatus
<1>2. Evolves(x, y)
  BY <1>1 DEF SameStatus, Evolves
<1> QED  BY <1>2 DEF SameStatus, Keeps, Closed, Removed

\* A step that touches nothing the phases and the stream depend on.
LEMMA DataKeeps ==
    ASSUME NEW x \in Conn, NEW y, SameButData(x, y), y.wire = x.wire,
           y.output_buffer_ = x.output_buffer_, y.accepted = x.accepted
    PROVE  /\ y \in Conn /\ Keeps(x, y) /\ (Fresh(x) => Fresh(y))
<1>1. x.ups \in Nat
  BY DEF Conn
<1>2. Stream(x) => Stream(y)
  BY DEF SameButData, Stream, Broken
<1>3. Evolves(x, y)
  BY <1>1, <1>2 DEF SameButData, Evolves
<1>4. (Up(x) => Up(y)) /\ (Fresh(x) => Fresh(y))
  BY DEF SameButData, Up, Fresh
<1>5. (Closed(x) => Closed(y)) /\ (Removed(x) => Removed(y))
  BY DEF SameButData, Closed, Removed
<1> QED  BY <1>3, <1>4, <1>5 DEF SameButData, Keeps

\* send_in_loop.
LEMMA SendInLoop ==
    ASSUME NEW x \in Conn
    PROVE  /\ send_in_loop(x) \in Conn /\ Keeps(x, send_in_loop(x))
           /\ send_in_loop(x).state_ = x.state_
<1> DEFINE bytes == [i \in 1 .. MsgLen |-> x.accepted + i]
           direct == ~is_writing(x) /\ x.output_buffer_ = <<>>
           n == IF direct THEN Taken(x, bytes) ELSE 0
           x0 == IF direct THEN write(x, bytes) ELSE x
           y == [x0 EXCEPT !.accepted = @ + MsgLen]
           rest == SubSeq(bytes, n + 1, MsgLen)
           z == [y EXCEPT !.output_buffer_ = @ \o rest]
           r == IF is_writing(z) THEN z ELSE enable_writing(z)
<1>1. CASE x.state_ = "k_disconnected"
  BY <1>1, KeepsTransitive DEF send_in_loop
<1>2. CASE x.state_ # "k_disconnected"
  <2>0. send_in_loop(x) = IF (direct /\ Broken(x)) \/ rest = <<>> THEN y ELSE r
    BY <1>2 DEF send_in_loop
  <2>1. /\ x.accepted \in Nat /\ MsgLen \in Nat /\ MsgLen # 0 /\ x.wire \in Seq(Nat)
        /\ x.output_buffer_ \in Seq(Nat)
    BY ConnectionAssumption DEF Conn
  <2>2. /\ bytes \in Seq(Nat) /\ Len(bytes) = MsgLen
        /\ Numbered(x.accepted) \o bytes = Numbered(x.accepted + MsgLen)
    BY <2>1, NumberedContinues
  <2> HIDE DEF bytes
  <2>3. n \in 0 .. MsgLen /\ (direct /\ Broken(x) => n = 0)
    BY <2>1, <2>2, WriteTakes
  <2>4. /\ SubSeq(bytes, 1, n) \in Seq(Nat) /\ rest \in Seq(Nat)
        /\ SubSeq(bytes, 1, n) \o rest = bytes /\ Len(rest) = MsgLen - n
        /\ Len(SubSeq(bytes, 1, n)) = n
    BY <2>2, <2>3, SplitSeq
  <2>n. n = 0 => SubSeq(bytes, 1, n) = <<>>
    BY <2>4, EmptySeq
  <2>e. x.wire \o <<>> = x.wire
    BY <2>1, ConcatEmptySeq
  <2>5. /\ SameButData(x, x0) /\ x0.output_buffer_ = x.output_buffer_
        /\ x0.accepted = x.accepted
        /\ x0.wire = x.wire \o SubSeq(bytes, 1, n)
    <3>1. CASE direct
      BY <2>2, <3>1, WriteTakes
    <3>2. CASE ~direct
      BY <2>n, <2>e, <3>2 DEF SameButData
    <3> QED  BY <3>1, <3>2
  <2> HIDE DEF x0
  <2>6. /\ SameButData(x, y) /\ y.output_buffer_ = x.output_buffer_
        /\ y.accepted = x.accepted + MsgLen
        /\ y.wire = x.wire \o SubSeq(bytes, 1, n)
    <3>1. x0 \in Conn /\ x0.accepted + MsgLen \in Nat
      BY <2>1, <2>5 DEF SameButData
    <3> QED  BY <2>5, <3>1 DEF SameButData, Conn
  <2> HIDE DEF y
  <2>7. SameStatus(x, y)
    BY <2>6 DEF SameButData, SameStatus
  \* What is in the wire and in the buffer when the rest is not stored.
  <2>8. CASE (direct /\ Broken(x)) \/ rest = <<>>
    <3>1. direct
      <4>1. Len(rest) = 0 => n = MsgLen
        BY <2>1, <2>3, <2>4
      <4> QED  BY <2>1, <2>8, <4>1
    <3>2. Stream(x) => Stream(y)
      <4> SUFFICES ASSUME Stream(x) PROVE Stream(y)
        OBVIOUS
      <4>1. CASE Broken(x)
        <5>1. y.wire = x.wire /\ Broken(y)
          BY <2>3, <2>n, <2>e, <2>6, <3>1, <4>1 DEF Broken, SameButData
        <5> QED  BY <5>1 DEF Stream
      <4>2. CASE ~Broken(x)
        <5>1. SubSeq(bytes, 1, n) = bytes
          <6>1. rest = <<>>
            BY <2>8, <4>2
          <6> QED  BY <2>4, <6>1, ConcatEmptySeq
        <5>2. x.wire = Numbered(x.accepted)
          BY <2>e, <3>1, <4>2 DEF Stream
        <5>3. y.wire = Numbered(y.accepted) /\ y.output_buffer_ = <<>>
          BY <2>2, <2>6, <3>1, <5>1, <5>2
        <5>4. y.accepted \in Nat
          BY <2>1, <2>6
        <5>5. y.wire \in Seq(Nat) /\ Len(y.wire) = y.accepted
          BY <5>3, <5>4, NumberedSeq
        <5> QED  BY <5>3, <5>5, ConcatEmptySeq DEF Stream
      <4> QED  BY <4>1, <4>2
    <3>3. Up(x) => Up(y)
      BY <2>6 DEF SameButData, Up
    <3> QED  BY <1>2, <2>0, <2>7, <2>8, <3>2, <3>3, StatusKeeps DEF SameStatus
  <2>9. CASE ~((direct /\ Broken(x)) \/ rest = <<>>)
    <3>1. /\ SameStatus(x, r) /\ r.wire = y.wire /\ r.accepted = y.accepted
          /\ r.output_buffer_ = y.output_buffer_ \o rest
          /\ Up(x) /\ ~x.wrshut => Up(r)
      BY <2>4, <2>6, <2>9, Buffered
    <3> HIDE DEF r
    <3>2. Stream(x) => Stream(r)
      <4> SUFFICES ASSUME Stream(x) PROVE Stream(r)
        OBVIOUS
      <4>1. CASE Broken(x)
        <5>1. ~direct
          BY <2>9, <4>1
        <5>2. r.wire = x.wire /\ Broken(r)
          BY <2>n, <2>e, <2>6, <3>1, <4>1, <5>1 DEF Broken, SameStatus
        <5> QED  BY <5>2 DEF Stream
      <4>2. CASE ~Broken(x)
        <5>1. x.wire \o x.output_buffer_ = Numbered(x.accepted)
          BY <4>2 DEF Stream
        <5> DEFINE p == SubSeq(bytes, 1, n)
        <5>2. x.output_buffer_ \o p = p \o x.output_buffer_
          <6>1. CASE direct
            BY <2>4, <6>1, ConcatEmptySeq
          <6>2. CASE ~direct
            BY <2>1, <2>n, <6>2, ConcatEmptySeq
          <6> QED  BY <6>1, <6>2
        <5> HIDE DEF p, rest, n, direct
        <5>3. r.wire \o r.output_buffer_
                = (x.wire \o p) \o (x.output_buffer_ \o rest)
          BY <2>6, <3>1 DEF p
        <5>4. p \in Seq(Nat) /\ rest \in Seq(Nat) /\ p \o rest = bytes
          BY <2>4 DEF p
        <5>5. r.wire \o r.output_buffer_ = (x.wire \o x.output_buffer_) \o bytes
          <6>0. /\ p \in Seq(Nat) /\ rest \in Seq(Nat)
                /\ x.wire \in Seq(Nat) /\ x.output_buffer_ \in Seq(Nat)
            BY <2>1, <5>4
          <6>1. /\ Grouped(x.wire, p, x.output_buffer_, rest)
                /\ Grouped(x.wire, x.output_buffer_, p, rest)
            BY <6>0, Regroup
          <6> QED  BY <5>2, <5>3, <5>4, <6>1 DEF Grouped
        <5>6. r.wire \o r.output_buffer_ = Numbered(r.accepted)
          BY <2>2, <2>6, <3>1, <5>1, <5>5
        <5>7. r.wire \in Seq(Nat) /\ r.output_buffer_ \in Seq(Nat) /\ r.accepted \in Nat
          BY <3>1 DEF SameStatus, Conn
        <5>8. r.wire = Numbered(Len(r.wire))
          BY <5>6, <5>7, NumberedBegins
        <5> QED  BY <5>6, <5>8 DEF Stream
      <4> QED  BY <4>1, <4>2
    <3>3. Up(x) => Up(r)
      <4>1. ASSUME Up(x), x.wrshut PROVE FALSE
        BY <2>9, <4>1 DEF Up, Broken, is_writing
      <4> QED  BY <3>1, <4>1
    <3>4. send_in_loop(x) = r
      BY <2>0, <2>9
    <3> QED  BY <1>2, <3>1, <3>2, <3>3, <3>4, StatusKeeps DEF SameStatus
  <2> QED  BY <2>8, <2>9
<1> QED  BY <1>1, <1>2

\* shut_down_in_loop: on an established connection only when nothing waits.
LEMMA ShutDownInLoop ==
    ASSUME NEW x \in Conn
    PROVE  /\ shut_down_in_loop(x) \in Conn /\ Keeps(x, shut_down_in_loop(x))
           /\ shut_down_in_loop(x).state_ = x.state_
<1>1. CASE is_writing(x)
  BY <1>1, KeepsTransitive DEF shut_down_in_loop
<1>2. CASE ~is_writing(x)
  <2>1. PICK b \in BOOLEAN : b = (x.wrshut \/ x.peer # "rst")
    OBVIOUS
  <2> DEFINE y == [x EXCEPT !.wrshut = b]
  <2>2. shut_down_in_loop(x) = y
    BY <1>2, <2>1 DEF shut_down_in_loop
  <2>3. x.wrshut => b
    BY <2>1
  <2>4. /\ y \in Conn /\ y.wrshut = b /\ y.wire = x.wire /\ y.output_buffer_ = x.output_buffer_
        /\ y.accepted = x.accepted /\ y.peer = x.peer /\ y.loop_ = x.loop_
        /\ y.ups = x.ups /\ y.downs = x.downs /\ y.late = x.late
        /\ y.condemned = x.condemned /\ y.state_ = x.state_
    BY DEF Conn, SameConnection
  <2>5. /\ y.events = x.events /\ y.index = x.index /\ y.mapped = x.mapped
        /\ y.polled = x.polled /\ y.interest = x.interest /\ y.failed = x.failed
    BY DEF Conn
  <2> HIDE DEF y
  <2>6. Stream(x) => Stream(y)
    BY <2>3, <2>4 DEF Stream, Broken
  <2>7. Evolves(x, y)
    <3>1. x.ups \in Nat
      BY DEF Conn
    <3> QED  BY <2>4, <2>6, <3>1 DEF Evolves
  <2>8. Up(x) => Up(y)
    BY <1>2, <2>4, <2>5 DEF Up, is_writing
  <2>9. (Closed(x) => Closed(y)) /\ (Removed(x) => Removed(y))
    BY <2>4, <2>5 DEF Closed, Removed
  <2> QED  BY <2>2, <2>4, <2>7, <2>8, <2>9 DEF Keeps
<1> QED  BY <1>1, <1>2

\* The exchange of state_ in shutdown(): a connection that was closed becomes irregular.
LEMMA ExchangeDisconnecting ==
    ASSUME NEW x \in Conn
    PROVE  /\ exchange_disconnecting(x) \in Conn /\ Keeps(x, exchange_disconnecting(x))
           /\ exchange_disconnecting(x).mapped = x.mapped
           /\ exchange_disconnecting(x).polled = x.polled
           /\ exchange_disconnecting(x).state_ = "k_disconnecting"
<1>1. PICK b \in BOOLEAN : b = (x.late \/ x.state_ = "k_disconnected")
  OBVIOUS
<1> DEFINE y == [x EXCEPT !.state_ = "k_disconnecting", !.late = b]
<1>2. exchange_disconnecting(x) = y
  BY <1>1 DEF exchange_disconnecting
<1>3. x.late => b
  BY <1>1
<1>4. x.state_ = "k_disconnected" => b
  BY <1>1
<1>5. /\ y \in Conn /\ y.wrshut = x.wrshut /\ y.wire = x.wire
      /\ y.output_buffer_ = x.output_buffer_
      /\ y.accepted = x.accepted /\ y.peer = x.peer /\ y.loop_ = x.loop_
      /\ y.ups = x.ups /\ y.downs = x.downs /\ y.late = b
      /\ y.condemned = x.condemned /\ y.state_ = "k_disconnecting"
  BY DEF Conn, States
<1>6. /\ y.events = x.events /\ y.index = x.index /\ y.mapped = x.mapped
      /\ y.polled = x.polled /\ y.interest = x.interest /\ y.failed = x.failed
  BY DEF Conn
<1> HIDE DEF y
<1>7. Stream(x) => Stream(y)
  BY <1>5 DEF Stream, Broken
<1>8. Evolves(x, y)
  <2>1. x.ups \in Nat
    BY DEF Conn
  <2> QED  BY <1>3, <1>5, <1>7, <2>1 DEF Evolves
<1>9. Up(x) => Up(y)
  BY <1>5, <1>6 DEF Up
<1>10. Closed(x) \/ Removed(x) => ~Steady(y)
  BY <1>4, <1>5 DEF Closed, Removed, Steady
<1> QED  BY <1>2, <1>5, <1>6, <1>8, <1>9, <1>10 DEF Keeps

\* What user code does in a callback.
LEMMA Callback ==
    ASSUME NEW x \in Conn, NEW u \in CallbackChoices
    PROVE  /\ callback(x, u) \in Conn /\ Keeps(x, callback(x, u))
           /\ x.state_ # "k_connected" => callback(x, u).state_ # "k_connected"
<1>1. CASE u = "nothing"
  BY <1>1, KeepsTransitive DEF callback
<1>2. CASE u = "send"
  <2> DEFINE y == send(x)
             z == [y EXCEPT !.sends = @ + 1]
  <2>1. y \in Conn /\ Keeps(x, y) /\ y.state_ = x.state_
    BY SendInLoop, KeepsTransitive DEF send
  <2>2. callback(x, u) = z
    BY <1>2 DEF callback
  <2> HIDE DEF y
  <2>b. y \in Conn
    BY <2>1
  <2>s. y.sends \in Nat
    BY <2>b DEF Conn
  <2>3. PICK k \in Nat : k = y.sends + 1
    BY <2>s
  <2>a. z = [y EXCEPT !.sends = k]
    BY <2>3
  <2> HIDE DEF z
  <2>c. z \in Conn
    BY <2>a, <2>b DEF Conn
  <2>d. z.wire = y.wire /\ z.output_buffer_ = y.output_buffer_ /\ z.accepted = y.accepted
    BY <2>a, <2>b DEF Conn
  <2>4. SameButData(y, z) /\ z.wire = y.wire /\ z.output_buffer_ = y.output_buffer_
        /\ z.accepted = y.accepted
    BY <2>a, <2>b, <2>c, <2>d DEF SameButData, Conn
  <2>5. Keeps(y, z)
    BY <2>1, <2>4, DataKeeps
  <2>6. z \in Conn
    BY <2>4 DEF SameButData
  <2>7. z.state_ = x.state_
    BY <2>1, <2>4 DEF SameButData
  <2> QED  BY <2>1, <2>2, <2>5, <2>6, <2>7, KeepsTransitive
<1>3. CASE u = "shutdown"
  <2> DEFINE y == exchange_disconnecting(x)
             z == IF x.state_ = "k_connected" THEN shut_down_in_loop(y) ELSE y
  <2>1. callback(x, u) = z
    BY <1>3 DEF callback, shutdown
  <2>2. y \in Conn /\ Keeps(x, y) /\ y.state_ = "k_disconnecting"
    BY ExchangeDisconnecting
  <2> HIDE DEF y
  <2>3. z \in Conn /\ Keeps(y, z) /\ z.state_ = "k_disconnecting"
    BY <2>2, ShutDownInLoop, KeepsTransitive
  <2> QED  BY <2>1, <2>2, <2>3, KeepsTransitive
<1> QED  BY <1>1, <1>2, <1>3 DEF CallbackChoices

-----------------------------------------------------------------------------
(* The life of a connection.                                               *)

\* w is x when connection_callback_ has been counted, before user code runs.
Told(x, w) ==
    /\ w.ups = (IF x.state_ = "k_connected" THEN x.ups + 1 ELSE x.ups)
    /\ w.downs = (IF x.state_ = "k_connected" THEN x.downs ELSE x.downs + 1)
    /\ w.state_ = x.state_ /\ w.index = x.index /\ w.mapped = x.mapped
    /\ w.polled = x.polled /\ w.events = x.events
    /\ w.interest = x.interest /\ w.failed = x.failed
    /\ w.output_buffer_ = x.output_buffer_ /\ w.wrshut = x.wrshut

\* The call of connection_callback_: ups or downs is counted, then user code runs.
LEMMA ConnectionCallback ==
    ASSUME NEW x \in Conn, NEW u \in CallbackChoices
    PROVE  LET y == connection_callback_(x, u)
           IN  /\ y \in Conn /\ Evolves(x, y) /\ \E w \in Conn : Told(x, w) /\ Keeps(w, y)
               /\ x.state_ # "k_connected" => y.state_ # "k_connected"
<1> DEFINE up == x.state_ = "k_connected"
<1>1. PICK a \in Nat : a = IF up THEN x.ups + 1 ELSE x.ups
  BY DEF Conn
<1>2. PICK d \in Nat : d = IF up THEN x.downs ELSE x.downs + 1
  BY DEF Conn
<1> DEFINE w == [x EXCEPT !.ups = a, !.downs = d]
<1>3. connection_callback_(x, u) = callback(w, u)
  BY <1>1, <1>2 DEF connection_callback_
<1>4. /\ w \in Conn /\ w.ups = a /\ w.downs = d
      /\ w.state_ = x.state_ /\ w.index = x.index /\ w.mapped = x.mapped
      /\ w.polled = x.polled /\ w.events = x.events
      /\ w.interest = x.interest /\ w.failed = x.failed
      /\ w.output_buffer_ = x.output_buffer_ /\ w.wrshut = x.wrshut
      /\ w.wire = x.wire /\ w.accepted = x.accepted /\ w.peer = x.peer
      /\ w.loop_ = x.loop_ /\ w.late = x.late /\ w.condemned = x.condemned
  BY DEF Conn
<1> HIDE DEF w
<1>5. x.ups \in Nat /\ x.ups <= w.ups
  BY <1>1, <1>4, SMTT(30) DEF Conn
<1>6. Stream(x) => Stream(w)
  BY <1>4 DEF Stream, Broken
<1>7. Evolves(x, w)
  BY <1>4, <1>5, <1>6 DEF Evolves
<1>8. /\ callback(w, u) \in Conn /\ Keeps(w, callback(w, u))
      /\ w.state_ # "k_connected" => callback(w, u).state_ # "k_connected"
  BY <1>4, Callback
<1>9. Evolves(x, callback(w, u))
  BY <1>4, <1>7, <1>8, EvolvesTransitive DEF Keeps
<1>10. Told(x, w)
  BY <1>1, <1>2, <1>4 DEF Told
<1> QED  BY <1>3, <1>4, <1>8, <1>9, <1>10

\* The assignment of state_.
LEMMA SetState ==
    ASSUME NEW x \in Conn, NEW st \in States
    PROVE  LET y == [x EXCEPT !.state_ = st]
           IN  /\ y \in Conn /\ Evolves(x, y) /\ y.state_ = st
               /\ y.events = x.events /\ y.index = x.index /\ y.mapped = x.mapped
               /\ y.polled = x.polled /\ y.interest = x.interest /\ y.failed = x.failed
               /\ y.output_buffer_ = x.output_buffer_ /\ y.ups = x.ups
               /\ y.downs = x.downs /\ y.wrshut = x.wrshut
<1> DEFINE y == [x EXCEPT !.state_ = st]
<1>1. /\ y \in Conn /\ y.state_ = st
      /\ y.events = x.events /\ y.index = x.index /\ y.mapped = x.mapped
      /\ y.polled = x.polled /\ y.interest = x.interest /\ y.failed = x.failed
      /\ y.output_buffer_ = x.output_buffer_ /\ y.ups = x.ups
      /\ y.downs = x.downs /\ y.wrshut = x.wrshut
      /\ y.wire = x.wire /\ y.accepted = x.accepted /\ y.peer = x.peer
      /\ y.loop_ = x.loop_ /\ y.late = x.late /\ y.condemned = x.condemned
  BY DEF Conn
<1> HIDE DEF y
<1>2. x.ups \in Nat
  BY DEF Conn
<1>3. Stream(x) => Stream(y)
  BY <1>1 DEF Stream, Broken
<1>4. Evolves(x, y)
  BY <1>1, <1>2, <1>3 DEF Evolves
<1> QED  BY <1>1, <1>4 DEF y

\* connect_established: a connection that was just constructed is up.
LEMMA ConnectEstablished ==
    ASSUME NEW x \in Conn, NEW u \in CallbackChoices
    PROVE  LET y == connect_established(x, u)
           IN  /\ y \in Conn /\ Evolves(x, y)
               /\ Fresh(x) /\ Steady(y) => Up(y)
<1> DEFINE x1 == Assert_(x, x.state_ = "k_connecting", "tcp_connection.cpp:122")
           x2 == [x1 EXCEPT !.state_ = "k_connected"]
           E == x2.events \cup {"IN"}
           x3 == update_channel([x2 EXCEPT !.events = E])
           y == connection_callback_(x3, u)
<1>1. connect_established(x, u) = y
  BY DEF connect_established, enable_reading
<1>2. (x1 = x \/ x1 = Fails(x, "tcp_connection.cpp:122")) /\ (Fresh(x) => x1 = x)
  BY DEF Assert_, Fails, Fresh
<1> HIDE DEF x1
<1>3. SameConnection(x, x1)
  BY <1>2, AssertTouches DEF Asserts
<1>4. x1 \in Conn /\ Evolves(x, x1)
  BY <1>3, SameEvolves
<1>5. /\ x2 \in Conn /\ Evolves(x1, x2) /\ x2.state_ = "k_connected"
      /\ x2.events = x1.events /\ x2.index = x1.index /\ x2.mapped = x1.mapped
      /\ x2.failed = x1.failed /\ x2.output_buffer_ = x1.output_buffer_
      /\ x2.ups = x1.ups /\ x2.downs = x1.downs /\ x2.wrshut = x1.wrshut
  BY <1>4, SetState DEF States
<1> HIDE DEF x2
<1>6. E \in SUBSET EventNames /\ "IN" \in E
  BY <1>5 DEF Conn, EventNames
<1>e. Fresh(x) => E = {"IN"}
  BY <1>2, <1>5 DEF Fresh
<1> HIDE DEF E
<1>7. SameConnection(x2, x3)
  BY <1>5, <1>6, UpdateChannel
<1>8. x3 \in Conn /\ Evolves(x2, x3)
  BY <1>5, <1>7, SameEvolves
<1>9. Fresh(x) => x3.events = E /\ x3.interest = E /\ x3.index = "k_added" /\ x3.mapped
                  /\ x3.polled /\ x3.failed = {}
  <2>1. Fresh(x) => x2.index = "k_new" /\ ~x2.mapped /\ x2.failed = {}
    BY <1>2, <1>5 DEF Fresh
  <2> QED  BY <1>5, <1>6, <2>1, UpdateNew
<1> HIDE DEF x3
<1>10. y \in Conn /\ Evolves(x3, y) /\ \E w \in Conn : Told(x3, w) /\ Keeps(w, y)
  BY <1>8, ConnectionCallback
<1> HIDE DEF y
<1>11. PICK w \in Conn : Told(x3, w) /\ Keeps(w, y)
  BY <1>10
<1>12. Evolves(x, y)
  BY <1>4, <1>5, <1>8, <1>10, EvolvesTransitive
<1>13. ASSUME Fresh(x) PROVE Up(w)
  <2>1. /\ x3.state_ = "k_connected" /\ x3.ups = 0 /\ x3.downs = 0
        /\ x3.output_buffer_ = <<>> /\ ~x3.wrshut
    BY <1>2, <1>5, <1>7, <1>13 DEF SameConnection, Fresh
  <2> QED  BY <1>9, <1>e, <1>11, <1>13, <2>1 DEF Up, Told
<1>14. Fresh(x) /\ Steady(y) => Up(y)
  BY <1>11, <1>13 DEF Keeps
<1> QED  BY <1>1, <1>10, <1>12, <1>14

\* handle_close: an established connection is closed.
LEMMA HandleClose ==
    ASSUME NEW x \in Conn, NEW u \in CallbackChoices
    PROVE  LET y == handle_close(x, u)
           IN  /\ y \in Conn /\ Evolves(x, y)
               /\ Up(x) /\ Steady(y) => Closed(y)
               /\ y.state_ # "k_connected"
<1> DEFINE x1 == Assert_(x, x.state_ \in {"k_connected", "k_disconnecting"},
                         "tcp_connection.cpp:87")
           x2 == [x1 EXCEPT !.state_ = "k_disconnected"]
           x3 == update_channel([x2 EXCEPT !.events = {}])
           y == connection_callback_(x3, u)
<1>1. handle_close(x, u) = y
  BY DEF handle_close, disable_all
<1>2. (x1 = x \/ x1 = Fails(x, "tcp_connection.cpp:87")) /\ (Up(x) => x1 = x)
  BY DEF Assert_, Fails, Up
<1> HIDE DEF x1
<1>3. SameConnection(x, x1)
  BY <1>2, AssertTouches DEF Asserts
<1>4. x1 \in Conn /\ Evolves(x, x1)
  BY <1>3, SameEvolves
<1>5. /\ x2 \in Conn /\ Evolves(x1, x2) /\ x2.state_ = "k_disconnected"
      /\ x2.index = x1.index /\ x2.mapped = x1.mapped /\ x2.polled = x1.polled
      /\ x2.failed = x1.failed /\ x2.ups = x1.ups /\ x2.downs = x1.downs
  BY <1>4, SetState DEF States
<1> HIDE DEF x2
<1>7. SameConnection(x2, x3)
  BY <1>5, UpdateChannel DEF EventNames
<1>8. x3 \in Conn /\ Evolves(x2, x3)
  BY <1>5, <1>7, SameEvolves
<1>9. Up(x) => x3.events = {} /\ x3.failed = {} /\ x3.mapped /\ x3.index = "k_deleted"
               /\ ~x3.polled
  <2>1. Up(x) => x2.index = "k_added" /\ x2.mapped /\ x2.polled /\ x2.failed = {}
    BY <1>2, <1>5 DEF Up
  <2> QED  BY <1>5, <2>1, UpdateAdded
<1> HIDE DEF x3
<1>10. /\ y \in Conn /\ Evolves(x3, y) /\ \E w \in Conn : Told(x3, w) /\ Keeps(w, y)
       /\ x3.state_ # "k_connected" => y.state_ # "k_connected"
  BY <1>8, ConnectionCallback
<1> HIDE DEF y
<1>11. PICK w \in Conn : Told(x3, w) /\ Keeps(w, y)
  BY <1>10
<1>12. Evolves(x, y)
  BY <1>4, <1>5, <1>8, <1>10, EvolvesTransitive
<1>13. ASSUME Up(x) PROVE Closed(w)
  <2>1. x3.state_ = "k_disconnected" /\ x3.ups = 1 /\ x3.downs = 0
    BY <1>2, <1>5, <1>7, <1>13 DEF SameConnection, Up
  <2> QED  BY <1>9, <1>11, <1>13, <2>1 DEF Closed, Told
<1>14. Up(x) /\ Steady(y) => Closed(y)
  BY <1>11, <1>13 DEF Keeps
<1>15. y.state_ # "k_connected"
  BY <1>5, <1>7, <1>10 DEF SameConnection
<1> QED  BY <1>1, <1>10, <1>12, <1>14, <1>15

\* connect_destroyed: a closed connection, or one that was never asked to shut
\* down, is removed.
LEMMA ConnectDestroyed ==
    ASSUME NEW x \in Conn, NEW u \in CallbackChoices
    PROVE  LET y == connect_destroyed(x, u)
           IN  /\ y \in Conn /\ Evolves(x, y)
               /\ (Up(x) /\ x.state_ = "k_connected") \/ Closed(x) => (Steady(y) => Removed(y))
               /\ y.state_ # "k_connected"
<1> DEFINE x1 == [x EXCEPT !.state_ = "k_disconnected"]
           x2 == update_channel([x1 EXCEPT !.events = {}])
           x3 == connection_callback_(x2, u)
           x4 == IF x.state_ = "k_connected" THEN x3 ELSE x1
           y == remove(x4)
<1>1. connect_destroyed(x, u) = y
  BY DEF connect_destroyed, disable_all
<1>2. /\ x1 \in Conn /\ Evolves(x, x1) /\ x1.state_ = "k_disconnected"
      /\ x1.index = x.index /\ x1.mapped = x.mapped /\ x1.polled = x.polled
      /\ x1.events = x.events
      /\ x1.failed = x.failed /\ x1.ups = x.ups /\ x1.downs = x.downs
  BY SetState DEF States
<1> HIDE DEF x1
<1>3. SameConnection(x1, x2)
  BY <1>2, UpdateChannel DEF EventNames
<1>4. x2 \in Conn /\ Evolves(x1, x2)
  BY <1>2, <1>3, SameEvolves
<1>5. Up(x) => x2.events = {} /\ x2.failed = {} /\ x2.mapped /\ x2.index = "k_deleted"
               /\ ~x2.polled
  <2>1. Up(x) => x1.index = "k_added" /\ x1.mapped /\ x1.polled /\ x1.failed = {}
    BY <1>2 DEF Up
  <2> QED  BY <1>2, <2>1, UpdateAdded
<1> HIDE DEF x2
<1>6. /\ x3 \in Conn /\ Evolves(x2, x3) /\ \E w \in Conn : Told(x2, w) /\ Keeps(w, x3)
      /\ x2.state_ # "k_connected" => x3.state_ # "k_connected"
  BY <1>4, ConnectionCallback
<1> HIDE DEF x3
<1>7. PICK w \in Conn : Told(x2, w) /\ Keeps(w, x3)
  BY <1>6
<1>8. Evolves(x, x3)
  BY <1>2, <1>4, <1>6, EvolvesTransitive
<1>9. Up(x) /\ Steady(x3) => Closed(x3)
  <2>1. Up(x) => x2.state_ = "k_disconnected" /\ x2.ups = 1 /\ x2.downs = 0
    BY <1>2, <1>3 DEF SameConnection, Up
  <2>2. Up(x) => Closed(w)
    BY <1>5, <1>7, <2>1 DEF Closed, Told
  <2> QED  BY <1>7, <2>2 DEF Keeps
<1>10. Closed(x) => Closed(x1) /\ x4 = x1
  BY <1>2 DEF Closed
<1>11. x4 \in Conn /\ Evolves(x, x4) /\ x4.state_ # "k_connected"
  BY <1>2, <1>3, <1>6, <1>8 DEF SameConnection
<1>12. (Up(x) /\ x.state_ = "k_connected") \/ Closed(x) => (Steady(x4) => Closed(x4))
  BY <1>9, <1>10
<1> HIDE DEF x4
<1>13. /\ SameConnection(x4, y) /\ y.index = "k_new" /\ ~y.mapped /\ ~y.polled
       /\ y.events = x4.events
       /\ x4.events = {} /\ x4.mapped /\ x4.index # "k_new" => y.failed = x4.failed
  BY <1>11, RemoveChannel
<1> HIDE DEF y
<1>14. y \in Conn /\ Evolves(x4, y) /\ (Steady(y) => Steady(x4))
  BY <1>11, <1>13, SameEvolves DEF Steady
<1>15. Closed(x4) => Removed(y)
  BY <1>13 DEF SameConnection, Closed, Removed
<1>16. Evolves(x, y)
  BY <1>11, <1>14, EvolvesTransitive
<1>17. y.state_ # "k_connected"
  BY <1>11, <1>13 DEF SameConnection
<1> QED  BY <1>1, <1>12, <1>14, <1>15, <1>16, <1>17

-----------------------------------------------------------------------------
(* The other callbacks of the channel.                                     *)

\* handle_error.
LEMMA HandleError ==
    ASSUME NEW x \in Conn
    PROVE  /\ handle_error(x) \in Conn /\ Keeps(x, handle_error(x))
           /\ handle_error(x).state_ = x.state_
<1> DEFINE y == [x EXCEPT !.so_error = FALSE]
<1>1. /\ SameButData(x, y) /\ y.wire = x.wire /\ y.output_buffer_ = x.output_buffer_
      /\ y.accepted = x.accepted
  BY DEF SameButData, Conn
<1>2. handle_error(x) = y
  BY DEF handle_error
<1> HIDE DEF y
<1> QED  BY <1>1, <1>2, DataKeeps DEF SameButData

\* handle_read, when it does not find the end of the file.
LEMMA HandleRead ==
    ASSUME NEW x \in Conn, NEW u \in CallbackChoices
    PROVE  handle_read(x, u) \in Conn /\ Keeps(x, handle_read(x, u))
<1> DEFINE y == [x EXCEPT !.inq = 0]
<1>1. /\ SameButData(x, y) /\ y.wire = x.wire /\ y.output_buffer_ = x.output_buffer_
      /\ y.accepted = x.accepted
  BY DEF SameButData, Conn
<1>2. handle_read(x, u) = IF x.inq > 0 THEN callback(y, u) ELSE handle_error(x)
  BY DEF handle_read
<1> HIDE DEF y
<1>3. y \in Conn /\ Keeps(x, y)
  BY <1>1, DataKeeps
<1>4. callback(y, u) \in Conn /\ Keeps(y, callback(y, u))
  BY <1>3, Callback
<1>5. Keeps(x, callback(y, u))
  BY <1>3, <1>4, KeepsTransitive
<1> QED  BY <1>2, <1>4, <1>5, HandleError

\* handle_write: bytes move from output_buffer_ to the wire, and OUT events are
\* disabled when nothing is left.
LEMMA HandleWrite ==
    ASSUME NEW x \in Conn
    PROVE  /\ handle_write(x) \in Conn /\ Keeps(x, handle_write(x))
           /\ handle_write(x).state_ = x.state_
<1> DEFINE out == x.output_buffer_
           n == Taken(x, out)
           rest == SubSeq(out, n + 1, Len(out))
           x0 == write(x, out)
           y == [x0 EXCEPT !.output_buffer_ = SubSeq(@, n + 1, Len(@))]
           E == y.events \ {"OUT"}
           z == update_channel([y EXCEPT !.events = E])
<1>1. CASE ~is_writing(x)
  BY <1>1, KeepsTransitive DEF handle_write
<1>2. CASE is_writing(x)
  <2>0. handle_write(x) = IF n = 0 \/ y.output_buffer_ # <<>> THEN y
                          ELSE IF z.state_ = "k_disconnecting" THEN shut_down_in_loop(z) ELSE z
    BY <1>2 DEF handle_write, disable_writing
  <2>1. out \in Seq(Nat) /\ x.wire \in Seq(Nat) /\ x.accepted \in Nat
    BY DEF Conn
  <2>2. /\ n \in 0 .. Len(out) /\ (Broken(x) => n = 0) /\ SameButData(x, x0)
        /\ x0.output_buffer_ = out /\ x0.accepted = x.accepted
        /\ x0.wire = x.wire \o SubSeq(out, 1, n)
    BY <2>1, WriteTakes
  <2> HIDE DEF n, x0
  <2>3. /\ SubSeq(out, 1, n) \in Seq(Nat) /\ rest \in Seq(Nat)
        /\ SubSeq(out, 1, n) \o rest = out /\ Len(SubSeq(out, 1, n)) = n
    BY <2>1, <2>2, SplitSeq
  <2>4. /\ SameButData(x, y) /\ y.output_buffer_ = rest /\ y.accepted = x.accepted
        /\ y.wire = x.wire \o SubSeq(out, 1, n)
    <3>1. y = [x0 EXCEPT !.output_buffer_ = rest] /\ x0 \in Conn
      BY <2>2 DEF SameButData
    <3> HIDE DEF y, rest
    <3> QED  BY <2>2, <2>3, <3>1 DEF SameButData, Conn
  <2> HIDE DEF y
  <2>5. n = 0 => SubSeq(out, 1, n) = <<>> /\ rest = out /\ y.wire = x.wire
    <3> SUFFICES ASSUME n = 0 PROVE SubSeq(out, 1, n) = <<>> /\ rest = out /\ y.wire = x.wire
      OBVIOUS
    <3>1. SubSeq(out, 1, n) = <<>>
      BY <2>3, EmptySeq
    <3>2. rest = out
      BY <2>3, <3>1, ConcatEmptySeq
    <3> QED  BY <2>1, <2>4, <3>1, <3>2, ConcatEmptySeq
  <2>6. Stream(x) => Stream(y)
    <3> SUFFICES ASSUME Stream(x) PROVE Stream(y)
      OBVIOUS
    <3>1. CASE Broken(x)
      BY <2>2, <2>4, <2>5, <3>1 DEF Stream, Broken, SameButData
    <3>2. CASE ~Broken(x)
      <4>1. y.wire \o y.output_buffer_ = x.wire \o (SubSeq(out, 1, n) \o rest)
        <5> DEFINE p == SubSeq(out, 1, n)
        <5>1. p \in Seq(Nat) /\ rest \in Seq(Nat) /\ x.wire \in Seq(Nat)
          BY <2>1, <2>3
        <5>2. y.wire = x.wire \o p /\ y.output_buffer_ = rest
          BY <2>4
        <5> HIDE DEF p, rest
        <5>3. (x.wire \o p) \o rest = x.wire \o (p \o rest)
          BY <5>1, Associative
        <5>4. y.wire \o y.output_buffer_ = x.wire \o (p \o rest)
          BY <5>2, <5>3
        <5> QED  BY <5>4 DEF p
      <4>2. y.wire \o y.output_buffer_ = Numbered(y.accepted)
        BY <2>3, <2>4, <3>2, <4>1 DEF Stream
      <4>3. y.wire \in Seq(Nat) /\ y.output_buffer_ \in Seq(Nat) /\ y.accepted \in Nat
        BY <2>4 DEF SameButData, Conn
      <4>4. y.wire = Numbered(Len(y.wire))
        BY <4>2, <4>3, NumberedBegins
      <4> QED  BY <4>2, <4>4 DEF Stream
    <3> QED  BY <3>1, <3>2
  <2>7. y \in Conn /\ Evolves(x, y) /\ (Steady(y) => Steady(x))
    <3>1. x.ups \in Nat
      BY DEF Conn
    <3> QED  BY <2>4, <2>6, <3>1 DEF SameButData, Evolves, Steady
  <2>8. ~Closed(x) /\ ~Removed(x)
    BY <1>2 DEF is_writing, Closed, Removed
  <2>9. CASE n = 0 \/ y.output_buffer_ # <<>>
    <3>1. Up(x) => Up(y)
      BY <1>2, <2>4, <2>5, <2>9 DEF Up, SameButData, is_writing
    <3> QED  BY <2>0, <2>4, <2>7, <2>8, <2>9, <3>1 DEF Keeps, SameButData
  <2>10. CASE ~(n = 0 \/ y.output_buffer_ # <<>>)
    <3>0. y.events \in SUBSET EventNames /\ (Up(x) => "IN" \in y.events)
      BY <2>4, <2>7 DEF Conn, Up, SameButData
    <3>1. E \in SUBSET EventNames /\ "OUT" \notin E /\ (Up(x) => "IN" \in E /\ E # {})
      BY <3>0
    <3> HIDE DEF E
    <3>2. SameConnection(y, z)
      BY <2>7, <3>1, UpdateChannel
    <3>3. z \in Conn /\ Evolves(y, z) /\ (Steady(z) => Steady(y))
      BY <2>7, <3>2, SameEvolves DEF Steady
    <3>4. Up(x) => z.events = E /\ z.failed = {} /\ z.mapped /\ z.interest = E
                   /\ z.index = "k_added" /\ z.polled
      <4>1. Up(x) => y.index = "k_added" /\ y.mapped /\ y.polled /\ y.failed = {}
        BY <2>4 DEF Up, SameButData
      <4> QED  BY <2>7, <3>1, <4>1, UpdateAdded
    <3> HIDE DEF z
    <3>5. Up(x) => Up(z)
      BY <2>4, <2>10, <3>1, <3>2, <3>4 DEF Up, SameButData, SameConnection
    <3>6. Evolves(x, z)
      BY <2>7, <3>3, EvolvesTransitive
    <3>7. Keeps(x, z)
      BY <2>8, <3>5, <3>6 DEF Keeps
    <3>8. /\ shut_down_in_loop(z) \in Conn /\ Keeps(x, shut_down_in_loop(z))
          /\ shut_down_in_loop(z).state_ = z.state_
      BY <3>3, <3>7, ShutDownInLoop, KeepsTransitive
    <3>9. z.state_ = x.state_
      BY <2>4, <3>2 DEF SameButData, SameConnection
    <3> QED  BY <2>0, <2>10, <3>3, <3>7, <3>8, <3>9
  <2> QED  BY <2>9, <2>10
<1> QED  BY <1>1, <1>2
=============================================================================
