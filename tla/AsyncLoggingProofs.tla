-------------------------- MODULE AsyncLoggingProofs --------------------------
(***************************************************************************)
(* Proofs about AsyncLogging, for any size of the buffers, any number of   *)
(* lines, any roll size, interval and check_every_n_: the buffers go round, *)
(* and the days are kept in files of their own.                            *)
(***************************************************************************)
EXTENDS AsyncLogging, SequenceTheorems, FiniteSetTheorems, TLAPS

Buffers == [data : [1 .. BufferSize -> Int], cur : 0 .. BufferSize]

\* A Log_File; what it has stored is the matter of NoLineLost.
IsFile(f) ==
    f \in [written_bytes_ : Nat, count_ : Nat, start_of_period_ : Nat, last_roll_ : Nat,
           last_flush_ : Nat, held : {f.held}, stored : {f.stored}, doubtful : {f.doubtful},
           in_order : BOOLEAN, strays : Nat]

\* The history of what was written is the same.
SameLines(f, g) == g.stored = f.stored /\ g.in_order = f.in_order

\* What append_in_lock preserves: the period belongs to the last roll, and the
\* writes that went to the file of an earlier day were all counted by count_.
FileAgrees(f) ==
    /\ IsFile(f) /\ f.start_of_period_ = period(f.last_roll_)
    /\ f.count_ < CheckEveryN /\ f.strays <= f.count_

LogType ==
    /\ current_buffer_ \in Buffers /\ next_buffer_ \in Buffers \cup {nullptr}
    /\ buffers_ \in Seq(Buffers)
    /\ buffer1 \in Buffers \cup {nullptr} /\ buffer2 \in Buffers \cup {nullptr}
    /\ buffers_to_write \in Seq(Buffers)
    /\ pos \in Nat /\ now \in Nat /\ lines \in Nat

\* Where the two spare buffers of the thread are: with the thread, or, after the
\* exchange, as many of them with the front end as there are buffers to write.
SparesAgree ==
    /\ at \in {"test", "lock", "wait"} => buffer1 # nullptr /\ buffer2 # nullptr
    /\ at = "write" => /\ buffer1 = nullptr /\ buffers_to_write # <<>>
                       /\ buffer2 = nullptr => Len(buffers_to_write) >= 2
    /\ next_buffer_ = nullptr => buffers_ # <<>>

\* The inductive invariant.
LogInv == LogType /\ SparesAgree /\ FileAgrees(output)

-----------------------------------------------------------------------------
(* Fixed_Buffer.                                                           *)

\* No Fixed_Buffer is the pointer to nothing: its array is not empty.
LEMMA BufferIsNotNull == nullptr \notin Buffers
<1>1. SUFFICES ASSUME nullptr \in Buffers PROVE FALSE
    OBVIOUS
<1>2. nullptr.data = <<>> /\ nullptr.data \in [1 .. BufferSize -> Int]
    BY <1>1 DEF nullptr, Buffers
<1>3. DOMAIN nullptr.data = 1 .. BufferSize /\ DOMAIN nullptr.data = {}
    BY <1>2
<1>4. 1 \in 1 .. BufferSize
    BY LoggingAssumption
<1> QED
    BY <1>3, <1>4

\* The constructor, bzero and reset make Fixed_Buffers without lines of their own.
LEMMA NewBufferType ==
    /\ NewBuffer \in Buffers /\ bzero(NewBuffer) \in Buffers
    /\ \A b \in Buffers : reset(b) \in Buffers
    /\ \A b \in {NewBuffer, bzero(NewBuffer)} :
        b.cur = 0 /\ \A i \in 1 .. BufferSize : b.data[i] <= 0
    /\ \A b \in Buffers : reset(b).cur = 0 /\ reset(b).data = b.data
<1>1. 0 \in 0 .. BufferSize
    BY LoggingAssumption
<1> DEFINE junk == [i \in 1 .. BufferSize |-> -1]
           zeros == [i \in 1 .. BufferSize |-> 0]
<1>2. NewBuffer = [data |-> junk, cur |-> 0]
    BY DEF NewBuffer, Fixed_Buffer, Junk
<1>3. /\ DOMAIN junk = 1 .. BufferSize
      /\ junk \in [1 .. BufferSize -> Int] /\ zeros \in [1 .. BufferSize -> Int]
      /\ \A i \in 1 .. BufferSize : junk[i] <= 0 /\ zeros[i] <= 0
    OBVIOUS
<1> HIDE DEF junk
<1>4. bzero(NewBuffer) = [data |-> zeros, cur |-> 0]
    <2>1. NewBuffer.data = junk /\ NewBuffer.cur = 0
        BY <1>2
    <2>2. bzero(NewBuffer) = [NewBuffer EXCEPT !.data = [i \in DOMAIN NewBuffer.data |-> 0]]
        BY DEF bzero, Zero
    <2>3. [i \in DOMAIN NewBuffer.data |-> 0] = zeros
        BY <2>1, <1>3
    <2> HIDE DEF zeros
    <2>4. bzero(NewBuffer) = [NewBuffer EXCEPT !.data = zeros]
        BY <2>2, <2>3
    <2> QED
        BY <2>4, <1>2
<1> HIDE DEF zeros
<1>5. NewBuffer \in Buffers /\ bzero(NewBuffer) \in Buffers
    BY <1>1, <1>2, <1>3, <1>4 DEF Buffers
<1>6. ASSUME NEW b \in Buffers
      PROVE  reset(b) \in Buffers /\ reset(b).cur = 0 /\ reset(b).data = b.data
    BY <1>1 DEF Buffers, reset
<1>7. ASSUME NEW b \in {NewBuffer, bzero(NewBuffer)}
      PROVE  b.cur = 0 /\ \A i \in 1 .. BufferSize : b.data[i] <= 0
    <2>1. b.cur = 0 /\ b.data \in {junk, zeros}
        BY <1>2, <1>4, <1>7
    <2> QED
        BY <2>1, <1>3
<1> QED
    <2>1. \A b \in Buffers : reset(b) \in Buffers /\ reset(b).cur = 0 /\ reset(b).data = b.data
        BY <1>6
    <2>2. \A b \in {NewBuffer, bzero(NewBuffer)} :
            b.cur = 0 /\ \A i \in 1 .. BufferSize : b.data[i] <= 0
        BY <1>7
    <2> QED
        BY <1>5, <2>1, <2>2

\* An append that finds room writes one unit behind the others.
LEMMA AppendEffect ==
    ASSUME NEW b \in Buffers, NEW n \in Nat, avail(b) > 1
    PROVE  LET r == append(b, <<n>>)
           IN  /\ r \in Buffers /\ r.cur = b.cur + 1 /\ r.data[r.cur] = n
               /\ \A i \in 1 .. BufferSize : i # r.cur => r.data[i] = b.data[i]
<1>1. /\ b.data \in [1 .. BufferSize -> Int] /\ b.cur \in 0 .. BufferSize
      /\ DOMAIN b.data = 1 .. BufferSize /\ BufferSize \in Nat
    BY LoggingAssumption DEF Buffers
<1>2. Len(<<n>>) = 1 /\ <<n>>[1] = n
    OBVIOUS
<1>3. Len(b.data) = BufferSize
    <2> HIDE <1>1
    <2>1. ASSUME NEW d \in [1 .. BufferSize -> Int] PROVE Len(d) = BufferSize
        BY <1>1
    <2> QED
        BY <1>1, <2>1
<1>4. b.cur + 1 \in 1 .. BufferSize
    BY <1>1, <1>3 DEF avail
<1> DEFINE d == [i \in 1 .. BufferSize |-> IF i = b.cur + 1 THEN n ELSE b.data[i]]
<1>5. d \in [1 .. BufferSize -> Int]
    BY <1>1
<1>6. add(b, <<n>>) = [data |-> d, cur |-> b.cur + 1]
    <2> DEFINE e == [i \in 1 .. BufferSize |->
                        IF i \in b.cur + 1 .. b.cur + 1 THEN <<n>>[i - b.cur] ELSE b.data[i]]
    <2>1. add(b, <<n>>) = [data |-> e, cur |-> b.cur + 1]
        BY <1>1, <1>2 DEF add
    <2>2. ASSUME NEW i \in 1 .. BufferSize
          PROVE  (IF i \in b.cur + 1 .. b.cur + 1 THEN <<n>>[i - b.cur] ELSE b.data[i])
                    = (IF i = b.cur + 1 THEN n ELSE b.data[i])
        <3>1. CASE i = b.cur + 1
            <4>1. i - b.cur = 1 /\ i \in b.cur + 1 .. b.cur + 1
                BY <3>1, <1>1
            <4> QED
                BY <3>1, <4>1, <1>2
        <3>2. CASE i # b.cur + 1
            <4>1. i \notin b.cur + 1 .. b.cur + 1
                BY <3>2, <1>1
            <4> QED
                BY <3>2, <4>1
        <3> QED
            BY <3>1, <3>2
    <2>3. e = d
        BY <2>2
    <2> QED
        BY <2>1, <2>3
<1>7. append(b, <<n>>) = [data |-> d, cur |-> b.cur + 1]
    BY <1>2, <1>6 DEF append
<1>8. [data |-> d, cur |-> b.cur + 1] \in Buffers
    BY <1>4, <1>5 DEF Buffers
<1>9. d[b.cur + 1] = n /\ \A i \in 1 .. BufferSize : i # b.cur + 1 => d[i] = b.data[i]
    BY <1>4
<1> HIDE DEF d
<1> QED
    BY <1>7, <1>8, <1>9

\* Another append changes nothing.
LEMMA AppendType ==
    ASSUME NEW b \in Buffers, NEW n \in Nat
    PROVE  append(b, <<n>>) \in Buffers
<1>1. CASE avail(b) > 1
    BY <1>1, AppendEffect
<1>2. CASE ~(avail(b) > 1)
    <2>1. Len(<<n>>) = 1
        OBVIOUS
    <2> QED
        BY <1>2, <2>1 DEF append
<1> QED
    BY <1>1, <1>2

\* A Fixed_Buffer of the right size and whether it has room.
LEMMA AvailOf ==
    ASSUME NEW b \in Buffers
    PROVE  avail(b) = BufferSize - b.cur /\ Len(b.data) = BufferSize /\ b.data \in Seq(Int)
<1>1. ASSUME NEW d \in [1 .. BufferSize -> Int] PROVE Len(d) = BufferSize /\ d \in Seq(Int)
    BY LoggingAssumption
<1>2. b.data \in [1 .. BufferSize -> Int]
    BY DEF Buffers
<1> QED
    BY <1>1, <1>2 DEF avail

-----------------------------------------------------------------------------
(* Log_File.                                                               *)

\* Later is never in an earlier period.
LEMMA PeriodMonotone ==
    ASSUME NEW a \in Nat, NEW b \in Nat, a <= b
    PROVE  period(a) \in Nat /\ period(b) \in Nat /\ period(a) <= period(b)
<1> DEFINE d == RollInterval
           p == a \div d
           q == b \div d
<1>0. d \in Nat /\ d > 0
    BY LogFileAssumption
<1>1. /\ p \in Nat /\ q \in Nat
      /\ d * p <= a /\ b < d * (q + 1)
    BY <1>0
<1> HIDE DEF p, q
<1>2. p <= q
    <2>1. SUFFICES ASSUME q + 1 <= p PROVE FALSE
        BY <1>1
    <2>2. d * (q + 1) <= d * p
        BY <1>0, <1>1, <2>1
    <2> QED
        BY <1>0, <1>1, <2>2
<1>3. p * d <= q * d /\ p * d \in Nat /\ q * d \in Nat
    BY <1>0, <1>1, <1>2
<1> QED
    BY <1>3 DEF period, p, q

\* A write to the disk touches nothing but the lines that stdio holds.
LEMMA WriteOutEffect ==
    ASSUME NEW f, NEW news, NEW full, IsFile(f)
    PROVE  LET g == write_out(f, news, full)
           IN  /\ IsFile(g) /\ g.held = {} /\ g.stored = f.stored /\ g.in_order = f.in_order
               /\ g.start_of_period_ = f.start_of_period_ /\ g.last_roll_ = f.last_roll_
               /\ g.count_ = f.count_ /\ g.strays = f.strays
<1> DEFINE d == IF full THEN f.doubtful \cup f.held \cup news ELSE f.doubtful
           g == [f EXCEPT !.held = {}, !.doubtful = d]
<1>1. write_out(f, news, full) = g
    BY DEF write_out, IsFile
<1> HIDE DEF d
<1> QED
    BY <1>1 DEF IsFile

\* File_Util::flush and fwrite leave what FileAgrees is about alone.
LEMMA FlushAgrees ==
    ASSUME NEW f, NEW full, FileAgrees(f)
    PROVE  /\ FileAgrees(flush(f, full)) /\ SameLines(f, flush(f, full))
           /\ flush(f, full).held = {}
<1> DEFINE g == flush(f, full)
<1>1. IsFile(f)
    BY DEF FileAgrees
<1>2. g = write_out(f, {}, full)
    BY DEF flush
<1> HIDE DEF g
<1>3. /\ IsFile(g) /\ g.start_of_period_ = f.start_of_period_ /\ g.last_roll_ = f.last_roll_
      /\ g.count_ = f.count_ /\ g.strays = f.strays /\ SameLines(f, g) /\ g.held = {}
    BY <1>1, <1>2, WriteOutEffect DEF SameLines
<1> QED
    BY <1>3 DEF FileAgrees, g

\* The lines among some units, and whether each is preceded by the one before it.
LinesOf(units) == {u \in Range(units) : u > 0}
Preceded(S, units) ==
    \A i \in DOMAIN units : units[i] > 1 =>
        \/ units[i] - 1 \in S
        \/ \E j \in DOMAIN units : j < i /\ units[j] = units[i] - 1

\* fwrite.
LEMMA WriteAgrees ==
    ASSUME NEW f, NEW units, NEW full, FileAgrees(f)
    PROVE  LET g == write(f, units, full)
           IN  /\ FileAgrees(g) /\ g.stored = f.stored \cup LinesOf(units)
               /\ g.in_order <=> f.in_order /\ Preceded(f.stored, units)
<1> DEFINE news == LinesOf(units) \ f.stored
           k == IF full THEN write_out(f, news, full) ELSE [f EXCEPT !.held = f.held \cup news]
           s == k.stored \cup LinesOf(units)
           o == k.in_order /\ Preceded(f.stored, units)
           g == [k EXCEPT !.stored = s, !.in_order = o]
<1>1. IsFile(f)
    BY DEF FileAgrees
<1>2. write(f, units, full) = g
    BY DEF write, LinesOf, Preceded
<1>3. /\ IsFile(k) /\ k.start_of_period_ = f.start_of_period_ /\ k.last_roll_ = f.last_roll_
      /\ k.count_ = f.count_ /\ k.strays = f.strays
      /\ k.stored = f.stored /\ k.in_order = f.in_order
    <2>1. CASE full
        <3>1. k = write_out(f, news, full)
            BY <2>1
        <3> HIDE DEF news, k
        <3> QED
            BY <1>1, <3>1, WriteOutEffect
    <2>2. CASE ~full
        <3>1. k = [f EXCEPT !.held = f.held \cup news]
            BY <2>2
        <3> HIDE DEF news, k
        <3> QED
            BY <1>1, <3>1 DEF IsFile
    <2> QED
        BY <2>1, <2>2
<1> HIDE DEF k
<1>4. o \in BOOLEAN
    OBVIOUS
<1>5. s = f.stored \cup LinesOf(units) /\ (o <=> f.in_order /\ Preceded(f.stored, units))
    BY <1>3
<1> HIDE DEF s, o
<1>6. /\ IsFile(g) /\ g.start_of_period_ = k.start_of_period_ /\ g.last_roll_ = k.last_roll_
      /\ g.count_ = k.count_ /\ g.strays = k.strays /\ g.stored = s /\ g.in_order = o
    BY <1>3, <1>4 DEF IsFile
<1> HIDE DEF g
<1>7. FileAgrees(g)
    BY <1>3, <1>6 DEF FileAgrees
<1> QED
    BY <1>2, <1>5, <1>6, <1>7

\* roll_file leaves count_ alone and forgets the strays; it only refuses a clock
\* that is not past the last roll.
LEMMA RollEffect ==
    ASSUME NEW f, IsFile(f), NEW t \in Nat, NEW full
    PROVE  LET g == roll_file(f, t, full)
           IN  /\ IsFile(g) /\ g.count_ = f.count_ /\ SameLines(f, g)
               /\ \/ t > f.last_roll_ /\ g.last_roll_ = t /\ g.start_of_period_ = period(t)
                     /\ g.strays = 0
                  \/ t <= f.last_roll_ /\ g = f
<1>0. f.last_roll_ \in Nat
    BY DEF IsFile
<1>1. CASE t > f.last_roll_
    <2> DEFINE k == flush(f, full)
               g == [k EXCEPT !.last_roll_ = t, !.last_flush_ = t,
                              !.start_of_period_ = period(t), !.written_bytes_ = 0, !.strays = 0]
    <2>1. period(t) \in Nat
        BY PeriodMonotone
    <2>2. roll_file(f, t, full) = g
        BY <1>1 DEF roll_file
    <2>4. IsFile(k) /\ k.count_ = f.count_ /\ SameLines(f, k)
        BY WriteOutEffect DEF flush, SameLines
    <2> HIDE DEF k
    <2>3. IsFile(g) /\ g.count_ = f.count_ /\ g.last_roll_ = t /\ g.start_of_period_ = period(t)
            /\ g.strays = 0 /\ SameLines(f, g)
        BY <2>1, <2>4 DEF IsFile, SameLines
    <2> QED
        BY <2>2, <2>3, <1>1
<1>2. CASE ~(t > f.last_roll_)
    <2>1. roll_file(f, t, full) = f
        BY <1>2 DEF roll_file
    <2> QED
        BY <2>1, <1>2, <1>0 DEF SameLines
<1> QED
    BY <1>1, <1>2

\* Whatever the clock shows, append_in_lock keeps the strays below check_every_n_:
\* it counts a write up only where count_ goes up, too, and where count_ starts
\* again it rolls, or the write was of the file's own day or an earlier one.
LEMMA AppendAgrees ==
    ASSUME NEW f, FileAgrees(f), NEW len \in Nat, NEW t \in Nat, NEW full
    PROVE  /\ FileAgrees(append_in_lock(f, len, t, full))
           /\ SameLines(f, append_in_lock(f, len, t, full))
<1> DEFINE grown == f.written_bytes_ + len
           bytes == IF grown > RollSize THEN RollSize + 1 ELSE grown
           late == IF period(t) > f.start_of_period_ THEN f.strays + 1 ELSE 0
           g == [f EXCEPT !.written_bytes_ = bytes, !.strays = late]
           h == [g EXCEPT !.count_ = 0]
           up == [g EXCEPT !.count_ = g.count_ + 1]
           n == [h EXCEPT !.last_flush_ = t]
           quiet == flush(n, full)
<1>1. /\ IsFile(f) /\ f.start_of_period_ = period(f.last_roll_)
      /\ f.count_ < CheckEveryN /\ f.strays <= f.count_
    BY DEF FileAgrees
<1>2. /\ f.written_bytes_ \in Nat /\ f.count_ \in Nat /\ f.start_of_period_ \in Nat
      /\ f.last_roll_ \in Nat /\ f.strays \in Nat /\ RollSize \in Nat /\ CheckEveryN \in Nat \ {0}
    BY <1>1, LogFileAssumption DEF IsFile
<1>3. /\ bytes \in Nat /\ period(t) \in Nat
      /\ late \in Nat /\ late <= f.count_ + 1
      /\ period(t) <= f.start_of_period_ => late = 0
      /\ t <= f.last_roll_ => late = 0
    <2>1. period(t) \in Nat
        BY PeriodMonotone
    <2>2. t <= f.last_roll_ => period(t) <= f.start_of_period_
        BY <1>1, <1>2, PeriodMonotone
    <2> QED
        BY <2>1, <2>2, <1>1, <1>2
<1>4. append_in_lock(f, len, t, full) =
        IF g.written_bytes_ > RollSize THEN roll_file(g, t, full)
        ELSE IF g.count_ + 1 < CheckEveryN THEN up
        ELSE IF period(t) # g.start_of_period_ THEN roll_file(h, t, full)
        ELSE IF t - g.last_flush_ > FlushInterval THEN quiet ELSE h
    BY DEF append_in_lock
<1> HIDE DEF bytes, late
<1>5. /\ IsFile(g) /\ g.count_ = f.count_ /\ g.strays = late
      /\ g.start_of_period_ = f.start_of_period_ /\ g.last_roll_ = f.last_roll_
      /\ SameLines(f, g)
    BY <1>1, <1>3 DEF IsFile, SameLines
<1>6. /\ IsFile(h) /\ h.count_ = 0 /\ h.strays = late
      /\ h.start_of_period_ = f.start_of_period_ /\ h.last_roll_ = f.last_roll_
      /\ SameLines(f, h)
    BY <1>1, <1>3 DEF IsFile, SameLines
<1>7. /\ IsFile(up) /\ up.count_ = f.count_ + 1 /\ up.strays = late
      /\ up.start_of_period_ = f.start_of_period_ /\ up.last_roll_ = f.last_roll_
      /\ SameLines(f, up)
    <2> HIDE DEF g
    <2> DEFINE m == g.count_ + 1
    <2>1. m \in Nat /\ m = f.count_ + 1 /\ up = [g EXCEPT !.count_ = m]
        BY <1>2, <1>5
    <2> HIDE DEF m, up
    <2> QED
        BY <2>1, <1>5 DEF IsFile, SameLines
<1>8. /\ IsFile(quiet) /\ quiet.count_ = 0 /\ quiet.strays = late
      /\ quiet.start_of_period_ = f.start_of_period_ /\ quiet.last_roll_ = f.last_roll_
      /\ SameLines(f, quiet)
    <2>1. /\ IsFile(n) /\ n.count_ = 0 /\ n.strays = late
          /\ n.start_of_period_ = f.start_of_period_ /\ n.last_roll_ = f.last_roll_
          /\ SameLines(f, n)
        <3> HIDE DEF h
        <3> QED
            BY <1>6 DEF IsFile, SameLines
    <2> HIDE DEF n
    <2> QED
        BY <2>1, WriteOutEffect DEF flush, SameLines
<1> HIDE DEF g, h, up, quiet
<1>9. FileAgrees(roll_file(g, t, full)) /\ SameLines(f, roll_file(g, t, full))
    <2> DEFINE r == roll_file(g, t, full)
    <2>1. /\ IsFile(r) /\ r.count_ = g.count_ /\ SameLines(g, r)
          /\ \/ t > g.last_roll_ /\ r.last_roll_ = t /\ r.start_of_period_ = period(t)
                /\ r.strays = 0
             \/ t <= g.last_roll_ /\ r = g
        BY <1>5, RollEffect
    <2> HIDE DEF r
    <2>2. r.strays = 0 /\ r.start_of_period_ = period(r.last_roll_)
        BY <2>1, <1>1, <1>3, <1>5
    <2> QED
        BY <2>1, <2>2, <1>1, <1>2, <1>5 DEF FileAgrees, SameLines, r
<1>10. FileAgrees(roll_file(h, t, full)) /\ SameLines(f, roll_file(h, t, full))
    <2> DEFINE r == roll_file(h, t, full)
    <2>1. /\ IsFile(r) /\ r.count_ = h.count_ /\ SameLines(h, r)
          /\ \/ t > h.last_roll_ /\ r.last_roll_ = t /\ r.start_of_period_ = period(t)
                /\ r.strays = 0
             \/ t <= h.last_roll_ /\ r = h
        BY <1>6, RollEffect
    <2> HIDE DEF r
    <2>2. r.strays = 0 /\ r.start_of_period_ = period(r.last_roll_)
        BY <2>1, <1>1, <1>3, <1>6
    <2> QED
        BY <2>1, <2>2, <1>1, <1>2, <1>6 DEF FileAgrees, SameLines, r
<1>11. g.count_ + 1 < CheckEveryN => FileAgrees(up)
    BY <1>1, <1>2, <1>3, <1>5, <1>7 DEF FileAgrees
<1>12. period(t) = g.start_of_period_ => FileAgrees(h) /\ FileAgrees(quiet)
    BY <1>1, <1>2, <1>3, <1>5, <1>6, <1>8 DEF FileAgrees
<1> QED
    BY <1>4, <1>5, <1>6, <1>7, <1>8, <1>9, <1>10, <1>11, <1>12

\* The constructor.
LEMMA NewFileAgrees ==
    ASSUME NEW t \in Nat
    PROVE  FileAgrees(Log_File(t)) /\ Log_File(t).stored = {} /\ Log_File(t).in_order
<1> DEFINE f == [written_bytes_ |-> 0, count_ |-> 0, start_of_period_ |-> 0,
                 last_roll_ |-> 0, last_flush_ |-> 0, held |-> {}, stored |-> {},
                 doubtful |-> {}, in_order |-> TRUE, strays |-> 0]
           r == roll_file(f, t, FALSE)
<1>1. /\ IsFile(f) /\ f.count_ = 0 /\ f.strays = 0 /\ f.last_roll_ = 0 /\ f.start_of_period_ = 0
      /\ f.stored = {} /\ f.in_order
    BY DEF IsFile
<1>2. period(0) = 0
    BY LogFileAssumption DEF period
<1>3. Log_File(t) = r
    BY DEF Log_File
<1> HIDE DEF f
<1>4. /\ IsFile(r) /\ r.count_ = f.count_ /\ SameLines(f, r)
      /\ \/ t > f.last_roll_ /\ r.last_roll_ = t /\ r.start_of_period_ = period(t)
            /\ r.strays = 0
         \/ t <= f.last_roll_ /\ r = f
    BY <1>1, RollEffect
<1> HIDE DEF r
<1>5. FileAgrees(r) /\ r.stored = {} /\ r.in_order
    BY <1>1, <1>2, <1>4, LogFileAssumption DEF FileAgrees, SameLines
<1> QED
    BY <1>3, <1>5

-----------------------------------------------------------------------------
(* The steps.                                                              *)

LEMMA LogInit == Init => LogInv
<1>1. SUFFICES ASSUME Init PROVE LogInv
    OBVIOUS
<1>2. LogType
    <2>1. <<>> \in Seq(Buffers)
        OBVIOUS
    <2> QED
        BY <1>1, <2>1, NewBufferType DEF Init, LogType
<1>3. SparesAgree
    BY <1>1, NewBufferType, BufferIsNotNull DEF Init, SparesAgree
<1>4. FileAgrees(output)
    BY <1>1, NewFileAgrees DEF Init, NoFile
<1> QED
    BY <1>2, <1>3, <1>4 DEF LogInv

\* What an exchange makes of buffers_to_write, and where the two spares are then.
LEMMA ExchangeAgrees ==
    ASSUME LogType, SparesAgree, exchange, buffer1 # nullptr, buffer2 # nullptr, now' = now,
           pos' = pos, lines' = lines, at' = "write"
    PROVE  LogType' /\ SparesAgree'
<1>1. /\ buffers_to_write' = Append(buffers_, current_buffer_)
      /\ buffers_' = <<>> /\ current_buffer_' = buffer1 /\ buffer1' = nullptr
    BY DEF exchange
<1>2. /\ buffers_to_write' \in Seq(Buffers) /\ Len(buffers_to_write') = Len(buffers_) + 1
      /\ Len(buffers_) \in Nat /\ buffers_to_write' # <<>>
      /\ buffers_ # <<>> => Len(buffers_) >= 1
    BY <1>1 DEF LogType
<1>3. <<>> \in Seq(Buffers)
    OBVIOUS
<1>4. /\ next_buffer_' \in Buffers /\ buffer2' \in Buffers \cup {nullptr}
      /\ buffer2' = nullptr => next_buffer_ = nullptr
    BY DEF exchange, LogType
<1>5. LogType'
    BY <1>1, <1>2, <1>3, <1>4 DEF LogType
<1>6. next_buffer_' # nullptr
    BY <1>4, BufferIsNotNull
<1>7. buffer2' = nullptr => Len(buffers_to_write') >= 2
    BY <1>2, <1>4 DEF SparesAgree
<1> QED
    BY <1>1, <1>2, <1>5, <1>6, <1>7 DEF SparesAgree

\* The two buffers that recycle takes back are among those that were written.
LEMMA RecycleAgrees ==
    ASSUME LogType, SparesAgree, recycle
    PROVE  /\ LogType' /\ SparesAgree'
           /\ \E i \in 1 .. Len(buffers_to_write) : buffer1' = reset(buffers_to_write[i])
           /\ \/ buffer2' = buffer2
              \/ \E i \in 1 .. Len(buffers_to_write) : buffer2' = reset(buffers_to_write[i])
<1> DEFINE n == IF Len(buffers_to_write) > 2 THEN 2 ELSE Len(buffers_to_write)
           kept == SubSeq(buffers_to_write, 1, n)
<1>1. /\ at = "write" /\ at' = "test" /\ buffers_to_write' = <<>> /\ pos' = 0
      /\ UNCHANGED <<front, world, lines>>
    BY DEF recycle
<1>2. /\ buffer1 = nullptr /\ buffers_to_write # <<>> /\ buffers_to_write \in Seq(Buffers)
      /\ buffer2 = nullptr => Len(buffers_to_write) >= 2
    BY <1>1 DEF SparesAgree, LogType
<1>3. n \in 1 .. Len(buffers_to_write) /\ (buffer2 = nullptr => n = 2)
    BY <1>2
<1> HIDE DEF n
<1>4. /\ kept \in Seq(Buffers) /\ Len(kept) = n
      /\ \A i \in 1 .. n : kept[i] = buffers_to_write[i]
    BY <1>2, <1>3, SubSeqProperties
<1>5. /\ buffer1' = reset(Last(kept))
      /\ buffer2' = IF buffer2 = nullptr THEN reset(Last(Front(kept))) ELSE buffer2
    BY <1>2 DEF recycle, n
<1> HIDE DEF kept
<1>6. Last(kept) = buffers_to_write[n] /\ buffers_to_write[n] \in Buffers
    BY <1>2, <1>3, <1>4 DEF Last
<1>7. buffer2 = nullptr => /\ 1 \in 1 .. Len(buffers_to_write)
                           /\ Last(Front(kept)) = buffers_to_write[1]
                           /\ buffers_to_write[1] \in Buffers
    <2>1. SUFFICES ASSUME buffer2 = nullptr
                   PROVE  /\ 1 \in 1 .. Len(buffers_to_write)
                          /\ Last(Front(kept)) = buffers_to_write[1]
                          /\ buffers_to_write[1] \in Buffers
        OBVIOUS
    <2>2. Len(kept) = 2 /\ kept[1] \in Buffers /\ kept[1] = buffers_to_write[1]
          /\ 1 \in 1 .. Len(buffers_to_write)
        BY <2>1, <1>3, <1>4
    <2>3. Front(kept) = SubSeq(kept, 1, 1)
        BY <2>2 DEF Front
    <2>4. /\ SubSeq(kept, 1, 1) \in Seq(Buffers) /\ Len(SubSeq(kept, 1, 1)) = 1
          /\ SubSeq(kept, 1, 1)[1] = kept[1]
        BY <2>2, <1>4, SubSeqProperties
    <2> QED
        BY <2>2, <2>3, <2>4 DEF Last
<1>8. buffer1' \in Buffers /\ buffer2' \in Buffers
    BY <1>5, <1>6, <1>7, NewBufferType DEF LogType
<1>9. buffer1' # nullptr /\ buffer2' # nullptr
    BY <1>8, BufferIsNotNull
<1>10. <<>> \in Seq(Buffers)
    OBVIOUS
<1>11. LogType'
    BY <1>1, <1>8, <1>10 DEF LogType, front, world
<1>12. SparesAgree'
    BY <1>1, <1>9 DEF SparesAgree, front
<1>13. \E i \in 1 .. Len(buffers_to_write) : buffer1' = reset(buffers_to_write[i])
    BY <1>3, <1>5, <1>6
<1>14. \/ buffer2' = buffer2
       \/ \E i \in 1 .. Len(buffers_to_write) : buffer2' = reset(buffers_to_write[i])
    BY <1>5, <1>7
<1> QED
    BY <1>11, <1>12, <1>13, <1>14

\* Async_Logging::append.
LEMMA LogAppendAgrees ==
    ASSUME LogType, SparesAgree, log_append
    PROVE  LogType' /\ SparesAgree'
<1> DEFINE line == <<lines + 1>>
           fresh == IF next_buffer_ # nullptr THEN next_buffer_ ELSE NewBuffer
<1>1. /\ lines' = lines + 1 /\ UNCHANGED <<local, thread, world, at, output>>
      /\ \/ current_buffer_' = append(current_buffer_, line) /\ UNCHANGED <<next_buffer_, buffers_>>
         \/ /\ buffers_' = Append(buffers_, current_buffer_)
            /\ current_buffer_' = append(fresh, line) /\ next_buffer_' = nullptr
    BY DEF log_append
<1>2. fresh \in Buffers /\ current_buffer_ \in Buffers /\ lines + 1 \in Nat
    BY NewBufferType DEF LogType
<1> HIDE DEF fresh
<1>3. append(current_buffer_, line) \in Buffers /\ append(fresh, line) \in Buffers
    BY <1>2, AppendType
<1> HIDE DEF line
<1>4. current_buffer_' \in Buffers
    BY <1>1, <1>3
<1>5. /\ Append(buffers_, current_buffer_) \in Seq(Buffers)
      /\ Append(buffers_, current_buffer_) # <<>>
    BY <1>2 DEF LogType
<1>6. buffers_' \in Seq(Buffers) /\ next_buffer_' \in Buffers \cup {nullptr}
    BY <1>1, <1>5 DEF LogType
<1>7. next_buffer_' = nullptr => buffers_' # <<>>
    BY <1>1, <1>5 DEF SparesAgree
<1>8. LogType'
    BY <1>1, <1>2, <1>4, <1>6 DEF LogType, local, world
<1>9. SparesAgree'
    BY <1>1, <1>7 DEF SparesAgree, local
<1> QED
    BY <1>8, <1>9

\* A step that leaves the buffers and the place of the thread alone.
LEMMA BuffersStay ==
    ASSUME LogType, SparesAgree,
           UNCHANGED <<front, buffer1, buffer2, buffers_to_write, at, lines>>,
           now' \in Nat, pos' \in Nat
    PROVE  LogType' /\ SparesAgree'
BY DEF LogType, SparesAgree, front

LEMMA LogStep == LogInv /\ [Next]_vars => LogInv'
<1>1. SUFFICES ASSUME LogInv, [Next]_vars PROVE LogInv'
    OBVIOUS
<1>2. LogType /\ SparesAgree /\ FileAgrees(output) /\ now \in Nat /\ pos \in Nat
    BY <1>1 DEF LogInv, LogType
<1>3. CASE log_append
    BY <1>2, <1>3, LogAppendAgrees DEF log_append, LogInv
<1>4. CASE start
    <2>1. UNCHANGED <<front, local, world, output, lines>> /\ at' \in {at, "begin"}
        BY <1>4 DEF start
    <2> QED
        BY <1>2, <2>1 DEF LogInv, LogType, SparesAgree, front, local, world
<1>5. CASE stop \/ join
    <2>1. UNCHANGED <<front, buffer1, buffer2, buffers_to_write, pos, at, lines, now, output>>
        BY <1>5 DEF stop, join, local, world
    <2> QED
        BY <1>2, <2>1, BuffersStay DEF LogInv
<1>6. CASE thread_begin
    <2>1. /\ at' = "test" /\ output' = Log_File(now)
          /\ buffer1' = bzero(NewBuffer) /\ buffer2' = bzero(NewBuffer)
          /\ UNCHANGED <<front, buffers_to_write, pos, now, lines>>
        BY <1>6 DEF thread_begin, world
    <2>2. buffer1' \in Buffers /\ buffer2' \in Buffers /\ buffer1' # nullptr /\ buffer2' # nullptr
        BY <2>1, NewBufferType, BufferIsNotNull
    <2>3. LogType' /\ SparesAgree'
        BY <1>2, <2>1, <2>2 DEF LogType, SparesAgree, front
    <2> QED
        BY <1>2, <2>1, <2>3, NewFileAgrees DEF LogInv
<1>7. CASE loop_test
    <2>1. /\ at = "test" /\ at' \in {"lock", "ended"} /\ UNCHANGED <<front, local, now, lines>>
          /\ output' = output \/ output' = flush(output, disk_full)
        BY <1>7 DEF loop_test, world
    <2>2. LogType' /\ SparesAgree'
        BY <1>2, <2>1 DEF LogType, SparesAgree, front, local
    <2> QED
        BY <1>2, <2>1, <2>2, FlushAgrees DEF LogInv
<1>8. CASE lock
    <2>1. CASE buffers_ = <<>> /\ at' = "wait" /\ UNCHANGED <<front, local>>
        <3>1. at = "lock" /\ UNCHANGED <<front, local, now, lines, output>>
            BY <1>8, <2>1 DEF lock, world
        <3> QED
            BY <1>2, <2>1, <3>1 DEF LogInv, LogType, SparesAgree, front, local
    <2>2. CASE exchange /\ at' = "write"
        <3>1. at = "lock" /\ UNCHANGED <<pos, now, lines, output>>
            BY <1>8, <2>2 DEF lock, exchange, world
        <3>2. buffer1 # nullptr /\ buffer2 # nullptr
            BY <1>2, <3>1 DEF SparesAgree
        <3> QED
            BY <1>2, <2>2, <3>1, <3>2, ExchangeAgrees DEF LogInv
    <2> QED
        BY <1>8, <2>1, <2>2 DEF lock
<1>9. CASE wakeup
    <2>1. at = "wait" /\ exchange /\ at' = "write" /\ UNCHANGED <<pos, now, lines, output>>
        BY <1>9 DEF wakeup, world
    <2>2. buffer1 # nullptr /\ buffer2 # nullptr
        BY <1>2, <2>1 DEF SparesAgree
    <2> QED
        BY <1>2, <2>1, <2>2, ExchangeAgrees DEF LogInv
<1>10. CASE write_buffer
    <2> DEFINE units == to_write(buffers_to_write[pos + 1])
               rest == SubSeq(units, written + 1, Len(units))
    <2>1. /\ at = "write" /\ pos < Len(buffers_to_write)
          /\ UNCHANGED <<front, buffer1, buffer2, buffers_to_write, now, at, lines>>
        BY <1>10 DEF write_buffer, world
    <2>2. PICK n \in 0 .. Len(rest) :
            LET f == write(output, SubSeq(rest, 1, n), disk_full)
            IN  output' = IF n = Len(rest) THEN append_in_lock(f, Len(units), now, disk_full) ELSE f
        BY <1>10 DEF write_buffer
    <2> DEFINE f == write(output, SubSeq(rest, 1, n), disk_full)
    <2>3. FileAgrees(f)
        BY <1>2, WriteAgrees
    <2>4. Len(units) \in Nat
        <3>1. buffers_to_write[pos + 1] \in Buffers
            <4>1. buffers_to_write \in Seq(Buffers) /\ pos \in Nat
                BY <1>2 DEF LogType
            <4> QED
                BY <2>1, <4>1
        <3> DEFINE d == buffers_to_write[pos + 1].data
        <3>2. d \in Seq(Int) /\ Len(d) \in Nat
            <4>1. d \in [1 .. BufferSize -> Int] /\ BufferSize \in Nat
                BY <3>1, LoggingAssumption DEF Buffers
            <4> QED
                BY <4>1
        <3>3. units = SubSeq(d, 1, Len(d))
            BY DEF to_write, length
        <3> HIDE DEF d, units
        <3>4. units \in Seq(Int)
            BY <3>2, <3>3, SubSeqProperties
        <3> QED
            BY <3>4
    <2>5. FileAgrees(append_in_lock(f, Len(units), now, disk_full))
        BY <1>2, <2>3, <2>4, AppendAgrees
    <2>6. FileAgrees(output')
        BY <2>2, <2>3, <2>5
    <2>7. pos' \in Nat
        BY <1>2, <1>10 DEF write_buffer
    <2> QED
        BY <1>2, <2>1, <2>6, <2>7, BuffersStay DEF LogInv
<1>11. CASE recycle
    <2>1. output' = flush(output, disk_full)
        BY <1>11 DEF recycle
    <2> QED
        BY <1>2, <1>11, <2>1, RecycleAgrees, FlushAgrees DEF LogInv
<1>12. CASE tick \/ clock_set_back
    <2>1. now' \in Nat /\ UNCHANGED <<front, local, at, lines, output>>
        BY <1>2, <1>12 DEF tick, clock_set_back
    <2> QED
        BY <1>2, <2>1, BuffersStay DEF LogInv, local
<1>13. CASE disk_fills \/ disk_freed
    <2>1. UNCHANGED <<front, local, now, at, lines, output>>
        BY <1>13 DEF disk_fills, disk_freed
    <2> QED
        BY <1>2, <2>1, BuffersStay DEF LogInv, local
<1>14. CASE UNCHANGED vars
    <2>1. UNCHANGED <<front, local, now, at, lines, output>>
        BY <1>14 DEF vars, world
    <2> QED
        BY <1>2, <2>1, BuffersStay DEF LogInv, local
<1> QED
    BY <1>1, <1>3, <1>4, <1>5, <1>6, <1>7, <1>8, <1>9, <1>10, <1>11, <1>12, <1>13, <1>14
       DEF Next, ThreadStep

\* The inductive invariant of the logging: the types, the spares and the file.
THEOREM LoggingInvariant == Spec => []LogInv
<1> QED
    BY LogInit, LogStep, PTL DEF Spec

\* append, thread_func: whatever the sizes and however the appends interleave with
\* the exchange, buffer1 and buffer2 can be taken back from the written buffers,
\* and a full buffer waits for the thread whenever next_buffer_ is used up.
THEOREM TheBuffersGoRound == Spec => []BuffersGoRound
<1>1. LogInv => BuffersGoRound
    <2>1. SUFFICES ASSUME LogType, SparesAgree, at = "write"
          PROVE  Len(buffers_to_write)
                    >= Cardinality({b \in {1, 2} : <<buffer1, buffer2>>[b] = nullptr})
        BY DEF LogInv, BuffersGoRound, SparesAgree
    <2> DEFINE S == {b \in {1, 2} : <<buffer1, buffer2>>[b] = nullptr}
    <2>2. Len(buffers_to_write) \in Nat /\ Len(buffers_to_write) >= 1
        BY <2>1 DEF LogType, SparesAgree
    <2>3. CASE buffer2 = nullptr
        <3>1. S = {1, 2}
            BY <2>1, <2>3 DEF SparesAgree
        <3>2. Cardinality({1, 2}) = 2
            <4>1. Cardinality({1}) = 1 /\ IsFiniteSet({1})
                BY FS_Singleton
            <4>2. Cardinality({1} \cup {2}) = 2
                BY <4>1, FS_AddElement
            <4>3. {1} \cup {2} = {1, 2}
                OBVIOUS
            <4> QED
                BY <4>2, <4>3
        <3> QED
            BY <2>1, <2>3, <3>1, <3>2 DEF SparesAgree
    <2>4. CASE buffer2 # nullptr
        <3>1. S = {1}
            BY <2>1, <2>4 DEF SparesAgree
        <3> QED
            BY <2>2, <3>1, FS_Singleton
    <2> QED
        BY <2>3, <2>4
<1> QED
    BY <1>1, LoggingInvariant, PTL

\* append_in_lock: however the clock moves, forwards or back, and whatever the
\* size of the buffers does to the files, fewer than check_every_n_ writes in a
\* row go to the file of an earlier day.
THEOREM TheDaysAreSeparated == Spec => []DaysSeparated
<1>1. LogInv => DaysSeparated
    <2>1. SUFFICES ASSUME FileAgrees(output) PROVE output.strays < CheckEveryN
        BY DEF LogInv, DaysSeparated
    <2>2. output.strays \in Nat /\ output.count_ \in Nat /\ CheckEveryN \in Nat
        BY <2>1, LogFileAssumption DEF FileAgrees, IsFile
    <2> QED
        BY <2>1, <2>2 DEF FileAgrees
<1> QED
    BY <1>1, LoggingInvariant, PTL

-----------------------------------------------------------------------------
(* Lines on their way through the buffers.                                 *)

\* In the buffers H, of which p and wr units of the next are written: unit j of
\* buffer i is a line that waits.
Waits(H, p, wr, i, j) ==
    /\ i \in 1 .. Len(H) /\ j \in 1 .. BufferSize
    /\ i > p /\ j <= H[i].cur /\ (i = p + 1 => j > wr)

Earlier(i, j, k, l) == i < k \/ (i = k /\ j < l)

\* Of the lines 1 to n the files have S, and H has the others, in order; whatever
\* else is in H was written before.
InLine(H, p, wr, S, n) ==
    /\ S \subseteq 1 .. n
    /\ \A i, j : Waits(H, p, wr, i, j) => H[i].data[j] \in 1 .. n
    /\ \A k \in 1 .. n : k \in S \/ \E i, j : Waits(H, p, wr, i, j) /\ H[i].data[j] = k
    /\ \A i, j, k, l : Waits(H, p, wr, i, j) /\ Waits(H, p, wr, k, l) /\ Earlier(i, j, k, l)
            => H[i].data[j] < H[k].data[l]
    /\ \A i, j : Waits(H, p, wr, i, j) => \A k \in S : k < H[i].data[j]
    /\ \A i \in 1 .. Len(H), j \in 1 .. BufferSize :
        H[i].data[j] <= 0 \/ H[i].data[j] \in S \/ Waits(H, p, wr, i, j)

\* A buffer without lines of its own at the end makes no difference.
LEMMA EmptyBufferInLine ==
    ASSUME NEW H \in Seq(Buffers), NEW p \in Nat, NEW wr \in Nat, NEW S, NEW n \in Nat,
           InLine(H, p, wr, S, n), NEW b \in Buffers, b.cur = 0,
           \A j \in 1 .. BufferSize : b.data[j] <= 0 \/ b.data[j] \in S
    PROVE  /\ InLine(Append(H, b), p, wr, S, n)
           /\ \A i, j : Waits(Append(H, b), p, wr, i, j) <=> Waits(H, p, wr, i, j)
<1> DEFINE G == Append(H, b)
           m == Len(H)
<1>1. /\ m \in Nat /\ Len(G) = m + 1 /\ G[m + 1] = b
      /\ \A i \in 1 .. m : G[i] = H[i]
    OBVIOUS
<1> HIDE DEF G, m
<1>2. ASSUME NEW i, NEW j PROVE Waits(G, p, wr, i, j) <=> Waits(H, p, wr, i, j)
    <2>1. CASE i \in 1 .. m
        BY <2>1, <1>1 DEF Waits, m
    <2>2. CASE i = m + 1
        <3>1. j \in 1 .. BufferSize => ~(j <= b.cur)
            OBVIOUS
        <3>2. ~Waits(G, p, wr, i, j)
            BY <2>2, <3>1, <1>1 DEF Waits
        <3> QED
            BY <2>2, <3>2, <1>1 DEF Waits, m
    <2>3. CASE i \notin 1 .. m + 1
        BY <2>3, <1>1 DEF Waits, m
    <2> QED
        BY <2>1, <2>2, <2>3, <1>1
<1>3. ASSUME NEW i, NEW j, Waits(H, p, wr, i, j) PROVE G[i] = H[i]
    BY <1>1, <1>3 DEF Waits, m
<1>4. /\ S \subseteq 1 .. n
      /\ \A i, j : Waits(G, p, wr, i, j) => G[i].data[j] \in 1 .. n
      /\ \A k \in 1 .. n : k \in S \/ \E i, j : Waits(G, p, wr, i, j) /\ G[i].data[j] = k
    BY <1>2, <1>3 DEF InLine
<1>5. ASSUME NEW i, NEW j, NEW k, NEW l, Waits(G, p, wr, i, j), Waits(G, p, wr, k, l),
             Earlier(i, j, k, l)
      PROVE  G[i].data[j] < G[k].data[l]
    <2>1. Waits(H, p, wr, i, j) /\ Waits(H, p, wr, k, l) /\ G[i] = H[i] /\ G[k] = H[k]
        BY <1>2, <1>3, <1>5
    <2> QED
        BY <2>1, <1>5 DEF InLine
<1>6. ASSUME NEW i, NEW j, Waits(G, p, wr, i, j), NEW k \in S PROVE k < G[i].data[j]
    <2>1. Waits(H, p, wr, i, j) /\ G[i] = H[i]
        BY <1>2, <1>3, <1>6
    <2> QED
        BY <2>1 DEF InLine
<1>7. ASSUME NEW i \in 1 .. Len(G), NEW j \in 1 .. BufferSize
      PROVE  G[i].data[j] <= 0 \/ G[i].data[j] \in S \/ Waits(G, p, wr, i, j)
    <2>1. CASE i \in 1 .. m
        BY <2>1, <1>1, <1>2 DEF InLine, m
    <2>2. CASE i = m + 1
        BY <2>2, <1>1
    <2> QED
        BY <2>1, <2>2, <1>1
<1>8. InLine(G, p, wr, S, n)
    BY <1>4, <1>5, <1>6, <1>7 DEF InLine
<1> QED
    BY <1>2, <1>8 DEF G

\* G is H with n + 1 as unit c of its last buffer.
OneMore(H, G, c, n) ==
    /\ H \in Seq(Buffers) /\ G \in Seq(Buffers) /\ Len(G) = Len(H) /\ c \in 1 .. BufferSize
    /\ \A i \in 1 .. Len(H) : i # Len(H) => G[i] = H[i]
    /\ c = H[Len(H)].cur + 1 /\ c = G[Len(H)].cur /\ G[Len(H)].data[c] = n + 1
    /\ \A j \in 1 .. BufferSize : j # c => G[Len(H)].data[j] = H[Len(H)].data[j]

\* A line more in the last buffer.
LEMMA LineInLine ==
    ASSUME NEW H, NEW p \in Nat, NEW wr \in Nat, NEW S, NEW n \in Nat,
           InLine(H, p, wr, S, n), NEW G, NEW c, OneMore(H, G, c, n),
           p < Len(H), Len(H) = p + 1 => wr = 0
    PROVE  /\ InLine(G, p, wr, S, n + 1)
           /\ \A i, j : Waits(G, p, wr, i, j) <=> (Waits(H, p, wr, i, j) \/ (i = Len(H) /\ j = c))
           /\ \A i, j : Waits(H, p, wr, i, j) => G[i].data[j] = H[i].data[j]
<1> USE DEF OneMore
<1> DEFINE m == Len(H)
<1>1. m \in Nat /\ m > 0 /\ m \in 1 .. Len(G) /\ m \in 1 .. Len(H) /\ H[m].cur \in 0 .. BufferSize
      /\ H[m] \in Buffers /\ BufferSize \in Nat
    <2>1. m \in Nat /\ m > 0 /\ m \in 1 .. Len(G) /\ m \in 1 .. Len(H)
        OBVIOUS
    <2>2. H[m] \in Buffers
        BY <2>1
    <2> QED
        BY <2>1, <2>2, LoggingAssumption DEF Buffers
<1> HIDE DEF m
<1>2. ASSUME NEW i, NEW j
      PROVE  Waits(G, p, wr, i, j) <=> (Waits(H, p, wr, i, j) \/ (i = m /\ j = c))
    <2>1. CASE i = m
        <3>1. j \in 1 .. BufferSize => (j <= G[m].cur <=> j <= H[m].cur \/ j = c)
            BY <1>1 DEF m
        <3>2. c \in 1 .. BufferSize /\ m > p /\ (m = p + 1 => c > wr)
            BY <1>1 DEF m
        <3> QED
            BY <2>1, <3>1, <3>2, <1>1 DEF Waits, m
    <2>2. CASE i # m
        BY <2>2 DEF Waits, m
    <2> QED
        BY <2>1, <2>2
<1>3. ASSUME NEW i, NEW j, Waits(H, p, wr, i, j) PROVE G[i].data[j] = H[i].data[j]
    <2>1. CASE i = m
        <3>1. j \in 1 .. BufferSize /\ j # c
            BY <1>3, <2>1, <1>1 DEF Waits, m
        <3> QED
            BY <2>1, <3>1 DEF m
    <2>2. CASE i # m
        BY <1>3, <2>2 DEF Waits, m
    <2> QED
        BY <2>1, <2>2
<1>4. G[m].data[c] = n + 1
    BY DEF m
<1>5. S \subseteq 1 .. n + 1 /\ \A k \in S : k \in 1 .. n
    <2>1. S \subseteq 1 .. n
        BY DEF InLine
    <2> QED
        BY <2>1
<1>6. ASSUME NEW i, NEW j, Waits(H, p, wr, i, j)
      PROVE  G[i].data[j] \in 1 .. n /\ \A k \in S : k < G[i].data[j]
    <2>1. H[i].data[j] \in 1 .. n /\ \A k \in S : k < H[i].data[j]
        BY <1>6 DEF InLine
    <2> QED
        BY <2>1, <1>3, <1>6
<1>7. ASSUME NEW i, NEW j, Waits(G, p, wr, i, j)
      PROVE  G[i].data[j] \in 1 .. n + 1 /\ \A k \in S : k < G[i].data[j]
    <2>1. CASE Waits(H, p, wr, i, j)
        BY <2>1, <1>6
    <2>2. CASE i = m /\ j = c
        BY <2>2, <1>4, <1>5
    <2> QED
        BY <1>2, <1>7, <2>1, <2>2
<1>8. ASSUME NEW k \in 1 .. n + 1
      PROVE  k \in S \/ \E i, j : Waits(G, p, wr, i, j) /\ G[i].data[j] = k
    <2>1. CASE k = n + 1
        <3>1. Waits(G, p, wr, m, c)
            BY <1>2
        <3> QED
            BY <3>1, <2>1, <1>4
    <2>2. CASE k \in 1 .. n
        <3>1. k \in S \/ \E i, j : Waits(H, p, wr, i, j) /\ H[i].data[j] = k
            BY <2>2 DEF InLine
        <3> QED
            BY <3>1, <1>2, <1>3
    <2> QED
        BY <2>1, <2>2
<1>9. ASSUME NEW i, NEW j, NEW k, NEW l, Waits(G, p, wr, i, j), Waits(G, p, wr, k, l),
             Earlier(i, j, k, l)
      PROVE  G[i].data[j] < G[k].data[l]
    <2>1. CASE Waits(H, p, wr, i, j) /\ Waits(H, p, wr, k, l)
        <3>1. H[i].data[j] < H[k].data[l]
            BY <1>9, <2>1 DEF InLine
        <3> QED
            BY <3>1, <2>1, <1>3
    <2>2. CASE Waits(H, p, wr, i, j) /\ k = m /\ l = c
        BY <2>2, <1>4, <1>6
    <2>3. CASE i = m /\ j = c
        <3>1. k \in 1 .. m /\ k >= m /\ l \in 1 .. BufferSize /\ l <= G[k].cur
            BY <1>9, <2>3, <1>1 DEF Waits, Earlier, m
        <3>2. k = m /\ l <= c /\ c < l
            BY <1>1, <1>9, <2>3, <3>1 DEF Earlier, m
        <3> QED
            BY <3>1, <3>2
    <2> QED
        BY <1>2, <1>9, <2>1, <2>2, <2>3
<1>10. ASSUME NEW i \in 1 .. Len(G), NEW j \in 1 .. BufferSize
      PROVE  G[i].data[j] <= 0 \/ G[i].data[j] \in S \/ Waits(G, p, wr, i, j)
    <2>1. CASE i = m /\ j = c
        BY <2>1, <1>2
    <2>2. CASE ~(i = m /\ j = c)
        <3>1. i \in 1 .. Len(H) /\ G[i].data[j] = H[i].data[j]
            BY <2>2 DEF m
        <3>2. H[i].data[j] <= 0 \/ H[i].data[j] \in S \/ Waits(H, p, wr, i, j)
            BY <3>1 DEF InLine
        <3> QED
            BY <3>1, <3>2, <1>2
    <2> QED
        BY <2>1, <2>2
<1>11. InLine(G, p, wr, S, n + 1)
    <2>1. \A k \in 1 .. n + 1 : k \in S \/ \E i, j : Waits(G, p, wr, i, j) /\ G[i].data[j] = k
        BY <1>8
    <2>2. \A i, j : Waits(G, p, wr, i, j) =>
            G[i].data[j] \in 1 .. n + 1 /\ \A k \in S : k < G[i].data[j]
        BY <1>7
    <2>3. \A i, j, k, l : Waits(G, p, wr, i, j) /\ Waits(G, p, wr, k, l) /\ Earlier(i, j, k, l)
            => G[i].data[j] < G[k].data[l]
        BY <1>9
    <2>4. \A i \in 1 .. Len(G), j \in 1 .. BufferSize :
            G[i].data[j] <= 0 \/ G[i].data[j] \in S \/ Waits(G, p, wr, i, j)
        BY <1>10
    <2> QED
        BY <1>5, <2>1, <2>2, <2>3, <2>4 DEF InLine
<1> QED
    BY <1>2, <1>3, <1>11 DEF m

\* The next k units of the next buffer are written, which may be all of it.
Writes(H, p, wr, k, units, p2, wr2) ==
    /\ p < Len(H) /\ wr < BufferSize /\ k \in 0 .. BufferSize - wr
    /\ units \in Seq(Int) /\ Len(units) = k
    /\ \A a \in 1 .. k : units[a] = H[p + 1].data[wr + a]
    /\ p2 \in Nat /\ wr2 \in Nat
    /\ \/ k = BufferSize - wr /\ p2 = p + 1 /\ wr2 = 0
       \/ k < BufferSize - wr /\ p2 = p /\ wr2 = wr + k

\* k units more of the next buffer are written: S grows by the lines among them,
\* which come in order, and the rest is as before.
LEMMA WrittenInLine ==
    ASSUME NEW H \in Seq(Buffers), NEW p \in Nat, NEW wr \in Nat, NEW S, NEW n \in Nat,
           InLine(H, p, wr, S, n), NEW units, NEW p2, NEW wr2, NEW k,
           Writes(H, p, wr, k, units, p2, wr2)
    PROVE  /\ InLine(H, p2, wr2, S \cup LinesOf(units), n)
           /\ Preceded(S, units)
           /\ \A i, j : Waits(H, p2, wr2, i, j) => Waits(H, p, wr, i, j)
<1> USE DEF Writes
<1> DEFINE T == S \cup LinesOf(units)
           b == H[p + 1]
<1>1. /\ BufferSize \in Nat /\ Len(H) \in Nat /\ p + 1 \in 1 .. Len(H) /\ b \in Buffers
      /\ b.data \in [1 .. BufferSize -> Int] /\ b.cur \in 0 .. BufferSize
    <2>1. BufferSize \in Nat /\ Len(H) \in Nat /\ p + 1 \in 1 .. Len(H)
        BY LoggingAssumption
    <2>2. b \in Buffers
        BY <2>1
    <2> QED
        BY <2>1, <2>2 DEF Buffers
<1> HIDE DEF b
<1>2. ASSUME NEW x
      PROVE  x \in LinesOf(units) <=> \E j \in 1 .. BufferSize :
                j > wr /\ j <= wr + k /\ b.data[j] = x /\ x > 0
    <2>1. x \in LinesOf(units) <=> x > 0 /\ \E a \in 1 .. k : units[a] = x
        <3>1. DOMAIN units = 1 .. k
            OBVIOUS
        <3> QED
            BY <3>1 DEF LinesOf, Range
    <2>2. ASSUME NEW a \in 1 .. k PROVE wr + a \in 1 .. BufferSize /\ wr + a > wr /\ wr + a <= wr + k
                                        /\ units[a] = b.data[wr + a]
        BY <1>1 DEF b
    <2>3. ASSUME NEW j \in 1 .. BufferSize, j > wr, j <= wr + k
          PROVE  j - wr \in 1 .. k /\ units[j - wr] = b.data[j]
        <3>1. j - wr \in 1 .. k /\ wr + (j - wr) = j
            BY <1>1, <2>3
        <3> QED
            BY <3>1 DEF b
    <2> QED
        BY <2>1, <2>2, <2>3
<1>3. ASSUME NEW i, NEW j
      PROVE  Waits(H, p2, wr2, i, j) <=> Waits(H, p, wr, i, j) /\ ~(i = p + 1 /\ j <= wr + k)
    <2>1. CASE i \notin 1 .. Len(H) \/ j \notin 1 .. BufferSize
        BY <2>1 DEF Waits
    <2>2. CASE i \in 1 .. Len(H) /\ j \in 1 .. BufferSize
        <3>1. CASE k = BufferSize - wr /\ p2 = p + 1 /\ wr2 = 0
            <4>1. j <= wr + k /\ (i > p2 <=> i > p /\ i # p + 1) /\ j > wr2
                BY <2>2, <3>1, <1>1
            <4> QED
                BY <2>2, <3>1, <4>1 DEF Waits
        <3>2. CASE k < BufferSize - wr /\ p2 = p /\ wr2 = wr + k
            BY <2>2, <3>2, <1>1 DEF Waits
        <3> QED
            BY <3>1, <3>2
    <2> QED
        BY <2>1, <2>2
<1>4. ASSUME NEW j \in 1 .. BufferSize, j > wr, j <= wr + k, b.data[j] > 0
      PROVE  b.data[j] \in S \/ (Waits(H, p, wr, p + 1, j) /\ b.data[j] \in 1 .. n)
    <2>1. b.data[j] <= 0 \/ b.data[j] \in S \/ Waits(H, p, wr, p + 1, j)
        BY <1>1 DEF InLine, b
    <2>2. b.data[j] \in Int
        BY <1>1
    <2>3. Waits(H, p, wr, p + 1, j) => b.data[j] \in 1 .. n
        BY DEF InLine, b
    <2> QED
        BY <1>4, <2>1, <2>2, <2>3
<1>5. T \subseteq 1 .. n
    <2>1. S \subseteq 1 .. n
        BY DEF InLine
    <2> QED
        BY <2>1, <1>2, <1>4
<1>6. ASSUME NEW i, NEW j, Waits(H, p2, wr2, i, j)
      PROVE  H[i].data[j] \in 1 .. n /\ \A x \in T : x < H[i].data[j]
    <2>1. Waits(H, p, wr, i, j) /\ ~(i = p + 1 /\ j <= wr + k)
        BY <1>3, <1>6
    <2>2. H[i].data[j] \in 1 .. n /\ \A x \in S : x < H[i].data[j]
        BY <2>1 DEF InLine
    <2>3. ASSUME NEW x \in LinesOf(units) PROVE x < H[i].data[j]
        <3>1. PICK l \in 1 .. BufferSize : l > wr /\ l <= wr + k /\ b.data[l] = x /\ x > 0
            BY <1>2
        <3>2. CASE x \in S
            BY <3>2, <2>2
        <3>3. CASE Waits(H, p, wr, p + 1, l)
            <4>1. Earlier(p + 1, l, i, j)
                <5>1. i \in 1 .. Len(H) /\ j \in 1 .. BufferSize /\ i > p /\ l \in Int
                    BY <2>1, <3>1 DEF Waits
                <5>2. CASE i = p + 1
                    <6>1. ~(j <= wr + k) /\ l <= wr + k
                        BY <2>1, <3>1, <5>2
                    <6> QED
                        BY <5>1, <5>2, <6>1, <1>1 DEF Earlier
                <5>3. CASE i # p + 1
                    BY <5>1, <5>3, <1>1 DEF Earlier
                <5> QED
                    BY <5>2, <5>3
            <4> QED
                BY <2>1, <3>1, <3>3, <4>1 DEF InLine, b
        <3> QED
            BY <3>1, <3>2, <3>3, <1>4
    <2> QED
        BY <2>2, <2>3
<1>7. ASSUME NEW x \in 1 .. n
      PROVE  x \in T \/ \E i, j : Waits(H, p2, wr2, i, j) /\ H[i].data[j] = x
    <2>1. CASE x \in S
        BY <2>1
    <2>2. CASE \E i, j : Waits(H, p, wr, i, j) /\ H[i].data[j] = x
        <3>1. PICK i, j : Waits(H, p, wr, i, j) /\ H[i].data[j] = x
            BY <2>2
        <3>2. CASE i = p + 1 /\ j <= wr + k
            <4>1. j \in 1 .. BufferSize /\ j > wr /\ b.data[j] = x /\ x > 0
                BY <3>1, <3>2 DEF Waits, b
            <4> QED
                BY <4>1, <3>2, <1>2
        <3>3. CASE ~(i = p + 1 /\ j <= wr + k)
            BY <3>1, <3>3, <1>3
        <3> QED
            BY <3>2, <3>3
    <2> QED
        BY <2>1, <2>2 DEF InLine
<1>8. ASSUME NEW i, NEW j, NEW q, NEW l, Waits(H, p2, wr2, i, j), Waits(H, p2, wr2, q, l),
             Earlier(i, j, q, l)
      PROVE  H[i].data[j] < H[q].data[l]
    <2>1. Waits(H, p, wr, i, j) /\ Waits(H, p, wr, q, l)
        BY <1>3, <1>8
    <2> QED
        BY <2>1, <1>8 DEF InLine
<1>9. ASSUME NEW i \in 1 .. Len(H), NEW j \in 1 .. BufferSize
      PROVE  H[i].data[j] <= 0 \/ H[i].data[j] \in T \/ Waits(H, p2, wr2, i, j)
    <2>1. H[i].data[j] <= 0 \/ H[i].data[j] \in S \/ Waits(H, p, wr, i, j)
        BY DEF InLine
    <2>2. CASE Waits(H, p, wr, i, j) /\ i = p + 1 /\ j <= wr + k
        <3>1. j > wr /\ b.data[j] = H[i].data[j] /\ b.data[j] \in 1 .. n
            BY <2>2 DEF Waits, b, InLine
        <3>2. b.data[j] \in LinesOf(units)
            BY <2>2, <3>1, <1>2
        <3> QED
            BY <3>1, <3>2
    <2> QED
        BY <2>1, <2>2, <1>3
<1>10. Preceded(S, units)
    <2>1. SUFFICES ASSUME NEW a \in 1 .. k, units[a] > 1
                   PROVE  \/ units[a] - 1 \in S
                          \/ \E c \in 1 .. k : c < a /\ units[c] = units[a] - 1
        <3>1. DOMAIN units = 1 .. k
            OBVIOUS
        <3> QED
            BY <3>1, <2>1 DEF Preceded
    <2> DEFINE j == wr + a
               x == b.data[j]
    <2>2. j \in 1 .. BufferSize /\ j > wr /\ j <= wr + k /\ units[a] = x /\ x \in Int /\ x > 0
        <3>1. j \in 1 .. BufferSize /\ j > wr /\ j <= wr + k
            <4>1. k \in 0 .. BufferSize - wr
                OBVIOUS
            <4> HIDE DEF Writes
            <4> QED
                BY <1>1, <4>1
        <3>2. units[a] = b.data[j]
            BY DEF b
        <3>3. b.data[j] \in Int
            BY <1>1, <3>1
        <3> QED
            BY <2>1, <3>1, <3>2, <3>3
    <2> HIDE DEF j, x
    <2>3. x - 1 \in S \/ \E i, l : Waits(H, p, wr, i, l) /\ H[i].data[l] = x - 1
        <3>1. x \in S \/ x \in 1 .. n
            BY <2>2, <1>4 DEF x
        <3>2. S \subseteq 1 .. n
            BY DEF InLine
        <3>3. x - 1 \in 1 .. n
            BY <2>1, <2>2, <3>1, <3>2, SMTT(30)
        <3> QED
            BY <3>3 DEF InLine
    <2>4. ASSUME NEW i, NEW l, Waits(H, p, wr, i, l), H[i].data[l] = x - 1
          PROVE  x - 1 \in S \/ \E c \in 1 .. k : c < a /\ units[c] = units[a] - 1
        <3>1. x \notin S
            <4>1. x \in S => x < H[i].data[l]
                BY <2>4 DEF InLine
            <4> QED
                BY <4>1, <2>2, <2>4
        <3>2. Waits(H, p, wr, p + 1, j) /\ H[p + 1].data[j] = x
            BY <2>2, <3>1, <1>4 DEF x, b
        <3>3. ~Earlier(p + 1, j, i, l)
            <4>1. Earlier(p + 1, j, i, l) => x < H[i].data[l]
                BY <2>4, <3>2 DEF InLine
            <4> QED
                BY <4>1, <2>2, <2>4
        <3>4. i \in 1 .. Len(H) /\ i > p /\ l \in 1 .. BufferSize /\ (i = p + 1 => l > wr)
            BY <2>4 DEF Waits
        <3>5. i = p + 1 /\ l <= j
            BY <3>3, <3>4, <1>1, <2>2 DEF Earlier
        <3>6. l # j
            BY <3>2, <3>5, <2>2, <2>4, SMTT(30)
        <3> DEFINE c == l - wr
        <3>7. c \in 1 .. k /\ c < a /\ wr + c = l
            BY <3>4, <3>5, <3>6, <2>2 DEF j
        <3>8. units[c] = x - 1
            BY <3>7, <3>5, <2>4
        <3> QED
            BY <3>7, <3>8, <2>2
    <2> QED
        BY <2>2, <2>3, <2>4
<1>11. InLine(H, p2, wr2, T, n)
    <2>1. \A x \in 1 .. n : x \in T \/ \E i, j : Waits(H, p2, wr2, i, j) /\ H[i].data[j] = x
        BY <1>7
    <2>2. \A i, j : Waits(H, p2, wr2, i, j) =>
            H[i].data[j] \in 1 .. n /\ \A x \in T : x < H[i].data[j]
        BY <1>6
    <2>3. \A i, j, q, l : Waits(H, p2, wr2, i, j) /\ Waits(H, p2, wr2, q, l) /\ Earlier(i, j, q, l)
            => H[i].data[j] < H[q].data[l]
        BY <1>8
    <2>4. \A i \in 1 .. Len(H), j \in 1 .. BufferSize :
            H[i].data[j] <= 0 \/ H[i].data[j] \in T \/ Waits(H, p2, wr2, i, j)
        BY <1>9
    <2> HIDE DEF T
    <2> QED
        BY <1>5, <2>1, <2>2, <2>3, <2>4 DEF InLine
<1> QED
    BY <1>3, <1>10, <1>11

\* The first m buffers, all written, are taken away.
LEMMA RestInLine ==
    ASSUME NEW H \in Seq(Buffers), NEW S, NEW n \in Nat, NEW m \in 0 .. Len(H),
           InLine(H, m, 0, S, n),
           NEW G \in Seq(Buffers), Len(G) = Len(H) - m, \A i \in 1 .. Len(G) : G[i] = H[m + i]
    PROVE  /\ InLine(G, 0, 0, S, n)
           /\ \A i \in Int : \A j : Waits(G, 0, 0, i, j) <=> Waits(H, m, 0, m + i, j)
<1>1. Len(H) \in Nat /\ Len(G) \in Nat /\ m \in Nat /\ BufferSize \in Nat
    BY LoggingAssumption
<1>2. ASSUME NEW i \in Int, NEW j
      PROVE  Waits(G, 0, 0, i, j) <=> Waits(H, m, 0, m + i, j)
    <2>1. CASE i \in 1 .. Len(G)
        <3>1. /\ m + i \in 1 .. Len(H) /\ m + i > m /\ i > 0 /\ G[i] = H[m + i]
              /\ j \in 1 .. BufferSize => j > 0
            BY <2>1, <1>1
        <3> QED
            BY <2>1, <3>1 DEF Waits
    <2>2. CASE i \notin 1 .. Len(G)
        <3>1. ~(m + i \in 1 .. Len(H) /\ m + i > m)
            BY <2>2, <1>1
        <3> QED
            BY <2>2, <3>1 DEF Waits
    <2> QED
        BY <2>1, <2>2
<1>3. ASSUME NEW i, NEW j, Waits(G, 0, 0, i, j)
      PROVE  i \in Int /\ Waits(H, m, 0, m + i, j) /\ G[i] = H[m + i]
    <2>1. i \in 1 .. Len(G)
        BY <1>3 DEF Waits
    <2> QED
        BY <2>1, <1>1, <1>2, <1>3
<1>4. ASSUME NEW i, NEW j, Waits(H, m, 0, i, j)
      PROVE  i - m \in Int /\ Waits(G, 0, 0, i - m, j) /\ G[i - m] = H[i]
    <2>1. i \in 1 .. Len(H) /\ i > m
        BY <1>4 DEF Waits
    <2>2. i - m \in 1 .. Len(G) /\ i - m \in Int /\ m + (i - m) = i
        BY <2>1, <1>1
    <2>3. Waits(G, 0, 0, i - m, j) <=> Waits(H, m, 0, m + (i - m), j)
        BY <2>2, <1>2
    <2>4. Waits(G, 0, 0, i - m, j)
        BY <2>2, <2>3, <1>4
    <2>5. G[i - m] = H[m + (i - m)]
        BY <2>2
    <2> QED
        BY <2>2, <2>4, <2>5
<1>5. ASSUME NEW i, NEW j, Waits(G, 0, 0, i, j)
      PROVE  G[i].data[j] \in 1 .. n /\ \A x \in S : x < G[i].data[j]
    <2>1. Waits(H, m, 0, m + i, j) /\ G[i] = H[m + i]
        BY <1>3, <1>5
    <2> QED
        BY <2>1 DEF InLine
<1>6. ASSUME NEW x \in 1 .. n
      PROVE  x \in S \/ \E i, j : Waits(G, 0, 0, i, j) /\ G[i].data[j] = x
    <2>1. x \in S \/ \E i, j : Waits(H, m, 0, i, j) /\ H[i].data[j] = x
        BY DEF InLine
    <2> QED
        BY <2>1, <1>4
<1>7. ASSUME NEW i, NEW j, NEW q, NEW l, Waits(G, 0, 0, i, j), Waits(G, 0, 0, q, l),
             Earlier(i, j, q, l)
      PROVE  G[i].data[j] < G[q].data[l]
    <2>1. /\ i \in Int /\ q \in Int /\ G[i] = H[m + i] /\ G[q] = H[m + q]
          /\ Waits(H, m, 0, m + i, j) /\ Waits(H, m, 0, m + q, l)
        BY <1>3, <1>7
    <2>2. Earlier(m + i, j, m + q, l)
        BY <2>1, <1>1, <1>7 DEF Earlier
    <2> QED
        BY <2>1, <2>2 DEF InLine
<1>8. ASSUME NEW i \in 1 .. Len(G), NEW j \in 1 .. BufferSize
      PROVE  G[i].data[j] <= 0 \/ G[i].data[j] \in S \/ Waits(G, 0, 0, i, j)
    <2>1. m + i \in 1 .. Len(H) /\ i \in Int /\ G[i] = H[m + i]
        BY <1>1
    <2>2. H[m + i].data[j] <= 0 \/ H[m + i].data[j] \in S \/ Waits(H, m, 0, m + i, j)
        BY <2>1 DEF InLine
    <2> QED
        BY <2>1, <2>2, <1>2
<1>9. InLine(G, 0, 0, S, n)
    <2>1. S \subseteq 1 .. n
        BY DEF InLine
    <2>2. \A x \in 1 .. n : x \in S \/ \E i, j : Waits(G, 0, 0, i, j) /\ G[i].data[j] = x
        BY <1>6
    <2>3. \A i, j : Waits(G, 0, 0, i, j) => G[i].data[j] \in 1 .. n /\ \A x \in S : x < G[i].data[j]
        BY <1>5
    <2>4. \A i, j, q, l : Waits(G, 0, 0, i, j) /\ Waits(G, 0, 0, q, l) /\ Earlier(i, j, q, l)
            => G[i].data[j] < G[q].data[l]
        BY <1>7
    <2>5. \A i \in 1 .. Len(G), j \in 1 .. BufferSize :
            G[i].data[j] <= 0 \/ G[i].data[j] \in S \/ Waits(G, 0, 0, i, j)
        BY <1>8
    <2> QED
        BY <2>1, <2>2, <2>3, <2>4, <2>5 DEF InLine
<1> QED
    BY <1>2, <1>9

-----------------------------------------------------------------------------
(* The inductive invariant of the lines, and its steps.                    *)

\* Whatever is in the buffer was written before.
Stale(b, S) == \A j \in 1 .. BufferSize : b.data[j] <= 0 \/ b.data[j] \in S

SparesEmpty ==
    \A b \in {next_buffer_, buffer1, buffer2} : b # nullptr => b.cur = 0 /\ Stale(b, output.stored)

\* How far the thread is with its buffers.
WriterAgrees ==
    /\ pos \in Nat /\ written \in Nat
    /\ pos <= Len(buffers_to_write) /\ written < BufferSize
    /\ pos = Len(buffers_to_write) => written = 0
    /\ at # "write" => buffers_to_write = <<>>
    /\ at \in {"none", "begin"} => output.stored = {}
    /\ at = "ended" => output.held = {}
    /\ owner = "constructed" => at = "none"

Flow == InLine(Held, pos, written, output.stored, lines) /\ output.in_order

\* Behind stop(), if it found the thread before an exchange: what the thread has
\* not taken yet in the exchange was logged after it, and once it has written what
\* it took, all that was logged before was handed to stdio.
AfterStop ==
    /\ at \in {"lock", "wait", "write", "test", "ended"}
    /\ at \in {"test", "ended"} => 1 .. at_stop.lines \subseteq output.stored
    /\ at = "write" => \A i, j :
        Waits(Held, pos, written, i, j) /\ i > Len(buffers_to_write)
            => Held[i].data[j] > at_stop.lines

StopAgrees ==
    /\ at_stop.lines \in Nat /\ at_stop.lines <= lines
    /\ owner \in {"joins", "stopped"} => ~running_
    /\ owner = "stopped" => at = "ended"
    /\ owner \in {"joins", "stopped"} /\ at_stop.at \in {"lock", "wait"} => AfterStop

LineInv == LogInv /\ SparesEmpty /\ WriterAgrees /\ Flow /\ StopAgrees

\* What Held is made of.
LEMMA HeldForm ==
    ASSUME NEW w \in Seq(Buffers), NEW f \in Seq(Buffers), NEW c \in Buffers
    PROVE  LET H == w \o Append(f, c)
           IN  /\ H \in Seq(Buffers) /\ Len(H) = Len(w) + Len(f) + 1
               /\ H[Len(w) + Len(f) + 1] = c
               /\ \A i \in 1 .. Len(w) : H[i] = w[i]
               /\ \A i \in 1 .. Len(f) : H[Len(w) + i] = f[i]
<1> DEFINE g == Append(f, c)
<1>1. /\ Len(w) \in Nat /\ Len(f) \in Nat /\ g \in Seq(Buffers) /\ Len(g) = Len(f) + 1
      /\ g[Len(f) + 1] = c /\ \A i \in 1 .. Len(f) : g[i] = f[i]
    OBVIOUS
<1> HIDE DEF g
<1> DEFINE H == w \o g
<1>2. /\ H \in Seq(Buffers) /\ Len(H) = Len(w) + Len(g)
      /\ \A i \in 1 .. Len(w) + Len(g) : H[i] = IF i <= Len(w) THEN w[i] ELSE g[i - Len(w)]
    BY <1>1, ConcatProperties
<1> HIDE DEF H
<1>3. Len(H) = Len(w) + Len(f) + 1
    BY <1>1, <1>2
<1>4. \A i \in 1 .. Len(w) : H[i] = w[i]
    BY <1>1, <1>2
<1>5. ASSUME NEW i \in 1 .. Len(f) + 1 PROVE H[Len(w) + i] = g[i]
    <2>1. Len(w) + i \in 1 .. Len(w) + Len(g) /\ ~(Len(w) + i <= Len(w)) /\ Len(w) + i - Len(w) = i
        BY <1>1
    <2> QED
        BY <2>1, <1>2
<1>6. H[Len(w) + Len(f) + 1] = c
    <2>1. Len(f) + 1 \in 1 .. Len(f) + 1 /\ Len(w) + (Len(f) + 1) = Len(w) + Len(f) + 1
        BY <1>1
    <2> QED
        BY <2>1, <1>1, <1>5
<1>7. \A i \in 1 .. Len(f) : H[Len(w) + i] = f[i]
    <2>1. ASSUME NEW i \in 1 .. Len(f) PROVE H[Len(w) + i] = f[i]
        <3>1. i \in 1 .. Len(f) + 1
            BY <1>1
        <3> QED
            BY <3>1, <1>1, <1>5
    <2> QED
        BY <2>1
<1> QED
    BY <1>2, <1>3, <1>4, <1>6, <1>7 DEF H, g

\* A full buffer more, and another current one: a buffer more at the end of Held.
LEMMA HeldGrows ==
    ASSUME NEW w \in Seq(Buffers), NEW f \in Seq(Buffers), NEW c \in Buffers, NEW d \in Buffers
    PROVE  /\ w \o Append(Append(f, c), d) = Append(w \o Append(f, c), d)
           /\ Append(f, c) \o Append(<<>>, d) = Append(<<>> \o Append(f, c), d)
<1> DEFINE g == Append(f, c)
           e == Append(<<>>, d)
<1>1. /\ g \in Seq(Buffers) /\ e \in Seq(Buffers) /\ e = <<d>> /\ <<>> \in Seq(Buffers)
    OBVIOUS
<1> HIDE DEF g, e
<1>2. <<>> \o g = g
    BY <1>1, ConcatEmptySeq
<1>3. ASSUME NEW s \in Seq(Buffers) PROVE Append(s, d) = s \o <<d>>
    BY AppendIsConcat
<1>4. w \o Append(g, d) = Append(w \o g, d)
    <2>1. w \o g \in Seq(Buffers) /\ <<d>> \in Seq(Buffers)
        BY <1>1, ConcatProperties
    <2>2. (w \o g) \o <<d>> = w \o (g \o <<d>>)
        BY <1>1, <2>1, ConcatAssociative
    <2> QED
        BY <1>1, <1>3, <2>1, <2>2
<1>5. g \o e = Append(<<>> \o g, d)
    BY <1>1, <1>2, <1>3
<1> QED
    BY <1>4, <1>5 DEF g, e

\* A step that leaves the lines where they are.
LEMMA FlowStays ==
    ASSUME SparesEmpty, Flow,
           UNCHANGED <<front, buffers_to_write, pos, written, lines>>,
           SameLines(output, output'),
           buffer1' = buffer1 /\ buffer2' = buffer2
    PROVE  /\ SparesEmpty' /\ Flow'
           /\ \A i, j : Waits(Held, pos, written, i, j)' <=> Waits(Held, pos, written, i, j)
           /\ Held' = Held
<1>1. Held' = Held
    BY DEF Held, front
<1>2. output.stored' = output.stored /\ output.in_order' = output.in_order
    BY DEF SameLines
<1>3. SparesEmpty'
    BY <1>2 DEF SparesEmpty, Stale, front
<1>4. Flow'
    BY <1>1, <1>2 DEF Flow
<1>5. \A i, j : Waits(Held, pos, written, i, j)' <=> Waits(Held, pos, written, i, j)
    BY <1>1 DEF Waits
<1> QED
    BY <1>1, <1>3, <1>4, <1>5

\* The buffers of the thread, the full ones and the current one.
Chain(w, f, c) == w \o Append(f, c)

\* What waits in G waited in H, or is the line n + 1.
AddsAtMost(H, G, p, wr, n) ==
    \A i, j : Waits(G, p, wr, i, j) =>
        \/ Waits(H, p, wr, i, j) /\ G[i].data[j] = H[i].data[j]
        \/ G[i].data[j] = n + 1

\* A line more in the current buffer.
LEMMA CurrentInLine ==
    ASSUME NEW w \in Seq(Buffers), NEW f \in Seq(Buffers), NEW c \in Buffers,
           NEW p \in Nat, NEW wr \in Nat, NEW S, NEW n \in Nat,
           p <= Len(w), p = Len(w) => wr = 0,
           InLine(Chain(w, f, c), p, wr, S, n), avail(c) > 1
    PROVE  /\ InLine(Chain(w, f, append(c, <<n + 1>>)), p, wr, S, n + 1)
           /\ AddsAtMost(Chain(w, f, c), Chain(w, f, append(c, <<n + 1>>)), p, wr, n)
<1> USE DEF Chain
<1> DEFINE H == w \o Append(f, c)
           d == append(c, <<n + 1>>)
           G == w \o Append(f, d)
           m == Len(w) + Len(f) + 1
<1>1. Len(w) \in Nat /\ Len(f) \in Nat /\ BufferSize \in Nat /\ n + 1 \in Nat
    BY LoggingAssumption
<1>2. /\ d \in Buffers /\ d.cur = c.cur + 1 /\ d.data[d.cur] = n + 1
      /\ \A i \in 1 .. BufferSize : i # d.cur => d.data[i] = c.data[i]
    BY <1>1, AppendEffect
<1> HIDE DEF d
<1>3. d.cur \in 1 .. BufferSize
    <2>1. c.cur \in 0 .. BufferSize /\ d.cur \in 0 .. BufferSize
        BY <1>2 DEF Buffers
    <2> QED
        BY <2>1, <1>1, <1>2
<1>4. /\ H \in Seq(Buffers) /\ Len(H) = m /\ H[m] = c
      /\ \A i \in 1 .. Len(w) : H[i] = w[i]
      /\ \A i \in 1 .. Len(f) : H[Len(w) + i] = f[i]
    BY HeldForm
<1>5. /\ G \in Seq(Buffers) /\ Len(G) = m /\ G[m] = d
      /\ \A i \in 1 .. Len(w) : G[i] = w[i]
      /\ \A i \in 1 .. Len(f) : G[Len(w) + i] = f[i]
    BY <1>2, HeldForm
<1>6. InLine(H, p, wr, S, n)
    OBVIOUS
<1> HIDE DEF H, G
<1>7. ASSUME NEW i \in 1 .. m, i # m PROVE G[i] = H[i]
    <2>1. CASE i \in 1 .. Len(w)
        BY <2>1, <1>4, <1>5
    <2>2. CASE i \notin 1 .. Len(w)
        <3>1. i - Len(w) \in 1 .. Len(f) /\ Len(w) + (i - Len(w)) = i
            BY <2>2, <1>7, <1>1
        <3> QED
            BY <3>1, <1>4, <1>5
    <2> QED
        BY <2>1, <2>2
<1>8. m \in Nat /\ p < m /\ (m = p + 1 => wr = 0)
    BY <1>1
<1> HIDE DEF m
<1> DEFINE k == d.cur
<1>9. /\ k \in 1 .. BufferSize /\ k = H[m].cur + 1 /\ k = G[m].cur /\ G[m].data[k] = n + 1
      /\ \A j \in 1 .. BufferSize : j # k => G[m].data[j] = H[m].data[j]
    BY <1>2, <1>3, <1>4, <1>5
<1> HIDE DEF k
<1>10. /\ InLine(G, p, wr, S, n + 1)
       /\ \A i, j : Waits(G, p, wr, i, j) <=> (Waits(H, p, wr, i, j) \/ (i = m /\ j = k))
       /\ \A i, j : Waits(H, p, wr, i, j) => G[i].data[j] = H[i].data[j]
    <2>1. OneMore(H, G, k, n) /\ Len(H) = m
        BY <1>4, <1>5, <1>7, <1>9 DEF OneMore
    <2>2. /\ InLine(G, p, wr, S, n + 1)
          /\ \A i, j : Waits(G, p, wr, i, j) <=> (Waits(H, p, wr, i, j) \/ (i = Len(H) /\ j = k))
          /\ \A i, j : Waits(H, p, wr, i, j) => G[i].data[j] = H[i].data[j]
        BY <2>1, <1>6, <1>8, LineInLine
    <2> QED
        BY <2>1, <2>2
<1>11. AddsAtMost(H, G, p, wr, n)
    BY <1>9, <1>10 DEF AddsAtMost
<1> QED
    BY <1>10, <1>11 DEF H, G, d

\* A buffer without lines in the place of the current one, which is full.
LEMMA FreshInLine ==
    ASSUME NEW w \in Seq(Buffers), NEW f \in Seq(Buffers), NEW c \in Buffers, NEW b \in Buffers,
           NEW p \in Nat, NEW wr \in Nat, NEW S, NEW n \in Nat,
           InLine(Chain(w, f, c), p, wr, S, n), b.cur = 0,
           \A j \in 1 .. BufferSize : b.data[j] <= 0 \/ b.data[j] \in S
    PROVE  /\ InLine(Chain(w, Append(f, c), b), p, wr, S, n)
           /\ AddsAtMost(Chain(w, f, c), Chain(w, Append(f, c), b), p, wr, n)
<1> USE DEF Chain
<1> DEFINE H == w \o Append(f, c)
           G == Append(H, b)
<1>1. w \o Append(Append(f, c), b) = G
    BY HeldGrows
<1>2. H \in Seq(Buffers) /\ InLine(H, p, wr, S, n)
    BY HeldForm
<1> HIDE DEF H
<1>3. InLine(G, p, wr, S, n) /\ \A i, j : Waits(G, p, wr, i, j) <=> Waits(H, p, wr, i, j)
    BY <1>2, EmptyBufferInLine
<1>4. \A i \in 1 .. Len(H) : G[i] = H[i]
    BY <1>2
<1> HIDE DEF G
<1>5. \A i, j : Waits(H, p, wr, i, j) => G[i] = H[i]
    BY <1>4 DEF Waits
<1>6. AddsAtMost(H, G, p, wr, n)
    BY <1>3, <1>5 DEF AddsAtMost
<1> QED
    BY <1>1, <1>3, <1>6 DEF H

\* Async_Logging::append.
LEMMA LogAppendFlow ==
    ASSUME LineInv, log_append
    PROVE  SparesEmpty' /\ WriterAgrees' /\ Flow' /\ StopAgrees'
<1> DEFINE w == buffers_to_write
           f == buffers_
           c == current_buffer_
           n == lines
           line == <<n + 1>>
           fresh == IF next_buffer_ # nullptr THEN next_buffer_ ELSE NewBuffer
<1>1. /\ LogType /\ SparesEmpty /\ WriterAgrees /\ Flow /\ StopAgrees
      /\ w \in Seq(Buffers) /\ f \in Seq(Buffers) /\ c \in Buffers /\ n \in Nat
      /\ pos \in Nat /\ written \in Nat /\ Len(w) \in Nat /\ Len(f) \in Nat
      /\ Held = Chain(w, f, c)
    BY DEF LineInv, LogInv, LogType, WriterAgrees, Held, Chain
<1>2. /\ lines' = n + 1
      /\ UNCHANGED <<buffers_to_write, buffer1, buffer2, pos, written, running_, owner, at_stop, at, output>>
    BY DEF log_append, local, thread
<1>4. SparesEmpty'
    <2>1. next_buffer_' = next_buffer_ \/ next_buffer_' = nullptr
        BY DEF log_append
    <2> QED
        BY <1>1, <1>2, <2>1 DEF SparesEmpty, Stale
<1>5. WriterAgrees'
    BY <1>1, <1>2 DEF WriterAgrees
<1>6. /\ Flow'
      /\ AddsAtMost(Held, Held', pos, written, n)
    <2>0. InLine(Chain(w, f, c), pos, written, output.stored, n)
        BY <1>1 DEF Flow
    <2>s. output.stored' = output.stored /\ output.in_order' /\ pos' = pos /\ written' = written
        BY <1>1, <1>2 DEF Flow
    <2>1. CASE avail(c) > 1
        <3> DEFINE G == Chain(w, f, append(c, line))
        <3>1. Held' = G
            BY <1>2, <2>1 DEF Held, Chain, log_append
        <3>2. /\ InLine(G, pos, written, output.stored, n + 1)
              /\ AddsAtMost(Held, G, pos, written, n)
            BY <1>1, <2>0, <2>1, CurrentInLine DEF WriterAgrees
        <3> HIDE DEF G
        <3> QED
            BY <1>2, <2>s, <3>1, <3>2 DEF Flow
    <2>2. CASE ~(avail(c) > 1)
        <3> DEFINE g == Append(f, c)
                   E == Chain(w, g, fresh)
                   G == Chain(w, g, append(fresh, line))
        <3>1. Held' = G
            BY <1>2, <2>2 DEF Held, Chain, log_append
        <3>2. /\ fresh \in Buffers /\ fresh.cur = 0
              /\ \A j \in 1 .. BufferSize : fresh.data[j] <= 0 \/ fresh.data[j] \in output.stored
            <4>1. CASE next_buffer_ # nullptr
                BY <4>1, <1>1 DEF LogType, SparesEmpty, Stale
            <4>2. CASE next_buffer_ = nullptr
                BY <4>2, NewBufferType
            <4> QED
                BY <4>1, <4>2
        <3> HIDE DEF fresh
        <3>3. avail(fresh) > 1
            BY <3>2, AvailOf, LoggingAssumption
        <3>4. g \in Seq(Buffers)
            BY <1>1
        <3>5. /\ InLine(E, pos, written, output.stored, n)
              /\ AddsAtMost(Held, E, pos, written, n)
            BY <1>1, <2>0, <3>2, FreshInLine
        <3> HIDE DEF g
        <3>6. /\ InLine(G, pos, written, output.stored, n + 1)
              /\ AddsAtMost(E, G, pos, written, n)
            BY <1>1, <3>2, <3>3, <3>4, <3>5, CurrentInLine DEF WriterAgrees
        <3> HIDE DEF E, G
        <3> QED
            BY <1>2, <2>s, <3>1, <3>5, <3>6 DEF Flow, AddsAtMost
    <2> QED
        BY <2>1, <2>2
<1>7. StopAgrees'
    <2>1. at_stop.lines \in Nat /\ at_stop.lines <= n /\ at_stop.lines < n + 1
        BY <1>1 DEF StopAgrees
    <2>2. AfterStop => AfterStop'
        <3>1. SUFFICES ASSUME AfterStop, at = "write", NEW i, NEW j,
                              Waits(Held', pos, written, i, j), i > Len(w)
                       PROVE  Held'[i].data[j] > at_stop.lines
            BY <1>2 DEF AfterStop
        <3>2. CASE Waits(Held, pos, written, i, j) /\ Held'[i].data[j] = Held[i].data[j]
            BY <3>1, <3>2 DEF AfterStop
        <3>3. CASE Held'[i].data[j] = n + 1
            BY <3>3, <2>1, <1>1
        <3> QED
            BY <3>1, <3>2, <3>3, <1>6 DEF AddsAtMost
    <2> QED
        BY <1>1, <1>2, <2>1, <2>2 DEF StopAgrees
<1> QED
    BY <1>4, <1>5, <1>6, <1>7

\* The exchange: the buffers are the same, and an empty one more.
LEMMA ExchangeFlow ==
    ASSUME LineInv, exchange, at \in {"lock", "wait"}, at' = "write",
           UNCHANGED <<pos, written, running_, owner, at_stop, output, lines>>
    PROVE  SparesEmpty' /\ WriterAgrees' /\ Flow' /\ StopAgrees'
<1> DEFINE f == buffers_
           c == current_buffer_
           b == buffer1
<1>1. /\ LogType /\ SparesEmpty /\ WriterAgrees /\ Flow /\ StopAgrees
      /\ f \in Seq(Buffers) /\ c \in Buffers /\ lines \in Nat
      /\ buffers_to_write = <<>> /\ b \in Buffers /\ b # nullptr
      /\ pos \in Nat /\ written \in Nat
    BY DEF LineInv, LogInv, LogType, WriterAgrees, SparesAgree
<1>2. pos = 0 /\ written = 0
    BY <1>1 DEF WriterAgrees
<1>3. /\ buffers_to_write' = Append(f, c) /\ buffers_' = <<>> /\ current_buffer_' = b
      /\ buffer1' = nullptr
      /\ buffer2' \in {nullptr, buffer2} /\ next_buffer_' \in {next_buffer_, buffer2}
    BY DEF exchange
<1> DEFINE H == <<>> \o Append(f, c)
           G == Append(H, b)
<1>4. Held = H /\ Held' = G
    BY <1>1, <1>3, HeldGrows DEF Held
<1>5. H \in Seq(Buffers) /\ Len(H) = Len(f) + 1 /\ Len(f) \in Nat
    <2>1. <<>> \in Seq(Buffers) /\ Len(<<>>) = 0 /\ Len(f) \in Nat
        BY <1>1
    <2> QED
        BY <1>1, <2>1, HeldForm
<1>6. Len(buffers_to_write') = Len(f) + 1
    BY <1>1, <1>3
<1> HIDE DEF H
<1>7. b.cur = 0 /\ \A j \in 1 .. BufferSize : b.data[j] <= 0 \/ b.data[j] \in output.stored
    BY <1>1 DEF SparesEmpty, Stale
<1>8. InLine(H, pos, written, output.stored, lines)
    BY <1>1, <1>4 DEF Flow
<1>9. /\ InLine(G, pos, written, output.stored, lines)
      /\ \A i, j : Waits(G, pos, written, i, j) <=> Waits(H, pos, written, i, j)
    BY <1>1, <1>5, <1>7, <1>8, EmptyBufferInLine
<1> HIDE DEF G
<1>10. Flow'
    BY <1>1, <1>4, <1>9 DEF Flow
<1>11. SparesEmpty'
    BY <1>1, <1>3 DEF SparesEmpty, Stale
<1>12. WriterAgrees'
    <2>1. owner # "constructed"
        BY <1>1 DEF WriterAgrees
    <2> QED
        BY <1>1, <1>2, <1>5, <1>6, <2>1 DEF WriterAgrees
<1>13. AfterStop => AfterStop'
    <2>1. ASSUME NEW i, NEW j, Waits(G, pos, written, i, j) PROVE ~(i > Len(buffers_to_write'))
        <3>1. Waits(H, pos, written, i, j)
            BY <1>9, <2>1
        <3> QED
            BY <3>1, <1>5, <1>6 DEF Waits
    <2> QED
        BY <2>1, <1>4 DEF AfterStop
<1>14. StopAgrees'
    BY <1>1, <1>13 DEF StopAgrees
<1> QED
    BY <1>10, <1>11, <1>12, <1>14

\* output.append: the files get what is written.
LEMMA WriteFlow ==
    ASSUME LineInv, write_buffer
    PROVE  SparesEmpty' /\ WriterAgrees' /\ Flow' /\ StopAgrees'
<1> DEFINE w == buffers_to_write
           b == w[pos + 1]
           units == to_write(b)
           rest == SubSeq(units, written + 1, Len(units))
<1>1. /\ LogType /\ SparesEmpty /\ WriterAgrees /\ Flow /\ StopAgrees /\ FileAgrees(output)
      /\ w \in Seq(Buffers) /\ buffers_ \in Seq(Buffers) /\ current_buffer_ \in Buffers
      /\ lines \in Nat /\ now \in Nat /\ Len(w) \in Nat
      /\ pos \in Nat /\ written \in Nat /\ written < BufferSize /\ BufferSize \in Nat
    BY LoggingAssumption DEF LineInv, LogInv, LogType, WriterAgrees
<1>2. /\ at = "write" /\ pos < Len(w)
      /\ UNCHANGED <<front, buffer1, buffer2, buffers_to_write, running_, owner, at_stop, at, lines>>
    BY DEF write_buffer, thread
<1>3. PICK k \in 0 .. Len(rest) :
        LET f == write(output, SubSeq(rest, 1, k), disk_full)
            done == k = Len(rest)
        IN  /\ output' = IF done THEN append_in_lock(f, Len(units), now, disk_full) ELSE f
            /\ written' = IF done THEN 0 ELSE written + k
            /\ pos' = IF done THEN pos + 1 ELSE pos
    BY DEF write_buffer
<1> DEFINE u == SubSeq(rest, 1, k)
           f == write(output, u, disk_full)
<1>4. b \in Buffers /\ b.data \in Seq(Int) /\ Len(b.data) = BufferSize
    <2>1. b \in Buffers
        BY <1>1, <1>2
    <2> QED
        BY <2>1, AvailOf
<1> HIDE DEF b
<1>5. /\ units \in Seq(Int) /\ Len(units) = BufferSize
      /\ \A i \in 1 .. BufferSize : units[i] = b.data[i]
    <2>1. units = SubSeq(b.data, 1, BufferSize)
        BY <1>4 DEF to_write, length
    <2> QED
        BY <1>1, <1>4, <2>1, SubSeqProperties
<1> HIDE DEF units
<1>6. /\ rest \in Seq(Int) /\ Len(rest) = BufferSize - written
      /\ \A i \in 1 .. BufferSize - written : rest[i] = b.data[written + i]
    <2>1. /\ rest \in Seq(Int) /\ Len(rest) = BufferSize - (written + 1) + 1
          /\ \A i \in 1 .. BufferSize - (written + 1) + 1 : rest[i] = units[(written + 1) + i - 1]
        BY <1>1, <1>5, SubSeqProperties
    <2> HIDE DEF rest
    <2>2. ASSUME NEW i \in 1 .. BufferSize - written PROVE rest[i] = b.data[written + i]
        <3>1. /\ i \in 1 .. BufferSize - (written + 1) + 1 /\ (written + 1) + i - 1 = written + i
              /\ written + i \in 1 .. BufferSize
            BY <1>1
        <3> QED
            BY <3>1, <2>1, <1>5
    <2> QED
        BY <2>1, <2>2, <1>1
<1> HIDE DEF rest
<1>7. u \in Seq(Int) /\ Len(u) = k /\ \A i \in 1 .. k : u[i] = b.data[written + i]
    <2>1. k \in Nat /\ \A i \in 1 .. k : i \in 1 .. BufferSize - written
        BY <1>1, <1>6
    <2>2. /\ u \in Seq(Int) /\ Len(u) = k /\ \A i \in 1 .. k - 1 + 1 : u[i] = rest[1 + i - 1]
        BY <1>6, <2>1, SubSeqProperties
    <2> HIDE DEF u
    <2>3. ASSUME NEW i \in 1 .. k PROVE u[i] = b.data[written + i]
        <3>1. i \in 1 .. k - 1 + 1 /\ 1 + i - 1 = i
            BY <2>1
        <3> QED
            BY <3>1, <2>1, <2>2, <1>6
    <2> QED
        BY <2>2, <2>3
<1> HIDE DEF u
<1>8. Held' = Held /\ Held[pos + 1] = b /\ pos < Len(Held) /\ Held \in Seq(Buffers)
    <2>1. Held' = Held
        BY <1>2 DEF Held, front
    <2>2. /\ Held \in Seq(Buffers) /\ Len(Held) = Len(w) + Len(buffers_) + 1
          /\ \A i \in 1 .. Len(w) : Held[i] = w[i]
        BY <1>1, HeldForm DEF Held
    <2> QED
        BY <2>1, <2>2, <1>1, <1>2, SMTT(30) DEF b
<1>9. Writes(Held, pos, written, k, u, pos', written')
    BY <1>1, <1>3, <1>6, <1>7, <1>8 DEF Writes
<1>10. /\ FileAgrees(f) /\ f.stored = output.stored \cup LinesOf(u)
       /\ f.in_order <=> output.in_order /\ Preceded(output.stored, u)
    BY <1>1, WriteAgrees
<1> HIDE DEF f
<1>11. SameLines(f, output')
    <2>1. SameLines(f, append_in_lock(f, Len(units), now, disk_full))
        BY <1>1, <1>5, <1>10, AppendAgrees
    <2>2. output' = append_in_lock(f, Len(units), now, disk_full) \/ output' = f
        BY <1>3 DEF f, u
    <2> QED
        BY <2>1, <2>2 DEF SameLines
<1>12. /\ InLine(Held, pos', written', output.stored \cup LinesOf(u), lines)
       /\ Preceded(output.stored, u)
       /\ \A i, j : Waits(Held, pos', written', i, j) => Waits(Held, pos, written, i, j)
    <2>1. InLine(Held, pos, written, output.stored, lines)
        BY <1>1 DEF Flow
    <2> QED
        BY <2>1, <1>1, <1>8, <1>9, WrittenInLine
<1>13. output.stored' = output.stored \cup LinesOf(u) /\ output.in_order'
    BY <1>1, <1>10, <1>11, <1>12 DEF SameLines, Flow
<1>14. Flow'
    BY <1>2, <1>8, <1>12, <1>13 DEF Flow
<1>15. SparesEmpty'
    BY <1>1, <1>2, <1>13 DEF SparesEmpty, Stale, front
<1>16. WriterAgrees'
    <2>1. pos' \in Nat /\ written' \in Nat /\ pos' <= Len(w) /\ written' < BufferSize
          /\ (pos' = Len(w) => written' = 0)
        BY <1>1, <1>2, <1>9 DEF Writes
    <2> QED
        BY <1>1, <1>2, <2>1 DEF WriterAgrees
<1>17. AfterStop => AfterStop'
    BY <1>2, <1>8, <1>12 DEF AfterStop
<1>18. StopAgrees'
    BY <1>1, <1>2, <1>17 DEF StopAgrees
<1> QED
    BY <1>14, <1>15, <1>16, <1>18

\* The end of an iteration: the buffers that were written go.
LEMMA RecycleFlow ==
    ASSUME LineInv, recycle
    PROVE  SparesEmpty' /\ WriterAgrees' /\ Flow' /\ StopAgrees'
<1> DEFINE w == buffers_to_write
           G == <<>> \o Append(buffers_, current_buffer_)
<1>1. /\ LogType /\ SparesAgree /\ SparesEmpty /\ WriterAgrees /\ Flow /\ StopAgrees
      /\ FileAgrees(output)
      /\ w \in Seq(Buffers) /\ buffers_ \in Seq(Buffers) /\ current_buffer_ \in Buffers
      /\ lines \in Nat /\ Len(w) \in Nat /\ Len(buffers_) \in Nat
      /\ pos \in Nat /\ written \in Nat
    BY DEF LineInv, LogInv, LogType, WriterAgrees
<1>2. /\ at = "write" /\ pos = Len(w) /\ at' = "test" /\ w' = <<>> /\ pos' = 0
      /\ output' = flush(output, disk_full)
      /\ UNCHANGED <<front, written, running_, owner, at_stop, lines>>
    BY DEF recycle, thread
<1>3. written = 0 /\ owner # "constructed"
    BY <1>1, <1>2 DEF WriterAgrees
<1>4. output.stored' = output.stored /\ output.in_order' = output.in_order
    BY <1>1, <1>2, FlushAgrees DEF SameLines
<1>5. /\ Held \in Seq(Buffers) /\ Len(Held) = Len(w) + Len(buffers_) + 1
      /\ Held[Len(w) + Len(buffers_) + 1] = current_buffer_
      /\ \A i \in 1 .. Len(w) : Held[i] = w[i]
      /\ \A i \in 1 .. Len(buffers_) : Held[Len(w) + i] = buffers_[i]
    BY <1>1, HeldForm DEF Held
<1>6. /\ G \in Seq(Buffers) /\ Len(G) = Len(buffers_) + 1
      /\ \A i \in 1 .. Len(G) : G[i] = Held[Len(w) + i]
    <2> DEFINE e == <<>>
    <2>1. e \in Seq(Buffers) /\ Len(e) = 0 /\ G = e \o Append(buffers_, current_buffer_)
        OBVIOUS
    <2> HIDE DEF e, G
    <2>2. /\ G \in Seq(Buffers) /\ Len(G) = Len(e) + Len(buffers_) + 1
          /\ G[Len(e) + Len(buffers_) + 1] = current_buffer_
          /\ \A i \in 1 .. Len(buffers_) : G[Len(e) + i] = buffers_[i]
        BY <1>1, <2>1, HeldForm
    <2>3. /\ Len(G) = Len(buffers_) + 1 /\ G[Len(buffers_) + 1] = current_buffer_
          /\ \A i \in 1 .. Len(buffers_) : G[i] = buffers_[i]
        <3>1. \A i \in 1 .. Len(buffers_) : Len(e) + i = i
            BY <1>1, <2>1
        <3>2. Len(e) + Len(buffers_) + 1 = Len(buffers_) + 1
            BY <1>1, <2>1
        <3> QED
            BY <2>2, <3>1, <3>2
    <2>4. ASSUME NEW i \in 1 .. Len(G) PROVE G[i] = Held[Len(w) + i]
        <3>1. CASE i \in 1 .. Len(buffers_)
            BY <3>1, <2>3, <1>5
        <3>2. CASE i = Len(buffers_) + 1
            <4>1. Len(w) + i = Len(w) + Len(buffers_) + 1
                BY <3>2, <1>1
            <4> QED
                BY <3>2, <4>1, <2>3, <1>5
        <3> QED
            BY <3>1, <3>2, <2>3, <1>1
    <2> QED
        BY <2>2, <2>3, <2>4
<1>7. Held' = G
    BY <1>2 DEF Held, front
<1> HIDE DEF G
<1>8. InLine(Held, Len(w), 0, output.stored, lines)
    BY <1>1, <1>2, <1>3 DEF Flow
<1>9. InLine(G, 0, 0, output.stored, lines)
    <2>1. Len(w) \in 0 .. Len(Held) /\ Len(G) = Len(Held) - Len(w)
        BY <1>1, <1>5, <1>6
    <2> QED
        BY <2>1, <1>1, <1>5, <1>6, <1>8, RestInLine
<1>10. Flow'
    BY <1>1, <1>2, <1>3, <1>4, <1>7, <1>9 DEF Flow
<1>11. ASSUME NEW i \in 1 .. Len(w)
       PROVE  reset(w[i]).cur = 0 /\ Stale(reset(w[i]), output.stored)
    <2>1. w[i] \in Buffers /\ i \in 1 .. Len(Held) /\ Held[i] = w[i] /\ ~(i > Len(w))
        BY <1>1, <1>5
    <2>2. reset(w[i]).cur = 0 /\ reset(w[i]).data = w[i].data
        BY <2>1, NewBufferType
    <2>3. ASSUME NEW j \in 1 .. BufferSize
          PROVE  w[i].data[j] <= 0 \/ w[i].data[j] \in output.stored
        <3>1. ~Waits(Held, Len(w), 0, i, j)
            BY <2>1 DEF Waits
        <3> QED
            BY <3>1, <2>1, <1>8 DEF InLine
    <2> QED
        BY <2>2, <2>3 DEF Stale
<1>12. SparesEmpty'
    <2>1. PICK i \in 1 .. Len(w) : buffer1' = reset(w[i])
        BY <1>1, RecycleAgrees
    <2>2. buffer1'.cur = 0 /\ Stale(buffer1', output.stored)
        BY <2>1, <1>11
    <2>3. buffer2' = buffer2 \/ (buffer2'.cur = 0 /\ Stale(buffer2', output.stored))
        <3>1. buffer2' = buffer2 \/ \E k \in 1 .. Len(w) : buffer2' = reset(w[k])
            BY <1>1, RecycleAgrees
        <3> QED
            BY <3>1, <1>11
    <2>4. next_buffer_' = next_buffer_
        BY <1>2 DEF front
    <2> QED
        BY <2>2, <2>3, <2>4, <1>1, <1>4 DEF SparesEmpty
<1>13. WriterAgrees'
    <2>1. Len(w') = 0 /\ written' = 0 /\ written' < BufferSize
        BY <1>1, <1>2, <1>3 DEF WriterAgrees
    <2> QED
        BY <1>2, <1>3, <2>1 DEF WriterAgrees
<1>14. AfterStop => AfterStop'
    <2>1. SUFFICES ASSUME AfterStop, NEW x \in 1 .. at_stop.lines PROVE x \in output.stored
        BY <1>2, <1>4 DEF AfterStop
    <2>2. x \in 1 .. lines /\ at_stop.lines \in Nat
        BY <1>1 DEF StopAgrees
    <2>3. x \in output.stored \/ \E i, j : Waits(Held, Len(w), 0, i, j) /\ Held[i].data[j] = x
        BY <2>2, <1>8 DEF InLine
    <2>4. ASSUME NEW i, NEW j, Waits(Held, Len(w), 0, i, j) PROVE Held[i].data[j] > at_stop.lines
        BY <2>1, <2>4, <1>2, <1>3 DEF AfterStop, Waits
    <2>5. ~(x > at_stop.lines)
        BY <2>2
    <2> QED
        BY <2>3, <2>4, <2>5
<1>15. StopAgrees'
    BY <1>1, <1>2, <1>14 DEF StopAgrees
<1> QED
    BY <1>10, <1>12, <1>13, <1>15

LEMMA LineInit == Init => LineInv
<1>1. SUFFICES ASSUME Init PROVE LineInv
    OBVIOUS
<1>2. LogInv
    BY <1>1, LogInit
<1> DEFINE c == bzero(NewBuffer)
           e == <<>>
           H == e \o Append(e, c)
<1>3. output.stored = {} /\ output.in_order
    BY <1>1, NewFileAgrees DEF Init, NoFile
<1>4. c \in Buffers /\ c.cur = 0 /\ \A i \in 1 .. BufferSize : c.data[i] <= 0
    BY NewBufferType
<1>5. e \in Seq(Buffers) /\ Len(e) = 0
    OBVIOUS
<1> HIDE DEF c
<1>6. SparesEmpty
    BY <1>1, <1>4 DEF Init, SparesEmpty, Stale, c
<1>7. WriterAgrees
    BY <1>1, <1>3, LoggingAssumption DEF Init, WriterAgrees
<1>8. Held = H
    BY <1>1 DEF Init, Held, c
<1> HIDE DEF e
<1>9. H \in Seq(Buffers) /\ Len(H) = 1 /\ H[1] = c
    <2>1. H \in Seq(Buffers) /\ Len(H) = Len(e) + Len(e) + 1 /\ H[Len(e) + Len(e) + 1] = c
        BY <1>4, <1>5, HeldForm
    <2> HIDE DEF H
    <2>2. Len(e) + Len(e) + 1 = 1
        BY <1>5
    <2> QED
        BY <2>1, <2>2
<1> HIDE DEF H
<1>10. InLine(H, 0, 0, {}, 0)
    <2>1. \A i, j : ~Waits(H, 0, 0, i, j)
        BY <1>4, <1>9 DEF Waits
    <2>2. \A i \in 1 .. Len(H), j \in 1 .. BufferSize : H[i].data[j] <= 0
        BY <1>4, <1>9
    <2> QED
        BY <2>1, <2>2 DEF InLine
<1>11. Flow
    BY <1>1, <1>3, <1>8, <1>10 DEF Init, Flow
<1>12. StopAgrees
    BY <1>1 DEF Init, StopAgrees
<1> QED
    BY <1>2, <1>6, <1>7, <1>11, <1>12 DEF LineInv

\* The thread starts, opens its file and takes two buffers.
LEMMA BeginFlow ==
    ASSUME LineInv, thread_begin
    PROVE  SparesEmpty' /\ WriterAgrees' /\ Flow' /\ StopAgrees'
<1>1. /\ SparesEmpty /\ WriterAgrees /\ Flow /\ StopAgrees /\ now \in Nat
    BY DEF LineInv, LogInv, LogType
<1>2. /\ at = "begin" /\ at' = "test" /\ output' = Log_File(now)
      /\ buffer1' = bzero(NewBuffer) /\ buffer2' = bzero(NewBuffer)
      /\ UNCHANGED <<front, buffers_to_write, pos, written, running_, owner, at_stop, lines>>
    BY DEF thread_begin, thread
<1>3. output.stored' = output.stored /\ output.in_order' /\ output.stored = {}
    BY <1>1, <1>2, NewFileAgrees DEF WriterAgrees
<1>4. Held' = Held
    BY <1>2 DEF Held, front
<1>5. Flow'
    BY <1>1, <1>2, <1>3, <1>4 DEF Flow
<1>6. SparesEmpty'
    <2>1. bzero(NewBuffer).cur = 0 /\ Stale(bzero(NewBuffer), output.stored)
        BY NewBufferType DEF Stale
    <2> QED
        BY <1>1, <1>2, <1>3, <2>1 DEF SparesEmpty, front
<1>7. WriterAgrees'
    BY <1>1, <1>2 DEF WriterAgrees
<1>8. ~AfterStop
    BY <1>2 DEF AfterStop
<1>9. StopAgrees'
    BY <1>1, <1>2, <1>8 DEF StopAgrees
<1> QED
    BY <1>5, <1>6, <1>7, <1>9

LEMMA LineStep == LineInv /\ [Next]_vars => LineInv'
<1>0. SUFFICES ASSUME LineInv, [Next]_vars PROVE LineInv'
    OBVIOUS
<1>l. LogInv'
    BY <1>0, LogStep DEF LineInv
<1>1. SUFFICES ASSUME LineInv, [Next]_vars PROVE SparesEmpty' /\ WriterAgrees' /\ Flow' /\ StopAgrees'
    BY <1>0, <1>l DEF LineInv
<1>2. SparesEmpty /\ WriterAgrees /\ Flow /\ StopAgrees /\ FileAgrees(output) /\ SparesAgree
    BY <1>1 DEF LineInv, LogInv
<1> DEFINE quiet == <<front, buffers_to_write, pos, written, lines>>
<1>3. CASE log_append
    BY <1>1, <1>3, LogAppendFlow
<1>4. CASE start
    <2>1. /\ UNCHANGED <<quiet, buffer1, buffer2, output, at_stop>> /\ owner = "constructed"
          /\ owner' = "started" /\ at' \in {at, "begin"}
        BY <1>4 DEF start, local
    <2>2. SparesEmpty' /\ Flow'
        BY <1>2, <2>1, FlowStays DEF SameLines
    <2>3. WriterAgrees'
        BY <1>2, <2>1 DEF WriterAgrees
    <2>4. StopAgrees'
        BY <1>2, <2>1 DEF StopAgrees
    <2> QED
        BY <2>2, <2>3, <2>4
<1>5. CASE stop
    <2>1. /\ UNCHANGED <<quiet, buffer1, buffer2, output, at>> /\ owner = "started"
          /\ owner' = "joins" /\ ~running_' /\ at_stop' = [at |-> at, lines |-> lines]
        BY <1>5 DEF stop, local
    <2>2. SparesEmpty' /\ Flow'
        BY <1>2, <2>1, FlowStays DEF SameLines
    <2>3. WriterAgrees'
        BY <1>2, <2>1 DEF WriterAgrees
    <2>4. at_stop'.at = at /\ at_stop'.lines = lines /\ lines \in Nat
        BY <1>1, <2>1 DEF LineInv, LogInv, LogType
    <2>5. at \in {"lock", "wait"} => AfterStop'
        BY <2>1 DEF AfterStop
    <2>6. StopAgrees'
        BY <2>1, <2>4, <2>5 DEF StopAgrees
    <2> QED
        BY <2>2, <2>3, <2>6
<1>6. CASE join
    <2>1. /\ UNCHANGED <<quiet, buffer1, buffer2, output, at, running_, at_stop>> /\ owner = "joins"
          /\ owner' \in {"assert(started_)", "stopped"} /\ (owner' = "stopped" => at = "ended")
        BY <1>6 DEF join, local
    <2>2. /\ SparesEmpty' /\ Flow' /\ Held' = Held
          /\ \A i, j : Waits(Held, pos, written, i, j)' <=> Waits(Held, pos, written, i, j)
        BY <1>2, <2>1, FlowStays DEF SameLines
    <2>3. WriterAgrees'
        BY <1>2, <2>1 DEF WriterAgrees
    <2>4. AfterStop => AfterStop'
        BY <2>1, <2>2 DEF AfterStop
    <2>5. StopAgrees'
        BY <1>2, <2>1, <2>4 DEF StopAgrees
    <2> QED
        BY <2>2, <2>3, <2>5
<1>7. CASE thread_begin
    BY <1>1, <1>7, BeginFlow
<1>8. CASE loop_test
    <2>1. /\ UNCHANGED <<quiet, buffer1, buffer2, running_, owner, at_stop>> /\ at = "test"
          /\ \/ running_ /\ at' = "lock" /\ output' = output
             \/ ~running_ /\ at' = "ended" /\ output' = flush(output, disk_full)
        BY <1>8 DEF loop_test, local, thread
    <2>2. SameLines(output, output')
        BY <1>2, <2>1, FlushAgrees DEF SameLines
    <2>3. /\ SparesEmpty' /\ Flow' /\ Held' = Held
        BY <1>2, <2>1, <2>2, FlowStays
    <2>4. WriterAgrees'
        <3>1. at' = "ended" => output.held' = {}
            BY <1>2, <2>1, FlushAgrees
        <3> QED
            BY <1>2, <2>1, <3>1 DEF WriterAgrees
    <2>5. AfterStop /\ at' = "ended" => AfterStop'
        BY <2>1, <2>2 DEF AfterStop, SameLines
    <2>6. StopAgrees'
        BY <1>2, <2>1, <2>5 DEF StopAgrees
    <2> QED
        BY <2>3, <2>4, <2>6
<1>9. CASE lock
    <2>1. CASE buffers_ = <<>> /\ at' = "wait" /\ UNCHANGED <<front, local>>
        <3>1. /\ UNCHANGED <<quiet, buffer1, buffer2, running_, owner, at_stop, output>>
              /\ at = "lock" /\ at' = "wait"
            BY <1>9, <2>1 DEF lock, local, thread
        <3>2. SparesEmpty' /\ Flow'
            BY <1>2, <3>1, FlowStays DEF SameLines
        <3>3. WriterAgrees' /\ (AfterStop => AfterStop')
            BY <1>2, <3>1 DEF WriterAgrees, AfterStop
        <3>4. StopAgrees'
            BY <1>2, <3>1, <3>3 DEF StopAgrees
        <3> QED
            BY <3>2, <3>3, <3>4
    <2>2. CASE exchange /\ at' = "write" /\ UNCHANGED <<pos, written>>
        <3>1. at = "lock" /\ UNCHANGED <<running_, owner, at_stop, output, lines>>
            BY <1>9 DEF lock, thread
        <3> QED
            BY <1>1, <2>2, <3>1, ExchangeFlow
    <2> QED
        BY <1>9, <2>1, <2>2 DEF lock
<1>10. CASE wakeup
    <2>1. /\ at = "wait" /\ exchange /\ at' = "write"
          /\ UNCHANGED <<pos, written, running_, owner, at_stop, output, lines>>
        BY <1>10 DEF wakeup, thread
    <2> QED
        BY <1>1, <2>1, ExchangeFlow
<1>11. CASE write_buffer
    BY <1>1, <1>11, WriteFlow
<1>12. CASE recycle
    BY <1>1, <1>12, RecycleFlow
<1>13. CASE tick \/ clock_set_back \/ disk_fills \/ disk_freed \/ UNCHANGED vars
    <2>1. UNCHANGED <<quiet, buffer1, buffer2, running_, owner, at_stop, at, output>>
        BY <1>13 DEF tick, clock_set_back, disk_fills, disk_freed, vars, local, thread
    <2>2. /\ SparesEmpty' /\ Flow' /\ Held' = Held
          /\ \A i, j : Waits(Held, pos, written, i, j)' <=> Waits(Held, pos, written, i, j)
        BY <1>2, <2>1, FlowStays DEF SameLines
    <2>3. WriterAgrees' /\ (AfterStop => AfterStop')
        BY <1>2, <2>1, <2>2 DEF WriterAgrees, AfterStop
    <2>4. StopAgrees'
        BY <1>2, <2>1, <2>3 DEF StopAgrees
    <2> QED
        BY <2>2, <2>3, <2>4
<1> QED
    BY <1>1, <1>3, <1>4, <1>5, <1>6, <1>7, <1>8, <1>9, <1>10, <1>11, <1>12, <1>13
       DEF Next, ThreadStep

\* The inductive invariant of the lines.
THEOREM LineInvariant == Spec => []LineInv
<1> QED
    BY LineInit, LineStep, PTL DEF Spec

\* append, thread_func: whatever the size of the buffers and however appends, the
\* exchange, partial writes and the reuse of buffers interleave, every line was
\* handed to fwrite or waits in one place, in the order of the calls.
THEOREM NoLineIsLost == Spec => []NoLineLost
<1>1. LineInv => NoLineLost
    <2>1. SUFFICES ASSUME LineInv PROVE NoLineLost
        OBVIOUS
    <2>2. InLine(Held, pos, written, output.stored, lines) /\ output.in_order
        BY <2>1 DEF LineInv, Flow
    <2>3. Held \in Seq(Buffers) /\ DOMAIN Held = 1 .. Len(Held)
        <3>1. /\ buffers_to_write \in Seq(Buffers) /\ buffers_ \in Seq(Buffers)
              /\ current_buffer_ \in Buffers
            BY <2>1 DEF LineInv, LogInv, LogType
        <3>2. Held \in Seq(Buffers)
            BY <3>1, HeldForm DEF Held
        <3> QED
            BY <3>2
    <2>4. ASSUME NEW i, NEW j
          PROVE  Waits(Held, pos, written, i, j) => <<i, j>> \in Waiting
        BY <2>3 DEF Waits, Waiting
    <2>5. ASSUME NEW w \in Waiting
          PROVE  Waits(Held, pos, written, w[1], w[2]) /\ Line(w) = Held[w[1]].data[w[2]]
        BY <2>3 DEF Waits, Waiting, Line
    <2>6. output.stored \cup {Line(w) : w \in Waiting} = 1 .. lines
        <3>1. ASSUME NEW x \in 1 .. lines PROVE x \in output.stored \cup {Line(w) : w \in Waiting}
            <4>1. x \in output.stored
                    \/ \E i, j : Waits(Held, pos, written, i, j) /\ Held[i].data[j] = x
                BY <2>2 DEF InLine
            <4>2. ASSUME NEW i, NEW j, Waits(Held, pos, written, i, j), Held[i].data[j] = x
                  PROVE  \E w \in Waiting : Line(w) = x
                <5>1. <<i, j>> \in Waiting /\ Line(<<i, j>>) = x
                    BY <2>4, <4>2 DEF Line
                <5> QED
                    BY <5>1
            <4> QED
                BY <4>1, <4>2
        <3>2. ASSUME NEW w \in Waiting PROVE Line(w) \in 1 .. lines
            BY <2>2, <2>5 DEF InLine
        <3>3. output.stored \subseteq 1 .. lines
            BY <2>2 DEF InLine
        <3> QED
            BY <3>1, <3>2, <3>3
    <2>7. ASSUME NEW v \in Waiting, NEW w \in Waiting, Before(v, w) PROVE Line(v) < Line(w)
        <3>1. Earlier(v[1], v[2], w[1], w[2])
            BY <2>7 DEF Before, Earlier
        <3> QED
            BY <3>1, <2>2, <2>5 DEF InLine
    <2>8. ASSUME NEW k \in output.stored, NEW w \in Waiting PROVE k < Line(w)
        BY <2>2, <2>5 DEF InLine
    <2> QED
        BY <2>2, <2>6, <2>7, <2>8 DEF NoLineLost
<1> QED
    BY <1>1, LineInvariant, PTL

\* stop(): when it returns and found the thread before an exchange, what was logged
\* before it was flushed to the files, whatever was logged meanwhile, but for lines
\* that stdio held when a full disk refused a write.
THEOREM StopSavesTheLines == Spec => []StopSavesLines
<1>1. LineInv => StopSavesLines
    BY DEF LineInv, StopAgrees, AfterStop, WriterAgrees, StopSavesLines, OnDisk
<1> QED
    BY <1>1, LineInvariant, PTL
=============================================================================
