-------------------------------- MODULE Buffer --------------------------------
(***************************************************************************)
(* src/net/buffer.{h,cpp}: the vector with a read and a write index behind *)
(* every connection.  The member functions are operators on a record b;    *)
(* offset i of the vector is b.buffer_[i + 1].  Bytes are numbered in the  *)
(* order in which they enter.                                              *)
(***************************************************************************)
EXTENDS Integers, Sequences

CONSTANTS
    k_cheap_prepend,
    k_initial_size,
    ExtraBuf,           \* sizeof(extrabuf) in read_fd
    IntMod,             \* how many values an int has: 2^32 in the code
    MaxAppend,          \* bound: bytes of one append; the code has none
    MaxBytes            \* bound: bytes put into the buffer

ASSUME BufferAssumption ==
    /\ k_cheap_prepend \in Nat /\ k_initial_size \in Nat
    /\ MaxAppend \in Nat /\ MaxBytes \in Nat
    /\ IntMod \in Nat /\ ExtraBuf \in 0 .. (IntMod \div 2) - 1

\* No append is so long that an int cannot hold its length.
FitsInt == MaxAppend < IntMod \div 2

VARIABLES
    b,          \* the Buffer
    entered     \* history: bytes that were put in

vars == <<b, entered>>

readable_bytes(x) == x.writer_index_ - x.reader_index_
writable_bytes(x) == Len(x.buffer_) - x.writer_index_
prependable_bytes(x) == x.reader_index_

\* The bytes from peek() to begin_write().
Content(x) == SubSeq(x.buffer_, x.reader_index_ + 1, x.writer_index_)

Init ==
    /\ b = [buffer_ |-> [i \in 1 .. k_cheap_prepend + k_initial_size |-> 0],
            reader_index_ |-> k_cheap_prepend, writer_index_ |-> k_cheap_prepend]
    /\ entered = 0

-----------------------------------------------------------------------------
\* std::copy of data to offset at.
Copied(x, at, data) ==
    [i \in DOMAIN x.buffer_ |-> IF i > at /\ i <= at + Len(data) THEN data[i - at]
                                ELSE x.buffer_[i]]

resized(x, n) == [i \in 1 .. n |-> IF i <= Len(x.buffer_) THEN x.buffer_[i] ELSE 0]

retrieve_all(x) ==
    [x EXCEPT !.reader_index_ = k_cheap_prepend, !.writer_index_ = k_cheap_prepend]

\* Mutant: the read index may pass the write index.
retrieve_too_much(x, len) == [x EXCEPT !.reader_index_ = @ + len]

retrieve(x, len) ==
    IF len < readable_bytes(x) THEN [x EXCEPT !.reader_index_ = @ + len] ELSE retrieve_all(x)

\* Mutant: the vector grows although the space in front would do.
make_space_grows(x, len) == [x EXCEPT !.buffer_ = resized(x, x.writer_index_ + len)]

\* The conversion of a size_t to the int that make_space takes.
to_int(len) ==
    IF len % IntMod < IntMod \div 2 THEN len % IntMod ELSE (len % IntMod) - IntMod

\* The test of make_space on the converted len.  The sum is a size_t: below zero
\* it wraps round and exceeds every size.
too_small(x, n) ==
    \/ n + k_cheap_prepend < 0
    \/ writable_bytes(x) + prependable_bytes(x) < n + k_cheap_prepend

\* vector::resize throws length_error for a size below zero, wrapped round, and
\* append ends there: nothing has changed.
throws(x, len) ==
    /\ writable_bytes(x) < len
    /\ too_small(x, to_int(len)) /\ x.writer_index_ + to_int(len) < 0

\* Resize, or move the content to the front.  Beyond FitsInt the vector may
\* shrink, or stay too small for len bytes.
make_space(x, len) ==
    IF too_small(x, to_int(len))
    THEN [x EXCEPT !.buffer_ = resized(x, x.writer_index_ + to_int(len))]
    ELSE [x EXCEPT !.buffer_ = Copied(x, k_cheap_prepend, Content(x)),
                   !.reader_index_ = k_cheap_prepend,
                   !.writer_index_ = k_cheap_prepend + readable_bytes(x)]

ensure_writable_bytes(x, len) == IF writable_bytes(x) < len THEN make_space(x, len) ELSE x

\* The copy and the new write index do not ask whether there is room.
append(x, data) ==
    LET y == ensure_writable_bytes(x, Len(data))
    IN  [y EXCEPT !.buffer_ = Copied(y, y.writer_index_, data),
                  !.writer_index_ = @ + Len(data)]

\* What readv can take: the writable bytes, and extrabuf if there are fewer of
\* them than extrabuf has.
Readv(x) == writable_bytes(x) + (IF writable_bytes(x) < ExtraBuf THEN ExtraBuf ELSE 0)

\* Mutant: what is in extrabuf is written over the end of the buffer.
read_fd_keeps_index(x, data) ==
    LET w == writable_bytes(x)
        y == [x EXCEPT !.buffer_ = Copied(x, x.writer_index_, SubSeq(data, 1, w))]
    IN  IF Len(data) <= w
        THEN [x EXCEPT !.buffer_ = Copied(x, x.writer_index_, data),
                       !.writer_index_ = @ + Len(data)]
        ELSE append(y, SubSeq(data, w + 1, Len(data)))

\* readv brings data in: the first part lies in the vector already, the rest is
\* appended from extrabuf.
read_fd(x, data) ==
    LET w == writable_bytes(x)
        y == [x EXCEPT !.buffer_ = Copied(x, x.writer_index_, SubSeq(data, 1, w)),
                       !.writer_index_ = Len(x.buffer_)]
    IN  IF Len(data) <= w
        THEN [x EXCEPT !.buffer_ = Copied(x, x.writer_index_, data),
                       !.writer_index_ = @ + Len(data)]
        ELSE append(y, SubSeq(data, w + 1, Len(data)))

-----------------------------------------------------------------------------
\* The next n bytes.
Data(n) == [i \in 1 .. n |-> entered + i]
Room == 0 .. MaxBytes - entered

Append_ ==
    \E n \in Room :
        /\ n <= MaxAppend
        /\ IF throws(b, n) THEN UNCHANGED vars
           ELSE b' = append(b, Data(n)) /\ entered' = entered + n

Read_fd == \E n \in Room : n <= Readv(b) /\ b' = read_fd(b, Data(n)) /\ entered' = entered + n

\* Also retrieve_as_string, and the write of output_buffer_ in handle_write.
Retrieve == \E len \in 0 .. MaxBytes : b' = retrieve(b, len) /\ UNCHANGED entered

Retrieve_all == b' = retrieve_all(b) /\ UNCHANGED entered

Next == Append_ \/ Read_fd \/ Retrieve \/ Retrieve_all

Spec == Init /\ [][Next]_vars

-----------------------------------------------------------------------------
(* Properties.                                                             *)

\* The picture in buffer.h: 0 <= readerIndex <= writerIndex <= size, whatever
\* mixture of growing, moving to the front and reading through extrabuf; the
\* prepend area is never given away.  It needs FitsInt: an append of 2^32 bytes
\* is copied behind the end of the vector.
IndexesOrdered ==
    /\ k_cheap_prepend <= b.reader_index_
    /\ b.reader_index_ <= b.writer_index_
    /\ b.writer_index_ <= Len(b.buffer_)

\* make_space: the vector grows only if the content would not have fitted
\* behind the prepend area.
GrowsOnlyWhenFull ==
    [][Len(b.buffer_') > Len(b.buffer_)
        => k_cheap_prepend + readable_bytes(b') > Len(b.buffer_)]_vars

\* The Buffer is a queue of bytes: no byte is lost, doubled or reordered.
Queue == INSTANCE ByteQueue WITH queue <- Content(b)
QueueSpec == Queue!Spec
=============================================================================
