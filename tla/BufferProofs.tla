----------------------------- MODULE BufferProofs -----------------------------
(***************************************************************************)
(* Proofs about module Buffer, for every size of the prepend area, of the  *)
(* initial vector and of extrabuf, and for appends whose length an int can *)
(* hold (FitsInt; a longer one takes more room than make_space makes).     *)
(* Each member function gets one lemma that says what it does to the       *)
(* indexes and to the content; the theorems only put them together.        *)
(***************************************************************************)
EXTENDS Buffer, SequenceTheorems, TLAPS

Buffers == [buffer_ : Seq(Nat), reader_index_ : Nat, writer_index_ : Nat]

\* A buffer with its indexes in order: the inductive invariant.
Ordered(x) ==
    /\ x \in Buffers
    /\ k_cheap_prepend <= x.reader_index_
    /\ x.reader_index_ <= x.writer_index_
    /\ x.writer_index_ <= Len(x.buffer_)

BufferInv == Ordered(b) /\ entered \in Nat

-----------------------------------------------------------------------------
\* std::copy changes the bytes it is told to and no other.
LEMMA CopiedFacts ==
    ASSUME NEW x \in Buffers, NEW at \in Nat, NEW data \in Seq(Nat)
    PROVE  /\ Copied(x, at, data) \in Seq(Nat)
           /\ Len(Copied(x, at, data)) = Len(x.buffer_)
           /\ \A i \in 1 .. Len(x.buffer_) :
                Copied(x, at, data)[i] = IF i > at /\ i <= at + Len(data) THEN data[i - at]
                                         ELSE x.buffer_[i]
<1>1. x.buffer_ \in Seq(Nat) /\ Len(x.buffer_) \in Nat /\ DOMAIN x.buffer_ = 1 .. Len(x.buffer_)
  BY DEF Buffers
<1>2. \A i \in 1 .. Len(x.buffer_) :
        (IF i > at /\ i <= at + Len(data) THEN data[i - at] ELSE x.buffer_[i]) \in Nat
  BY <1>1
<1> QED
  BY <1>1, <1>2 DEF Copied

\* vector::resize keeps what fits.
LEMMA ResizedFacts ==
    ASSUME NEW x \in Buffers, NEW n \in Nat
    PROVE  /\ resized(x, n) \in Seq(Nat)
           /\ Len(resized(x, n)) = n
           /\ \A i \in 1 .. n : i <= Len(x.buffer_) => resized(x, n)[i] = x.buffer_[i]
<1>1. x.buffer_ \in Seq(Nat) /\ Len(x.buffer_) \in Nat
  BY DEF Buffers
<1>2. \A i \in 1 .. n : (IF i <= Len(x.buffer_) THEN x.buffer_[i] ELSE 0) \in Nat
  BY <1>1
<1> QED
  BY <1>1, <1>2 DEF resized

\* The bytes between two offsets.
LEMMA SliceFacts ==
    ASSUME NEW s \in Seq(Nat), NEW m \in Nat, NEW n \in Nat, m <= n, n <= Len(s)
    PROVE  /\ SubSeq(s, m + 1, n) \in Seq(Nat)
           /\ Len(SubSeq(s, m + 1, n)) = n - m
           /\ \A i \in 1 .. n - m : SubSeq(s, m + 1, n)[i] = s[m + i]
OBVIOUS

\* A sequence cut in two.
LEMMA SplitFacts ==
    ASSUME NEW s \in Seq(Nat), NEW n \in 0 .. Len(s)
    PROVE  /\ SubSeq(s, 1, n) \in Seq(Nat) /\ Len(SubSeq(s, 1, n)) = n
           /\ SubSeq(s, n + 1, Len(s)) \in Seq(Nat)
           /\ Len(SubSeq(s, n + 1, Len(s))) = Len(s) - n
           /\ s = SubSeq(s, 1, n) \o SubSeq(s, n + 1, Len(s))
<1>1. PICK t : t = SubSeq(s, 1, n)
  OBVIOUS
<1>2. PICK u : u = SubSeq(s, n + 1, Len(s))
  OBVIOUS
<1>3. n \in Nat /\ n <= Len(s) /\ Len(s) \in Nat
  OBVIOUS
<1>4. t \in Seq(Nat) /\ Len(t) = n /\ \A i \in 1 .. n : t[i] = s[i]
  BY <1>1, <1>3
<1>5. u \in Seq(Nat) /\ Len(u) = Len(s) - n /\ \A i \in 1 .. Len(s) - n : u[i] = s[n + i]
  BY <1>2, <1>3, SliceFacts
<1>6. /\ t \o u \in Seq(Nat) /\ Len(t \o u) = Len(s)
      /\ \A i \in 1 .. Len(s) : (t \o u)[i] = s[i]
  <2>1. /\ t \o u \in Seq(Nat) /\ Len(t \o u) = Len(t) + Len(u)
        /\ \A i \in 1 .. Len(t) + Len(u) :
              (t \o u)[i] = IF i <= Len(t) THEN t[i] ELSE u[i - Len(t)]
    BY <1>4, <1>5, ConcatProperties
  <2>2. Len(t) + Len(u) = Len(s)
    BY <1>3, <1>4, <1>5
  <2>3. ASSUME NEW i \in 1 .. Len(s)
        PROVE  (t \o u)[i] = s[i]
    <3>1. (t \o u)[i] = IF i <= n THEN t[i] ELSE u[i - n]
      BY <1>4, <2>1, <2>2
    <3>2. CASE i <= n
      <4>1. i \in 1 .. n
        BY <1>3, <3>2
      <4> QED
        BY <1>4, <3>1, <3>2, <4>1, Zenon
    <3>3. CASE ~(i <= n)
      <4>1. i - n \in 1 .. Len(s) - n /\ n + (i - n) = i
        BY <1>3, <3>3
      <4>2. u[i - n] = s[n + (i - n)]
        BY <1>5, <4>1, Zenon
      <4> QED
        BY <3>1, <3>3, <4>1, <4>2, Zenon
    <3> QED
      BY <3>2, <3>3
  <2> QED
    BY <2>1, <2>2, <2>3
<1>7. s = t \o u
  BY <1>6, SeqEqual
<1> QED
  BY <1>1, <1>2, <1>4, <1>5, <1>7

\* The content as a sequence.
LEMMA ContentFacts ==
    ASSUME NEW x, Ordered(x)
    PROVE  /\ Content(x) \in Seq(Nat)
           /\ Len(Content(x)) = readable_bytes(x)
           /\ readable_bytes(x) \in Nat /\ writable_bytes(x) \in Nat
           /\ \A i \in 1 .. readable_bytes(x) : Content(x)[i] = x.buffer_[x.reader_index_ + i]
<1>1. x.buffer_ \in Seq(Nat) /\ x.reader_index_ \in Nat /\ x.writer_index_ \in Nat
      /\ Len(x.buffer_) \in Nat
  BY DEF Ordered, Buffers
<1>2. x.reader_index_ <= x.writer_index_ /\ x.writer_index_ <= Len(x.buffer_)
  BY DEF Ordered
<1>3. /\ Content(x) \in Seq(Nat)
      /\ Len(Content(x)) = x.writer_index_ - x.reader_index_
      /\ \A i \in 1 .. x.writer_index_ - x.reader_index_ :
            Content(x)[i] = x.buffer_[x.reader_index_ + i]
  BY <1>1, <1>2, SliceFacts DEF Content
<1> QED
  BY <1>1, <1>2, <1>3 DEF readable_bytes, writable_bytes

\* Two buffers with the same bytes between their indexes have the same content.
LEMMA SameContent ==
    ASSUME NEW x, NEW y, Ordered(x), Ordered(y), readable_bytes(y) = readable_bytes(x),
           \A i \in 1 .. readable_bytes(x) :
                y.buffer_[y.reader_index_ + i] = x.buffer_[x.reader_index_ + i]
    PROVE  Content(y) = Content(x)
<1>1. Content(x) \in Seq(Nat) /\ Content(y) \in Seq(Nat) /\ Len(Content(y)) = Len(Content(x))
  BY ContentFacts, Zenon
<1>2. \A i \in 1 .. Len(Content(y)) : Content(y)[i] = Content(x)[i]
  <2>1. /\ Len(Content(y)) = readable_bytes(x)
        /\ \A i \in 1 .. readable_bytes(x) : Content(x)[i] = x.buffer_[x.reader_index_ + i]
        /\ \A i \in 1 .. readable_bytes(x) : Content(y)[i] = y.buffer_[y.reader_index_ + i]
    BY ContentFacts, Zenon
  <2> QED
    BY <2>1, Zenon
<1> QED
  BY <1>1, <1>2, SeqEqual, Zenon

-----------------------------------------------------------------------------
\* A length that an int can hold is converted to itself.
LEMMA ToIntFacts ==
    ASSUME NEW len \in Nat, len < IntMod \div 2
    PROVE  to_int(len) = len
<1>1. IntMod \in Nat
  BY BufferAssumption
<1>2. IntMod \div 2 \in Nat /\ IntMod \div 2 <= IntMod
  BY <1>1
<1>3. len < IntMod
  BY <1>1, <1>2
<1>4. len % IntMod = len
  BY <1>1, <1>3
<1> QED
  BY <1>4 DEF to_int

\* make_space makes room for len bytes, keeps the content, and grows the vector
\* only if it must.
LEMMA MakeSpaceFacts ==
    ASSUME NEW x, Ordered(x), NEW len \in Nat, writable_bytes(x) < len,
           len < IntMod \div 2, NEW y, y = make_space(x, len)
    PROVE  /\ Ordered(y) /\ Content(y) = Content(x)
           /\ readable_bytes(y) = readable_bytes(x) /\ writable_bytes(y) >= len
           /\ Len(y.buffer_) > Len(x.buffer_)
                => k_cheap_prepend + readable_bytes(x) + len > Len(x.buffer_)
<1>1. /\ x \in Buffers /\ x.buffer_ \in Seq(Nat) /\ x.reader_index_ \in Nat
      /\ x.writer_index_ \in Nat /\ Len(x.buffer_) \in Nat
      /\ k_cheap_prepend <= x.reader_index_ /\ x.reader_index_ <= x.writer_index_
      /\ x.writer_index_ <= Len(x.buffer_) /\ k_cheap_prepend \in Nat
  BY BufferAssumption DEF Ordered, Buffers
<1>i. to_int(len) = len
  BY ToIntFacts
<1>s. too_small(x, to_int(len))
        <=> writable_bytes(x) + prependable_bytes(x) < len + k_cheap_prepend
  BY <1>1, <1>i DEF too_small
<1>2. CASE writable_bytes(x) + prependable_bytes(x) < len + k_cheap_prepend
  <2>1. y = [x EXCEPT !.buffer_ = resized(x, x.writer_index_ + len)]
    BY <1>2, <1>i, <1>s DEF make_space
  <2>2. /\ resized(x, x.writer_index_ + len) \in Seq(Nat)
        /\ Len(resized(x, x.writer_index_ + len)) = x.writer_index_ + len
        /\ \A i \in 1 .. x.writer_index_ + len :
             i <= Len(x.buffer_) => resized(x, x.writer_index_ + len)[i] = x.buffer_[i]
    <3>1. x.writer_index_ + len \in Nat
      BY <1>1
    <3> QED
      BY <1>1, <3>1, ResizedFacts, Zenon
  <2>3. /\ y.buffer_ = resized(x, x.writer_index_ + len)
        /\ y.reader_index_ = x.reader_index_ /\ y.writer_index_ = x.writer_index_
        /\ y \in Buffers
    BY <1>1, <2>1, <2>2 DEF Buffers
  <2>4. Ordered(y)
    BY <1>1, <2>2, <2>3 DEF Ordered
  <2>5. readable_bytes(y) = readable_bytes(x) /\ writable_bytes(y) >= len
    BY <1>1, <2>2, <2>3 DEF readable_bytes, writable_bytes
  <2>6. \A i \in 1 .. readable_bytes(x) :
            y.buffer_[y.reader_index_ + i] = x.buffer_[x.reader_index_ + i]
    <3> TAKE i \in 1 .. readable_bytes(x)
    <3>1. x.reader_index_ + i \in 1 .. x.writer_index_ + len
          /\ x.reader_index_ + i <= Len(x.buffer_)
      BY <1>1, SMTT(30) DEF readable_bytes
    <3> QED
      BY <2>2, <2>3, <3>1
  <2>7. Content(y) = Content(x)
    BY <2>4, <2>5, <2>6, SameContent
  <2>8. k_cheap_prepend + readable_bytes(x) + len > Len(x.buffer_)
    BY <1>1, <1>2 DEF readable_bytes, writable_bytes, prependable_bytes
  <2> QED
    BY <2>4, <2>5, <2>7, <2>8
<1>3. CASE ~(writable_bytes(x) + prependable_bytes(x) < len + k_cheap_prepend)
  <2>1. y = [x EXCEPT !.buffer_ = Copied(x, k_cheap_prepend, Content(x)),
                      !.reader_index_ = k_cheap_prepend,
                      !.writer_index_ = k_cheap_prepend + readable_bytes(x)]
    BY <1>3, <1>s DEF make_space
  <2>2. /\ Content(x) \in Seq(Nat) /\ readable_bytes(x) \in Nat
        /\ Len(Content(x)) = readable_bytes(x)
    BY ContentFacts
  <2>3. /\ y.buffer_ = Copied(x, k_cheap_prepend, Content(x))
        /\ y.reader_index_ = k_cheap_prepend
        /\ y.writer_index_ = k_cheap_prepend + readable_bytes(x)
        /\ y.buffer_ \in Seq(Nat) /\ Len(y.buffer_) = Len(x.buffer_)
        /\ y \in Buffers
    <3>1. /\ Copied(x, k_cheap_prepend, Content(x)) \in Seq(Nat)
          /\ Len(Copied(x, k_cheap_prepend, Content(x))) = Len(x.buffer_)
      BY <1>1, <2>2, CopiedFacts, Zenon
    <3>2. k_cheap_prepend + readable_bytes(x) \in Nat
      BY <1>1, <2>2
    <3> QED
      BY <1>1, <2>1, <3>1, <3>2 DEF Buffers
  <2>4. \A i \in 1 .. Len(x.buffer_) :
            y.buffer_[i] = IF i > k_cheap_prepend /\ i <= k_cheap_prepend + readable_bytes(x)
                           THEN Content(x)[i - k_cheap_prepend] ELSE x.buffer_[i]
    <3>1. \A i \in 1 .. Len(x.buffer_) :
            Copied(x, k_cheap_prepend, Content(x))[i] =
                IF i > k_cheap_prepend /\ i <= k_cheap_prepend + Len(Content(x))
                THEN Content(x)[i - k_cheap_prepend] ELSE x.buffer_[i]
      BY <1>1, <2>2, CopiedFacts, Zenon
    <3> QED
      BY <2>2, <2>3, <3>1, Zenon
  <2>5. k_cheap_prepend + readable_bytes(x) + len <= Len(x.buffer_)
    BY <1>1, <1>3 DEF readable_bytes, writable_bytes, prependable_bytes
  <2>6. Ordered(y)
    BY <1>1, <2>2, <2>3, <2>5 DEF Ordered
  <2>7. readable_bytes(y) = readable_bytes(x) /\ writable_bytes(y) >= len
    <3>1. readable_bytes(y) = readable_bytes(x)
      BY <1>1, <2>2, <2>3 DEF readable_bytes
    <3>2. writable_bytes(y) >= len
      BY <1>1, <2>2, <2>3, <2>5 DEF writable_bytes
    <3> QED
      BY <3>1, <3>2
  <2>8. \A i \in 1 .. readable_bytes(x) :
            y.buffer_[y.reader_index_ + i] = x.buffer_[x.reader_index_ + i]
    <3> TAKE i \in 1 .. readable_bytes(x)
    <3>1. k_cheap_prepend + i \in 1 .. Len(x.buffer_)
      BY <1>1, <2>2, <2>5
    <3>2. y.buffer_[k_cheap_prepend + i] = Content(x)[i]
      BY <1>1, <2>2, <2>4, <3>1, SMTT(30)
    <3> QED
      BY <2>3, <3>2, ContentFacts
  <2>9. Content(y) = Content(x)
    BY <2>6, <2>7, <2>8, SameContent
  <2> QED
    BY <1>1, <2>3, <2>6, <2>7, <2>9
<1> QED
  BY <1>2, <1>3

\* ensure_writable_bytes, the same, whether or not there is room already.
LEMMA EnsureFacts ==
    ASSUME NEW x, Ordered(x), NEW len \in Nat, len < IntMod \div 2,
           NEW y, y = ensure_writable_bytes(x, len)
    PROVE  /\ Ordered(y) /\ Content(y) = Content(x)
           /\ readable_bytes(y) = readable_bytes(x) /\ writable_bytes(y) >= len
           /\ Len(y.buffer_) > Len(x.buffer_)
                => k_cheap_prepend + readable_bytes(x) + len > Len(x.buffer_)
<1>1. CASE writable_bytes(x) < len
  BY <1>1, MakeSpaceFacts DEF ensure_writable_bytes
<1>2. CASE ~(writable_bytes(x) < len)
  <2>1. y = x
    BY <1>2 DEF ensure_writable_bytes
  <2>2. Len(x.buffer_) \in Nat /\ writable_bytes(x) \in Nat
    <3>1. writable_bytes(x) \in Nat
      BY ContentFacts, Zenon
    <3>2. x.buffer_ \in Seq(Nat)
      BY DEF Ordered, Buffers
    <3> QED
      BY <3>1, <3>2
  <2> QED
    BY <1>2, <2>1, <2>2
<1> QED
  BY <1>1, <1>2

\* The copy to begin_write() and the new write index, once there is room.
PutBehind(x, data) ==
    [x EXCEPT !.buffer_ = Copied(x, x.writer_index_, data),
              !.writer_index_ = @ + Len(data)]

\* It adds data to the content.
LEMMA PutBehindFacts ==
    ASSUME NEW x, Ordered(x), NEW data \in Seq(Nat), writable_bytes(x) >= Len(data),
           NEW z, z = PutBehind(x, data)
    PROVE  /\ Ordered(z) /\ Content(z) = Content(x) \o data
           /\ readable_bytes(z) = readable_bytes(x) + Len(data)
           /\ Len(z.buffer_) = Len(x.buffer_)
<1>1. /\ x \in Buffers /\ x.buffer_ \in Seq(Nat) /\ x.reader_index_ \in Nat
      /\ x.writer_index_ \in Nat /\ Len(x.buffer_) \in Nat /\ Len(data) \in Nat
      /\ k_cheap_prepend <= x.reader_index_ /\ x.reader_index_ <= x.writer_index_
      /\ x.writer_index_ + Len(data) <= Len(x.buffer_) /\ k_cheap_prepend \in Nat
  BY BufferAssumption DEF Ordered, Buffers, writable_bytes
<1>2. /\ Copied(x, x.writer_index_, data) \in Seq(Nat)
      /\ Len(Copied(x, x.writer_index_, data)) = Len(x.buffer_)
      /\ \A i \in 1 .. Len(x.buffer_) :
            Copied(x, x.writer_index_, data)[i] =
                IF i > x.writer_index_ /\ i <= x.writer_index_ + Len(data)
                THEN data[i - x.writer_index_] ELSE x.buffer_[i]
  BY <1>1, CopiedFacts, Zenon
<1>3. /\ z.buffer_ = Copied(x, x.writer_index_, data)
      /\ z.reader_index_ = x.reader_index_
      /\ z.writer_index_ = x.writer_index_ + Len(data)
      /\ z \in Buffers
  <2>1. x.writer_index_ + Len(data) \in Nat
    BY <1>1
  <2> QED
    BY <1>1, <1>2, <2>1 DEF PutBehind, Buffers
<1>4. Ordered(z)
  BY <1>1, <1>2, <1>3 DEF Ordered
<1>5. readable_bytes(z) = readable_bytes(x) + Len(data)
  BY <1>1, <1>3 DEF readable_bytes
<1>6. Content(z) = Content(x) \o data
  <2>1. /\ Content(x) \in Seq(Nat) /\ Content(z) \in Seq(Nat)
        /\ Len(Content(x)) = readable_bytes(x) /\ readable_bytes(x) \in Nat
        /\ Len(Content(z)) = readable_bytes(x) + Len(data)
        /\ \A i \in 1 .. readable_bytes(x) : Content(x)[i] = x.buffer_[x.reader_index_ + i]
        /\ \A i \in 1 .. readable_bytes(z) : Content(z)[i] = z.buffer_[z.reader_index_ + i]
    BY <1>4, <1>5, ContentFacts, Zenon
  <2>2. /\ Content(x) \o data \in Seq(Nat)
        /\ Len(Content(x) \o data) = Len(Content(x)) + Len(data)
        /\ \A i \in 1 .. Len(Content(x)) + Len(data) :
              (Content(x) \o data)[i] = IF i <= Len(Content(x)) THEN Content(x)[i]
                                        ELSE data[i - Len(Content(x))]
    BY <2>1, ConcatProperties, Zenon
  <2>3. ASSUME NEW i \in 1 .. readable_bytes(x) + Len(data)
        PROVE  Content(z)[i] = (Content(x) \o data)[i]
    <3>1. Content(z)[i] = Copied(x, x.writer_index_, data)[x.reader_index_ + i]
      BY <1>3, <1>5, <2>1
    <3>0. x.writer_index_ = x.reader_index_ + readable_bytes(x)
      BY <1>1 DEF readable_bytes
    <3>2. /\ x.reader_index_ + i \in 1 .. Len(x.buffer_)
          /\ (x.reader_index_ + i > x.writer_index_) <=> (i > readable_bytes(x))
          /\ x.reader_index_ + i <= x.writer_index_ + Len(data)
      <4>1. /\ readable_bytes(x) \in Nat /\ x.reader_index_ \in Nat /\ Len(data) \in Nat
            /\ Len(x.buffer_) \in Nat /\ x.writer_index_ + Len(data) <= Len(x.buffer_)
        BY <1>1, <2>1
      <4> QED
        BY <3>0, <4>1
    <3>3. CASE i <= readable_bytes(x)
      <4>1. Content(x)[i] = x.buffer_[x.reader_index_ + i]
        BY <2>1, <3>3
      <4>2. Copied(x, x.writer_index_, data)[x.reader_index_ + i] = x.buffer_[x.reader_index_ + i]
        <5>1. ~(x.reader_index_ + i > x.writer_index_)
          BY <2>1, <3>2, <3>3
        <5> QED
          BY <1>2, <3>2, <5>1, Zenon
      <4>3. (Content(x) \o data)[i] = Content(x)[i]
        BY <2>1, <2>2, <3>3
      <4> QED
        BY <3>1, <4>1, <4>2, <4>3, Zenon
    <3>4. CASE i > readable_bytes(x)
      <4>1. (x.reader_index_ + i) - x.writer_index_ = i - readable_bytes(x)
        BY <1>1, <2>1, <3>0
      <4>2. Copied(x, x.writer_index_, data)[x.reader_index_ + i]
                = data[(x.reader_index_ + i) - x.writer_index_]
        BY <1>2, <3>2, <3>4
      <4>3. (Content(x) \o data)[i] = data[i - readable_bytes(x)]
        BY <2>1, <2>2, <3>4
      <4> QED
        BY <3>1, <4>1, <4>2, <4>3, Zenon
    <3> QED
      BY <2>1, <3>3, <3>4
  <2>4. Len(Content(z)) = Len(Content(x) \o data)
    BY <2>1, <2>2
  <2>5. \A i \in 1 .. Len(Content(z)) : Content(z)[i] = (Content(x) \o data)[i]
    BY <2>1, <2>3, Zenon
  <2> QED
    BY <2>1, <2>2, <2>4, <2>5, SeqEqual, Zenon
<1> QED
  BY <1>2, <1>3, <1>4, <1>5, <1>6

\* append puts data behind the content.
LEMMA AppendFacts ==
    ASSUME NEW x, Ordered(x), NEW data \in Seq(Nat), Len(data) < IntMod \div 2,
           NEW z, z = append(x, data)
    PROVE  /\ Ordered(z) /\ Content(z) = Content(x) \o data
           /\ readable_bytes(z) = readable_bytes(x) + Len(data)
           /\ Len(z.buffer_) > Len(x.buffer_)
                => k_cheap_prepend + readable_bytes(z) > Len(x.buffer_)
<1>1. PICK y : y = ensure_writable_bytes(x, Len(data))
  OBVIOUS
<1>2. /\ Ordered(y) /\ Content(y) = Content(x)
      /\ readable_bytes(y) = readable_bytes(x) /\ writable_bytes(y) >= Len(data)
      /\ Len(y.buffer_) > Len(x.buffer_)
            => k_cheap_prepend + readable_bytes(x) + Len(data) > Len(x.buffer_)
  <2>1. Len(data) \in Nat
    OBVIOUS
  <2> QED
    BY <1>1, <2>1, EnsureFacts, Zenon
<1>3. z = PutBehind(y, data)
  BY <1>1 DEF append, PutBehind
<1>4. /\ Ordered(z) /\ Content(z) = Content(y) \o data
      /\ readable_bytes(z) = readable_bytes(y) + Len(data)
      /\ Len(z.buffer_) = Len(y.buffer_)
  BY <1>2, <1>3, PutBehindFacts, Zenon
<1>5. readable_bytes(x) \in Nat /\ k_cheap_prepend \in Nat
  BY ContentFacts, BufferAssumption
<1> QED
  BY <1>2, <1>4, <1>5

\* append does not throw.
LEMMA AppendReturns ==
    ASSUME NEW x, Ordered(x), NEW len \in Nat, len < IntMod \div 2
    PROVE  ~throws(x, len)
<1>1. x.writer_index_ \in Nat /\ to_int(len) = len
  BY ToIntFacts DEF Ordered, Buffers
<1> QED
  BY <1>1 DEF throws

\* read_fd puts what readv brought behind the content, whether or not extrabuf
\* was used.
LEMMA ReadFacts ==
    ASSUME NEW x, Ordered(x), NEW data \in Seq(Nat), Len(data) <= Readv(x),
           NEW z, z = read_fd(x, data)
    PROVE  /\ Ordered(z) /\ Content(z) = Content(x) \o data
           /\ Len(z.buffer_) > Len(x.buffer_)
                => k_cheap_prepend + readable_bytes(z) > Len(x.buffer_)
<1>1. /\ x.buffer_ \in Seq(Nat) /\ Len(x.buffer_) \in Nat /\ x.writer_index_ \in Nat
      /\ Len(data) \in Nat /\ writable_bytes(x) \in Nat
      /\ x.writer_index_ + writable_bytes(x) = Len(x.buffer_)
  <2>1. /\ x.buffer_ \in Seq(Nat) /\ x.writer_index_ \in Nat
        /\ x.writer_index_ <= Len(x.buffer_)
    BY DEF Ordered, Buffers
  <2> QED
    BY <2>1 DEF writable_bytes
<1>2. CASE Len(data) <= writable_bytes(x)
  <2>1. z = PutBehind(x, data)
    BY <1>2 DEF read_fd, PutBehind
  <2>2. /\ Ordered(z) /\ Content(z) = Content(x) \o data
        /\ Len(z.buffer_) = Len(x.buffer_)
    BY <1>1, <1>2, <2>1, PutBehindFacts
  <2> QED
    BY <1>1, <2>2
<1>3. CASE ~(Len(data) <= writable_bytes(x))
  <2>1. PICK first, rest : /\ first = SubSeq(data, 1, writable_bytes(x))
                           /\ rest = SubSeq(data, writable_bytes(x) + 1, Len(data))
    OBVIOUS
  <2>2. /\ first \in Seq(Nat) /\ Len(first) = writable_bytes(x)
        /\ rest \in Seq(Nat) /\ data = first \o rest
        /\ Len(rest) = Len(data) - writable_bytes(x)
    <3>1. \A n \in 0 .. Len(data) : /\ SubSeq(data, 1, n) \in Seq(Nat)
                                    /\ Len(SubSeq(data, 1, n)) = n
                                    /\ SubSeq(data, n + 1, Len(data)) \in Seq(Nat)
                                    /\ Len(SubSeq(data, n + 1, Len(data))) = Len(data) - n
                                    /\ data = SubSeq(data, 1, n) \o SubSeq(data, n + 1, Len(data))
      BY SplitFacts
    <3>2. writable_bytes(x) \in 0 .. Len(data)
      BY <1>1, <1>3
    <3> QED
      BY <2>1, <3>1, <3>2, Zenon
  <2>3. PICK y : y = [x EXCEPT !.buffer_ = Copied(x, x.writer_index_, first),
                               !.writer_index_ = Len(x.buffer_)]
    OBVIOUS
  <2>4. y = PutBehind(x, first)
    <3>1. x.writer_index_ + Len(first) = Len(x.buffer_)
      BY <1>1, <2>2
    <3> QED
      BY <2>3, <3>1 DEF PutBehind, Ordered, Buffers
  <2>5. /\ Ordered(y) /\ Content(y) = Content(x) \o first
        /\ Len(y.buffer_) = Len(x.buffer_)
    <3>1. writable_bytes(x) >= Len(first)
      BY <1>1, <2>2
    <3> QED
      BY <2>2, <2>4, <3>1, PutBehindFacts, Zenon
  <2>6. z = append(y, rest)
    BY <1>3, <2>1, <2>3 DEF read_fd
  <2>7. /\ Ordered(z) /\ Content(z) = Content(y) \o rest
        /\ Len(z.buffer_) > Len(y.buffer_)
                => k_cheap_prepend + readable_bytes(z) > Len(y.buffer_)
    <3>1. Len(rest) < IntMod \div 2
      BY <1>1, <1>3, <2>2, BufferAssumption DEF Readv
    <3> QED
      BY <2>2, <2>5, <2>6, <3>1, AppendFacts, Zenon
  <2>8. Content(z) = Content(x) \o data
    <3>1. Content(x) \in Seq(Nat)
      BY ContentFacts
    <3>2. (Content(x) \o first) \o rest = Content(x) \o (first \o rest)
      BY <2>2, <3>1, ConcatAssociative
    <3> QED
      BY <2>2, <2>5, <2>7, <3>2, Zenon
  <2> QED
    BY <2>5, <2>7, <2>8
<1> QED
  BY <1>2, <1>3

\* retrieve_all leaves no content.
LEMMA RetrieveAllFacts ==
    ASSUME NEW x, Ordered(x), NEW z, z = retrieve_all(x)
    PROVE  Ordered(z) /\ Len(z.buffer_) = Len(x.buffer_) /\ Content(z) = <<>>
<1>1. /\ x \in Buffers /\ x.buffer_ \in Seq(Nat) /\ Len(x.buffer_) \in Nat
      /\ k_cheap_prepend \in Nat /\ k_cheap_prepend <= Len(x.buffer_)
  BY BufferAssumption DEF Ordered, Buffers
<1>2. /\ z \in Buffers /\ z.buffer_ = x.buffer_
      /\ z.reader_index_ = k_cheap_prepend /\ z.writer_index_ = k_cheap_prepend
  BY <1>1 DEF retrieve_all, Buffers
<1>3. Ordered(z) /\ readable_bytes(z) = 0
  BY <1>1, <1>2 DEF Ordered, readable_bytes
<1>4. Content(z) \in Seq(Nat) /\ Len(Content(z)) = 0
  BY <1>3, ContentFacts
<1> QED
  BY <1>2, <1>3, <1>4

\* retrieve takes the oldest bytes off the content.
LEMMA RetrieveFacts ==
    ASSUME NEW x, Ordered(x), NEW len \in Nat, NEW z, z = retrieve(x, len)
    PROVE  /\ Ordered(z) /\ Len(z.buffer_) = Len(x.buffer_)
           /\ Content(z) = SubSeq(Content(x), len + 1, Len(Content(x)))
<1>1. /\ x \in Buffers /\ x.buffer_ \in Seq(Nat) /\ x.reader_index_ \in Nat
      /\ x.writer_index_ \in Nat /\ Len(x.buffer_) \in Nat
      /\ k_cheap_prepend <= x.reader_index_ /\ x.reader_index_ <= x.writer_index_
      /\ x.writer_index_ <= Len(x.buffer_) /\ k_cheap_prepend \in Nat
      /\ readable_bytes(x) = x.writer_index_ - x.reader_index_
      /\ readable_bytes(x) \in Nat
  BY BufferAssumption DEF Ordered, Buffers, readable_bytes
<1>2. /\ Content(x) \in Seq(Nat) /\ Len(Content(x)) = readable_bytes(x)
      /\ \A i \in 1 .. readable_bytes(x) : Content(x)[i] = x.buffer_[x.reader_index_ + i]
  BY ContentFacts
<1>3. CASE len < readable_bytes(x)
  <2>1. /\ z \in Buffers /\ z.buffer_ = x.buffer_ /\ z.reader_index_ = x.reader_index_ + len
        /\ z.writer_index_ = x.writer_index_
    <3>1. x.reader_index_ + len \in Nat
      BY <1>1
    <3> QED
      BY <1>1, <1>3, <3>1 DEF retrieve, Buffers
  <2>2. Ordered(z) /\ readable_bytes(z) = readable_bytes(x) - len
    BY <1>1, <1>3, <2>1 DEF Ordered, readable_bytes
  <2>3. PICK t : t = SubSeq(Content(x), len + 1, Len(Content(x)))
    OBVIOUS
  <2>4. /\ t \in Seq(Nat) /\ Len(t) = readable_bytes(x) - len
        /\ \A i \in 1 .. readable_bytes(x) - len : t[i] = Content(x)[len + i]
    <3>1. Len(Content(x)) \in Nat /\ len <= Len(Content(x)) /\ Len(Content(x)) <= Len(Content(x))
      BY <1>1, <1>2, <1>3
    <3>2. /\ t \in Seq(Nat) /\ Len(t) = Len(Content(x)) - len
          /\ \A i \in 1 .. Len(Content(x)) - len : t[i] = Content(x)[len + i]
      BY <1>2, <2>3, <3>1, SliceFacts, Zenon
    <3> QED
      BY <1>2, <3>2, Zenon
  <2>5. /\ Content(z) \in Seq(Nat) /\ Len(Content(z)) = readable_bytes(x) - len
        /\ \A i \in 1 .. readable_bytes(x) - len :
              Content(z)[i] = x.buffer_[(x.reader_index_ + len) + i]
    BY <2>1, <2>2, ContentFacts
  <2>6. \A i \in 1 .. readable_bytes(x) - len : Content(z)[i] = t[i]
    <3> TAKE i \in 1 .. readable_bytes(x) - len
    <3>1. /\ len + i \in 1 .. readable_bytes(x)
          /\ (x.reader_index_ + len) + i = x.reader_index_ + (len + i)
      BY <1>1, <1>3, SMTT(30)
    <3>2. Content(x)[len + i] = x.buffer_[x.reader_index_ + (len + i)]
      BY <1>2, <3>1, Zenon
    <3> QED
      BY <2>4, <2>5, <3>1, <3>2, Zenon
  <2>7. Content(z) = t
    BY <2>4, <2>5, <2>6, SeqEqual
  <2> QED
    BY <2>1, <2>2, <2>3, <2>7
<1>4. CASE ~(len < readable_bytes(x))
  <2>1. z = retrieve_all(x)
    BY <1>4 DEF retrieve
  <2>2. Ordered(z) /\ Len(z.buffer_) = Len(x.buffer_) /\ Content(z) = <<>>
    BY <2>1, RetrieveAllFacts
  <2>3. SubSeq(Content(x), len + 1, Len(Content(x))) = <<>>
    <3>1. len + 1 \in Int /\ Len(Content(x)) \in Int /\ Len(Content(x)) < len + 1
      BY <1>1, <1>2, <1>4
    <3> QED
      BY <3>1, SubSeqEmpty, Zenon
  <2> QED
    BY <2>2, <2>3
<1> QED
  BY <1>3, <1>4

-----------------------------------------------------------------------------
\* The constructor.
LEMMA BufferInit == Init => BufferInv /\ Content(b) = <<>>
<1> SUFFICES ASSUME Init PROVE BufferInv /\ Content(b) = <<>>
  OBVIOUS
<1>1. k_cheap_prepend \in Nat /\ k_initial_size \in Nat
  BY BufferAssumption
<1>2. /\ b.buffer_ \in Seq(Nat) /\ Len(b.buffer_) = k_cheap_prepend + k_initial_size
      /\ b.reader_index_ = k_cheap_prepend /\ b.writer_index_ = k_cheap_prepend
      /\ b \in Buffers
  BY <1>1 DEF Init, Buffers
<1>3. Ordered(b) /\ readable_bytes(b) = 0
  BY <1>1, <1>2 DEF Ordered, readable_bytes
<1>4. Content(b) \in Seq(Nat) /\ Len(Content(b)) = 0
  BY <1>3, ContentFacts
<1> QED
  BY <1>3, <1>4 DEF Init, BufferInv

\* The bytes that come next are a sequence.
LEMMA DataFacts ==
    ASSUME entered \in Nat, NEW n \in Nat
    PROVE  Data(n) \in Seq(Nat) /\ Len(Data(n)) = n
BY DEF Data

\* Every step keeps the indexes in order, is a step of the queue, and grows the
\* vector only if it must.
LEMMA BufferStep ==
    ASSUME FitsInt, BufferInv, [Next]_vars
    PROVE  /\ BufferInv'
           /\ [Queue!Next]_(Queue!vars)
           /\ Len(b.buffer_') > Len(b.buffer_)
                => k_cheap_prepend + readable_bytes(b') > Len(b.buffer_)
<1>1. Ordered(b) /\ entered \in Nat /\ MaxBytes \in Nat /\ Len(b.buffer_) \in Nat
  BY BufferAssumption DEF BufferInv, Ordered, Buffers
<1>2. CASE Append_
  <2>0. PICK n \in Room :
            /\ n <= MaxAppend
            /\ IF throws(b, n) THEN UNCHANGED vars
               ELSE b' = append(b, Data(n)) /\ entered' = entered + n
    BY <1>2 DEF Append_
  <2>2. n \in 0 .. MaxBytes /\ n \in Nat /\ entered + n \in Nat /\ entered + n <= MaxBytes
    BY <1>1, <2>0 DEF Room
  <2>4. n < IntMod \div 2
    BY <2>0, <2>2, BufferAssumption DEF FitsInt
  <2>1. b' = append(b, Data(n)) /\ entered' = entered + n
    BY <1>1, <2>0, <2>2, <2>4, AppendReturns
  <2>3. /\ Ordered(b') /\ Content(b') = Content(b) \o Data(n)
        /\ Len(b.buffer_') > Len(b.buffer_)
                => k_cheap_prepend + readable_bytes(b') > Len(b.buffer_)
    BY <1>1, <2>1, <2>2, <2>4, DataFacts, AppendFacts
  <2> QED
    BY <2>1, <2>2, <2>3 DEF BufferInv, Queue!Next, Queue!Put, Queue!Fresh, Data
<1>3. CASE Read_fd
  <2>1. PICK n \in Room :
            n <= Readv(b) /\ b' = read_fd(b, Data(n)) /\ entered' = entered + n
    BY <1>3 DEF Read_fd
  <2>2. n \in 0 .. MaxBytes /\ n \in Nat /\ entered + n \in Nat /\ entered + n <= MaxBytes
    BY <1>1, <2>1 DEF Room
  <2>3. /\ Ordered(b') /\ Content(b') = Content(b) \o Data(n)
        /\ Len(b.buffer_') > Len(b.buffer_)
                => k_cheap_prepend + readable_bytes(b') > Len(b.buffer_)
    BY <1>1, <2>1, <2>2, DataFacts, ReadFacts
  <2> QED
    BY <2>1, <2>2, <2>3 DEF BufferInv, Queue!Next, Queue!Put, Queue!Fresh, Data
<1>4. CASE Retrieve
  <2>1. PICK len \in 0 .. MaxBytes : b' = retrieve(b, len) /\ UNCHANGED entered
    BY <1>4 DEF Retrieve
  <2>2. /\ Ordered(b') /\ Len(b.buffer_') = Len(b.buffer_)
        /\ Content(b') = SubSeq(Content(b), len + 1, Len(Content(b)))
    BY <1>1, <2>1, RetrieveFacts
  <2>3. Content(b) \in Seq(Nat) /\ Len(Content(b)) \in Nat
    BY <1>1, ContentFacts
  <2>4. \E m \in 0 .. Len(Content(b)) : Content(b') = SubSeq(Content(b), m + 1, Len(Content(b)))
    <3>1. CASE len <= Len(Content(b))
      BY <1>1, <2>1, <2>2, <3>1
    <3>2. CASE len > Len(Content(b))
      <4>1. Content(b') = <<>> /\ SubSeq(Content(b), Len(Content(b)) + 1, Len(Content(b))) = <<>>
        BY <1>1, <2>1, <2>2, <2>3, <3>2, SubSeqEmpty
      <4> QED
        BY <2>3, <4>1
    <3> QED
      BY <2>1, <2>3, <3>1, <3>2
  <2> QED
    BY <1>1, <2>1, <2>2, <2>4 DEF BufferInv, Queue!Next, Queue!Take
<1>5. CASE Retrieve_all
  <2>1. /\ Ordered(b') /\ Len(b.buffer_') = Len(b.buffer_) /\ Content(b') = <<>>
        /\ UNCHANGED entered
    BY <1>1, <1>5, RetrieveAllFacts DEF Retrieve_all
  <2>2. Content(b) \in Seq(Nat) /\ Len(Content(b)) \in Nat
    BY <1>1, ContentFacts
  <2>3. \E m \in 0 .. Len(Content(b)) : Content(b') = SubSeq(Content(b), m + 1, Len(Content(b)))
    <3>1. SubSeq(Content(b), Len(Content(b)) + 1, Len(Content(b))) = <<>>
      BY <2>2, SubSeqEmpty
    <3> QED
      BY <2>1, <2>2, <3>1
  <2> QED
    BY <1>1, <2>1, <2>3 DEF BufferInv, Queue!Next, Queue!Take
<1>6. CASE UNCHANGED vars
  BY <1>1, <1>6 DEF vars, BufferInv, Queue!vars, Ordered
<1> QED
  BY <1>2, <1>3, <1>4, <1>5, <1>6 DEF Next

\* buffer.h, 0 <= readerIndex <= writerIndex <= size: as long as every append is
\* shorter than 2^31 bytes, the indexes are in order in every state, and the
\* prepend area is kept.
THEOREM IndexesStayOrdered == FitsInt => (Spec => []IndexesOrdered)
<1> SUFFICES ASSUME FitsInt PROVE Spec => []IndexesOrdered
  OBVIOUS
<1>1. BufferInv => IndexesOrdered
  BY DEF BufferInv, Ordered, IndexesOrdered
<1>2. BufferInv /\ [Next]_vars => BufferInv'
  BY BufferStep
<1> QED
  BY <1>1, <1>2, BufferInit, PTL DEF Spec

\* make_space, called for fewer than 2^31 bytes, never grows the vector while the
\* content fits behind the prepend area.
THEOREM NeverGrowsNeedlessly == FitsInt => (Spec => GrowsOnlyWhenFull)
<1> SUFFICES ASSUME FitsInt PROVE Spec => GrowsOnlyWhenFull
  OBVIOUS
<1>1. ASSUME BufferInv, [Next]_vars
      PROVE  [Len(b.buffer_') > Len(b.buffer_)
                => k_cheap_prepend + readable_bytes(b') > Len(b.buffer_)]_vars
  BY <1>1, BufferStep
<1>2. BufferInv /\ [Next]_vars => BufferInv'
  BY BufferStep
<1> QED
  BY <1>1, <1>2, BufferInit, PTL DEF Spec, GrowsOnlyWhenFull

\* As long as every append is shorter than 2^31 bytes, a Buffer implements the
\* queue of bytes: whatever mixture of append, read_fd and retrieve, the bytes
\* come out as they went in.
THEOREM ImplementsQueue == FitsInt => (Spec => QueueSpec)
<1> SUFFICES ASSUME FitsInt PROVE Spec => QueueSpec
  OBVIOUS
<1>1. Init => Queue!Init
  BY BufferInit DEF Init, Queue!Init
<1>2. BufferInv /\ [Next]_vars => BufferInv' /\ [Queue!Next]_(Queue!vars)
  BY BufferStep
<1> QED
  BY <1>1, <1>2, BufferInit, PTL DEF Spec, QueueSpec, Queue!Spec
=============================================================================
