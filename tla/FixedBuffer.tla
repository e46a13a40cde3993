----------------------------- MODULE FixedBuffer -----------------------------
(***************************************************************************)
(* src/base/log/fixed_buffer.h: the Fixed_Buffer of Log_Stream and of      *)
(* Async_Logging, as operators on a record b of the array data_ and the    *)
(* offset of cur_.  What a unit of the array is, a byte or the record of   *)
(* one log line, is up to the user of this module.                         *)
(***************************************************************************)
EXTENDS Integers, Sequences

Zero == 0       \* what bzero leaves behind
Junk == -1      \* memory nobody has written: stands for whatever is there

\* A std::unique_ptr<Buffer> that points to nothing.
nullptr == [data |-> <<>>, cur |-> 0]

\* The constructor sets cur_ and nothing else.
Fixed_Buffer(size) == [data |-> [i \in 1 .. size |-> Junk], cur |-> 0]
bzero(b) == [b EXCEPT !.data = [i \in DOMAIN @ |-> Zero]]
reset(b) == [b EXCEPT !.cur = 0]

avail(b) == Len(b.data) - b.cur

\* end() - data_: the whole array, whatever cur_ is.
length(b) == Len(b.data)

\* Writes at current() without a check, and moves cur_.
add(b, s) ==
    [data |-> [i \in DOMAIN b.data |->
                IF i \in b.cur + 1 .. b.cur + Len(s) THEN s[i - b.cur] ELSE b.data[i]],
     cur  |-> b.cur + Len(s)]

append(b, s) == IF avail(b) > Len(s) THEN add(b, s) ELSE b
=============================================================================
