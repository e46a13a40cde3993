------------------------------- MODULE LogFile -------------------------------
(***************************************************************************)
(* src/base/log/log_file.cpp and file_util.cpp: a Log_File and the         *)
(* File_Util it writes to, as operators on a record f with the fields      *)
(*   written_bytes_  of the current file, counted up to RollSize + 1       *)
(*   count_, start_of_period_, last_roll_, last_flush_                     *)
(*   held            the log lines that stdio holds for its next flush     *)
(*   stored          history: the log lines that stdio has taken           *)
(*   doubtful        history: those it held when the disk refused a write; *)
(*                   they may be lost                                      *)
(*   in_order        history: was each of them written after the one       *)
(*                   before it?                                            *)
(*   strays          history: writes in a row to the current file on a     *)
(*                   later day than the one it was opened on               *)
(* The clock is read once in an operation; full says whether the disk is   *)
(* full meanwhile.  mutex_ is left out: the only user is the thread of     *)
(* Async_Logging.                                                          *)
(***************************************************************************)
EXTENDS FixedBuffer, SequencesExt

CONSTANTS
    RollSize,       \* roll_size_, in units of a buffer
    RollInterval,   \* ROLL_INTERVAL, a day
    CheckEveryN     \* check_every_n_

ASSUME LogFileAssumption ==
    RollSize \in Nat /\ RollInterval \in Nat \ {0} /\ CheckEveryN \in Nat \ {0}

\* Async_Logging passes false as flush_interval.
FlushInterval == 0

period(time) == (time \div RollInterval) * RollInterval

\* What becomes of the lines that stdio holds, and of the ones in news, when it
\* writes.  After a write that failed C promises nothing of them, and the GNU
\* library drops them.
write_out(f, news, full) ==
    [f EXCEPT !.held = {}, !.doubtful = IF full THEN @ \cup f.held \cup news ELSE @]

\* File_Util::flush, and the fclose of ~File_Util: nobody looks whether they fail.
flush(f, full) == write_out(f, {}, full)

\* A new file, unless one was opened this second; its name is the second.
roll_file(f, now, full) ==
    IF now > f.last_roll_
    THEN [flush(f, full) EXCEPT !.last_roll_ = now, !.last_flush_ = now,
                                !.start_of_period_ = period(now),
                                !.written_bytes_ = 0, !.strays = 0]
    ELSE f

\* The constructor rolls; until then there is no file.
Log_File(now) ==
    roll_file([written_bytes_ |-> 0, count_ |-> 0, start_of_period_ |-> 0,
               last_roll_ |-> 0, last_flush_ |-> 0, held |-> {}, stored |-> {},
               doubtful |-> {}, in_order |-> TRUE, strays |-> 0], now, FALSE)

\* One fwrite of File_Util::append that takes units.  If the disk is full, stdio
\* may have tried to write and failed.
write(f, units, full) ==
    LET taken == {u \in Range(units) : u > 0}
        news == taken \ f.stored
        g == IF full THEN write_out(f, news, full) ELSE [f EXCEPT !.held = @ \cup news]
    IN  [g EXCEPT !.stored = @ \cup taken,
                  !.in_order = @ /\ \A i \in DOMAIN units : units[i] > 1 =>
                      \/ units[i] - 1 \in f.stored
                      \/ \E j \in DOMAIN units : j < i /\ units[j] = units[i] - 1]

\* Mutant: only the size makes it roll.
append_in_lock_by_size(f, len, now, full) ==
    LET grown == f.written_bytes_ + len
        g == [f EXCEPT !.written_bytes_ = IF grown > RollSize THEN RollSize + 1 ELSE grown,
                       !.strays = IF period(now) > f.start_of_period_ THEN @ + 1 ELSE 0]
    IN  IF g.written_bytes_ > RollSize THEN roll_file(g, now, full)
        ELSE [g EXCEPT !.count_ = IF @ + 1 < CheckEveryN THEN @ + 1 ELSE 0]

\* append_in_lock once File_Util::append has written all len units.
append_in_lock(f, len, now, full) ==
    LET grown == f.written_bytes_ + len
        g == [f EXCEPT !.written_bytes_ = IF grown > RollSize THEN RollSize + 1 ELSE grown,
                       !.strays = IF period(now) > f.start_of_period_ THEN @ + 1 ELSE 0]
        h == [g EXCEPT !.count_ = 0]
    IN  IF g.written_bytes_ > RollSize THEN roll_file(g, now, full)
        ELSE IF g.count_ + 1 < CheckEveryN THEN [g EXCEPT !.count_ = @ + 1]
        ELSE IF period(now) # g.start_of_period_ THEN roll_file(h, now, full)
        ELSE IF now - g.last_flush_ > FlushInterval
             THEN flush([h EXCEPT !.last_flush_ = now], full) ELSE h
=============================================================================
