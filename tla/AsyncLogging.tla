---------------------------- MODULE AsyncLogging ----------------------------
(***************************************************************************)
(* src/base/log/async_logging.{h,cpp} over Log_File: any number of threads *)
(* append log lines to buffers, one thread exchanges the buffers and       *)
(* writes them to the files.                                               *)
(*                                                                         *)
(* A line takes one unit of a buffer, because Logger passes the length() of *)
(* its own buffer, which is always the whole of it.  Lines are numbered as *)
(* append gets hold of mutex_.                                             *)
(*                                                                         *)
(* Steps.  append holds mutex_ from its first to its last line and is one  *)
(* step; so is the part of thread_func under mutex_, but for the wait_for  *)
(* inside.  wait_for ends at a notification, by itself, or after three     *)
(* seconds: it can end at any time and does end, so cond_ has no state.    *)
(***************************************************************************)
EXTENDS LogFile, FiniteSets

CONSTANTS
    BufferSize,     \* LARGE_BUFFER_SIZE, in lines
    MaxLines,       \* bound: lines that are logged
    MaxTime,        \* bound: the clock
    MaxSets,        \* bound: how often the clock is set back
    MaxFaults,      \* bound: how often the disk fills up
    CreateFails     \* may pthread_create fail?

ASSUME LoggingAssumption ==
    /\ BufferSize \in Nat \ {0, 1} /\ {MaxLines, MaxTime, MaxSets, MaxFaults} \subseteq Nat
    /\ CreateFails \in BOOLEAN

VARIABLES
    current_buffer_, next_buffer_, buffers_,    \* guarded by mutex_
    running_,
    at,                         \* where thread_func is
    buffer1, buffer2, buffers_to_write,         \* its local variables
    pos,                        \* how many of buffers_to_write are written
    written,                    \* of File_Util::append: units of the next one
    output,                     \* its Log_File
    owner,                      \* what the thread that owns the object has done
    started_,                   \* of thread_
    now, sets,                  \* the clock in seconds, how often it was set back
    disk_full, faults,
    lines,                      \* history: lines appended
    at_stop                     \* history: at and lines when stop() reset running_

front == <<current_buffer_, next_buffer_, buffers_>>
local == <<buffer1, buffer2, buffers_to_write, pos, written>>
thread == <<running_, owner, started_, at_stop>>
world == <<now, sets, disk_full, faults>>
vars == <<front, local, thread, world, at, output, lines>>

NoFile == Log_File(0)
NewBuffer == Fixed_Buffer(BufferSize)

Init ==
    /\ current_buffer_ = bzero(NewBuffer) /\ next_buffer_ = bzero(NewBuffer)
    /\ buffers_ = <<>>
    /\ running_ = FALSE /\ started_ = FALSE
    /\ at = "none" /\ owner = "constructed"
    /\ buffer1 = nullptr /\ buffer2 = nullptr /\ buffers_to_write = <<>>
    /\ pos = 0 /\ written = 0
    /\ output = NoFile
    /\ now = 1 /\ sets = 0 /\ disk_full = FALSE /\ faults = 0
    /\ lines = 0 /\ at_stop = [at |-> "none", lines |-> 0]

-----------------------------------------------------------------------------
(* Threads that log.                                                       *)

\* Mutant: the full buffer is forgotten.
log_append_drops_buffer ==
    LET line == <<lines + 1>>
    IN  /\ lines < MaxLines /\ lines' = lines + 1
        /\ IF avail(current_buffer_) > 1
           THEN current_buffer_' = append(current_buffer_, line) /\ UNCHANGED buffers_
           ELSE current_buffer_' = append(NewBuffer, line) /\ UNCHANGED buffers_
        /\ UNCHANGED <<next_buffer_, local, thread, world, at, output>>

\* Async_Logging::append.
log_append ==
    LET line == <<lines + 1>>
        fresh == IF next_buffer_ # nullptr THEN next_buffer_ ELSE NewBuffer
    IN  /\ lines < MaxLines /\ lines' = lines + 1
        /\ IF avail(current_buffer_) > 1
           THEN /\ current_buffer_' = append(current_buffer_, line)
                /\ UNCHANGED <<next_buffer_, buffers_>>
           ELSE /\ buffers_' = Append(buffers_, current_buffer_)
                /\ current_buffer_' = append(fresh, line)
                /\ next_buffer_' = nullptr
        /\ UNCHANGED <<local, thread, world, at, output>>

-----------------------------------------------------------------------------
(* The owner.                                                              *)

\* start(): Thread::start returns when the thread runs, or if there is none.
start ==
    /\ owner = "constructed"
    /\ owner' = "started" /\ running_' = TRUE
    /\ \/ started_' = TRUE /\ at' = "begin"
       \/ CreateFails /\ UNCHANGED <<started_, at>>
    /\ UNCHANGED <<front, local, world, output, lines, at_stop>>

\* stop(), also from the destructor, as far as the call of join().
stop ==
    /\ owner = "started" /\ running_
    /\ running_' = FALSE /\ owner' = "joins"
    /\ at_stop' = [at |-> at, lines |-> lines]
    /\ UNCHANGED <<front, local, world, started_, at, output, lines>>

\* Thread::join, with assert(started_).
join ==
    /\ owner = "joins"
    /\ \/ ~started_ /\ owner' = "assert(started_)"
       \/ started_ /\ at = "ended" /\ owner' = "stopped"
    /\ UNCHANGED <<front, local, world, running_, started_, at, output, lines, at_stop>>

-----------------------------------------------------------------------------
(* thread_func.                                                            *)

\* Its local variables, up to the loop.
thread_begin ==
    /\ at = "begin" /\ at' = "test"
    /\ output' = Log_File(now)
    /\ buffer1' = bzero(NewBuffer) /\ buffer2' = bzero(NewBuffer)
    /\ UNCHANGED <<front, buffers_to_write, pos, written, thread, world, lines>>

\* while (running_), and behind the loop the flush and ~Log_File, whose fclose
\* finds nothing left to write.
loop_test ==
    /\ at = "test"
    /\ \/ running_ /\ at' = "lock" /\ UNCHANGED output
       \/ ~running_ /\ at' = "ended" /\ output' = flush(output, disk_full)
    /\ UNCHANGED <<front, local, thread, world, lines>>

\* The exchange of buffers.
exchange ==
    /\ buffers_to_write' = Append(buffers_, current_buffer_) /\ buffers_' = <<>>
    /\ current_buffer_' = buffer1 /\ buffer1' = nullptr
    /\ IF next_buffer_ = nullptr
       THEN next_buffer_' = buffer2 /\ buffer2' = nullptr
       ELSE UNCHANGED <<next_buffer_, buffer2>>

\* mutex_ is locked: wait if no buffer is full.
lock ==
    /\ at = "lock"
    /\ \/ /\ buffers_ = <<>> /\ at' = "wait"
          /\ UNCHANGED <<front, local>>
       \/ /\ buffers_ # <<>> /\ exchange /\ at' = "write"
          /\ UNCHANGED <<pos, written>>
    /\ UNCHANGED <<thread, world, output, lines>>

\* Mutant: a thread that is stopped while it waits leaves at once.
wakeup_leaves ==
    /\ at = "wait"
    /\ \/ running_ /\ exchange /\ at' = "write" /\ UNCHANGED <<pos, written, output>>
       \/ /\ ~running_ /\ at' = "ended" /\ output' = flush(output, disk_full)
          /\ UNCHANGED <<front, local>>
    /\ UNCHANGED <<thread, world, lines>>

\* wait_for returns.
wakeup ==
    /\ at = "wait" /\ exchange /\ at' = "write"
    /\ UNCHANGED <<pos, written, thread, world, output, lines>>

\* Mutant: only the part of the buffer that is in use is written, one unit short.
to_write_short(b) == SubSeq(b.data, 1, b.cur - 1)

\* What the thread passes to Log_File::append: data() and length().
to_write(b) == SubSeq(b.data, 1, length(b))

\* output.append of the next buffer: a turn of the loop in File_Util::append,
\* which a full disk may keep turning (or stdio finds room for everything), and
\* at its end the rest of append_in_lock.
write_buffer ==
    LET units == to_write(buffers_to_write[pos + 1])
        rest == SubSeq(units, written + 1, Len(units))
    IN  /\ at = "write" /\ pos < Len(buffers_to_write)
        /\ \E n \in 0 .. Len(rest) :
            LET f == write(output, SubSeq(rest, 1, n), disk_full)
                done == n = Len(rest)
            IN  /\ ~done => disk_full
                /\ output' = IF done THEN append_in_lock(f, Len(units), now, disk_full) ELSE f
                /\ written' = IF done THEN 0 ELSE written + n
                /\ pos' = IF done THEN pos + 1 ELSE pos
        /\ UNCHANGED <<front, buffer1, buffer2, buffers_to_write, thread, world, at, lines>>

\* Mutant: buffer2 is not given back.
recycle_one ==
    LET size == Len(buffers_to_write)
        kept == SubSeq(buffers_to_write, 1, IF size > 2 THEN 2 ELSE size)
    IN  /\ at = "write" /\ pos = Len(buffers_to_write) /\ at' = "test"
        /\ buffer1' = reset(Last(kept))
        /\ buffers_to_write' = <<>> /\ pos' = 0
        /\ output' = flush(output, disk_full)
        /\ UNCHANGED <<front, buffer2, written, thread, world, lines>>

\* The end of an iteration: two of the written buffers are kept, buffer1 and
\* buffer2 taken back from them, the rest freed, and the file is flushed.
recycle ==
    LET size == Len(buffers_to_write)
        kept == SubSeq(buffers_to_write, 1, IF size > 2 THEN 2 ELSE size)
        rest == IF buffer1 = nullptr THEN Front(kept) ELSE kept
    IN  /\ at = "write" /\ pos = Len(buffers_to_write) /\ at' = "test"
        /\ buffer1' = IF buffer1 = nullptr THEN reset(Last(kept)) ELSE buffer1
        /\ buffer2' = IF buffer2 = nullptr THEN reset(Last(rest)) ELSE buffer2
        /\ buffers_to_write' = <<>> /\ pos' = 0
        /\ output' = flush(output, disk_full)
        /\ UNCHANGED <<front, written, thread, world, lines>>

-----------------------------------------------------------------------------
(* Time and the disk (external).                                           *)

tick ==
    /\ now < MaxTime /\ now' = now + 1
    /\ UNCHANGED <<front, local, thread, sets, disk_full, faults, at, output, lines>>

clock_set_back ==
    /\ sets < MaxSets /\ now > 1
    /\ now' = now - 1 /\ sets' = sets + 1
    /\ UNCHANGED <<front, local, thread, disk_full, faults, at, output, lines>>

\* fwrite, fflush and fclose meet a full disk, all of them in these two places:
\* it does not matter when the disk fills before.
disk_fills ==
    /\ faults < MaxFaults /\ ~disk_full /\ at \in {"write", "test"}
    /\ disk_full' = TRUE /\ faults' = faults + 1
    /\ UNCHANGED <<front, local, thread, now, sets, at, output, lines>>

disk_freed ==
    /\ disk_full /\ disk_full' = FALSE
    /\ UNCHANGED <<front, local, thread, now, sets, faults, at, output, lines>>

-----------------------------------------------------------------------------
ThreadStep == thread_begin \/ loop_test \/ lock \/ wakeup \/ write_buffer \/ recycle

Next ==
    \/ log_append \/ start \/ stop \/ join
    \/ ThreadStep
    \/ tick \/ clock_set_back \/ disk_fills \/ disk_freed

Spec == Init /\ [][Next]_vars

\* The thread runs, wait_for ends after three seconds at the latest, and a join
\* whose thread has ended returns.  While the disk is full nothing is promised.
Fairness == WF_vars(~disk_full /\ ThreadStep) /\ WF_vars(join)

FairSpec == Spec /\ Fairness

-----------------------------------------------------------------------------
(* Properties.                                                             *)

\* append, thread_func: the thread finds the buffers it has to give back.
\* buffers_to_write.back() is never called on an empty vector, and buffer1 is
\* there for the next exchange.
BuffersGoRound ==
    /\ at \in {"test", "lock", "wait"} => buffer1 # nullptr /\ buffer2 # nullptr
    /\ next_buffer_ = nullptr => buffers_ # <<>>
    /\ at = "write" =>
        Len(buffers_to_write) >= Cardinality({b \in {1, 2} : <<buffer1, buffer2>>[b] = nullptr})

\* The buffers that hold lines, in the order in which they are written: those of
\* the thread, the full ones and the current one.
Held == buffers_to_write \o Append(buffers_, current_buffer_)

\* The units that stdio was not given yet, by buffer and index.
Waiting == {w \in (DOMAIN Held) \X (1 .. BufferSize) :
                w[1] > pos /\ w[2] <= Held[w[1]].cur /\ (w[1] = pos + 1 => w[2] > written)}

Line(w) == Held[w[1]].data[w[2]]
Before(v, w) == v[1] < w[1] \/ (v[1] = w[1] /\ v[2] < w[2])

\* append, the exchange of buffers and their reuse: every line was handed to
\* fwrite or waits in a buffer, in one place and in the order of the calls; those
\* handed to fwrite were called for before those that wait, and handed over in
\* that order.  (Buffers are written whole, so that lines from their last use are
\* written again.  What stdio then does is LinesAreWritten's.)
NoLineLost ==
    /\ output.stored \cup {Line(w) : w \in Waiting} = 1 .. lines
    /\ \A v, w \in Waiting : Before(v, w) => Line(v) < Line(w)
    /\ \A k \in output.stored, w \in Waiting : k < Line(w)
    /\ output.in_order

\* The lines that were written to the files and not only to stdio's buffer.
OnDisk == output.stored \ (output.held \cup output.doubtful)

\* stop(): what was logged before it is in the files when it returns, if the
\* thread was about to exchange the buffers at that time, but for lines that a
\* full disk put in doubt.  (If it was writing, or at the head of its loop, what
\* came after the last exchange is lost.)
StopSavesLines ==
    owner = "stopped" /\ at_stop.at \in {"lock", "wait"}
        => 1 .. at_stop.lines \subseteq OnDisk \cup output.doubtful

\* append_in_lock: after midnight fewer than check_every_n_ writes in a row go to
\* the file of the day before.
DaysSeparated == output.strays < CheckEveryN

\* Every line is written and flushed to the file, unless the disk refused a
\* write while stdio held the line (File_Util looks neither at fflush nor at
\* fclose, so such a line may be lost), the logging is stopped, or the disk stays
\* full: then File_Util::append may never give up.
LinesAreWritten ==
    []<>~disk_full =>
        \A k \in 1 .. MaxLines :
            (lines >= k /\ at # "none")
                ~> (k \in OnDisk \/ k \in output.doubtful \/ ~running_)
=============================================================================
