------------------------------- MODULE LogFile -------------------------------
(***************************************************************************)
(* LogFile and FileUtil: the logging thread's output.  A LogFile writes to *)
(* one file after the other: a file that has grown over rollsize_, or that *)
(* was begun on an earlier day, is closed and a new one, named after the   *)
(* second it was opened in, takes its place.  Days are looked at only once *)
(* in checkEveryN_ appends.  What is written goes through the buffer of    *)
(* stdio and is on the disk after an fflush() or fclose().                 *)
(*                                                                         *)
(* The clock is that of the system: it runs on, and may be set back, between *)
(* any two readings, also between the two calls of time() in one append(). *)
(* It appears only where it is read.                                       *)
(*                                                                         *)
(* A chunk is a sequence of records, each of which counts as one byte.     *)
(* That two seconds may have the same local time, and thus the same file   *)
(* name, is left out.                                                      *)
(***************************************************************************)
EXTENDS Naturals, Sequences, SequencesExt

CONSTANTS RollSize,          \* rollsize_
          FlushInterval,     \* flushInterval_
          CheckEveryN,       \* checkEveryN_
          KRollPerSeconds_,  \* seconds in a day (24*60*60)
          MaxTime,           \* bound: the last second of the clock
          MaxSetbacks,       \* bound: how often the clock is set back
          MaxFailures        \* bound: writes that the disk refuses

ASSUME LogFileAssumption == /\ RollSize \in Nat /\ FlushInterval \in Nat
                            /\ CheckEveryN \in Nat \ {0}
                            /\ KRollPerSeconds_ \in Nat \ {0}
                            /\ MaxTime \in Nat /\ MaxTime > 0
                            /\ MaxSetbacks \in Nat /\ MaxFailures \in Nat

VARIABLES
  now,       \* what time(NULL) returned last
  setbacks,  \* history: how often the clock was set back
  output     \* the LogFile, with the files it has closed

logFileVars == <<now, setbacks, output>>

(***************************************************************************)
(* A file: its name, its contents, writtenBytes_, how much of the contents *)
(* is on the disk for sure; and, as history, the number of appends on a    *)
(* later day than its first, and the time of the oldest append that may    *)
(* not be on the disk.  Of a closed file only the first three are kept.    *)
(***************************************************************************)
FileUtil(t) == [name |-> t, data |-> <<>>, writtenBytes_ |-> 0, flushed |-> 0,
                late |-> 0, oldest |-> t]

Closed(f) == [name |-> f.name, data |-> f.data, writtenBytes_ |-> f.writtenBytes_]

\* The LogFile before the rollFile() of its constructor; lost and failures
\* are history: the records that the disk refused, and how often it did.
NoFile == [closed |-> <<>>, file_ |-> FileUtil(0), count_ |-> 0,
           startOfPeriod_ |-> 0, lastRoll_ |-> 0, lastFlush_ |-> 0,
           lost |-> {}, failures |-> 0]

LogFileInit == now = 0 /\ setbacks = 0 /\ output = NoFile

\* Counts of appends are only compared with checkEveryN_ and stop above it.
Counted(n) == IF n > CheckEveryN THEN n ELSE n + 1

PeriodOf(t) == (t \div KRollPerSeconds_) * KRollPerSeconds_

-----------------------------------------------------------------------------
\* FileUtil::flush().
FlushOutput(o) == [o EXCEPT !.file_.flushed = Len(o.file_.data)]

\* rollFile() that may open the file of the present second again.
RollFileAgain(o, t) ==
  IF t >= o.lastRoll_
  THEN [o EXCEPT !.lastFlush_ = t, !.lastRoll_ = t, !.startOfPeriod_ = PeriodOf(t),
                 !.closed = IF o.lastRoll_ = 0 THEN @ ELSE Append(@, Closed(o.file_)),
                 !.file_ = FileUtil(t)]
  ELSE o

\* rollFile() that does not note the day of the new file.
RollFileKeepsPeriod(o, t) ==
  IF t > o.lastRoll_
  THEN [o EXCEPT !.lastFlush_ = t, !.lastRoll_ = t,
                 !.closed = IF o.lastRoll_ = 0 THEN @ ELSE Append(@, Closed(o.file_)),
                 !.file_ = FileUtil(t)]
  ELSE o

\* rollFile() at time t: never two files in a second, nor one in the past.
RollFile(o, t) ==
  IF t > o.lastRoll_
  THEN [o EXCEPT !.lastFlush_ = t, !.lastRoll_ = t, !.startOfPeriod_ = PeriodOf(t),
                 !.closed = IF o.lastRoll_ = 0 THEN @ ELSE Append(@, Closed(o.file_)),
                 !.file_ = FileUtil(t)]
  ELSE o

\* FileUtil::append() that starts a chunk again after a failed write.
FileAppendAgain(o, chunk, n, t) ==
  [o EXCEPT !.file_.data = @ \o SubSeq(chunk, 1, n) \o (IF n < Len(chunk) THEN chunk ELSE <<>>),
            !.file_.writtenBytes_ = @ + Len(chunk),
            !.file_.oldest = IF o.file_.flushed = Len(o.file_.data) THEN t ELSE @,
            !.file_.late = IF PeriodOf(t) > o.startOfPeriod_ THEN Counted(@) ELSE @,
            !.failures = IF n < Len(chunk) THEN @ + 1 ELSE @]

\* FileUtil::append(): the disk takes n records of the chunk; when it refuses
\* the rest the loop is left, and writtenBytes_ does not count the n.
FileAppend(o, chunk, n, t) ==
  LET rest == SubSeq(chunk, n + 1, Len(chunk)) IN
  [o EXCEPT !.file_.data = @ \o SubSeq(chunk, 1, n),
            !.file_.writtenBytes_ = IF rest = <<>> THEN @ + n ELSE @,
            !.file_.oldest = IF o.file_.flushed = Len(o.file_.data) THEN t ELSE @,
            !.file_.late = IF PeriodOf(t) > o.startOfPeriod_ THEN Counted(@) ELSE @,
            !.lost = @ \cup Range(rest),
            !.failures = IF rest = <<>> THEN @ ELSE @ + 1]

\* The tests for a new file, in the wrong order.
CheckRollDayFirst(o, t, later) ==
  LET counted == [o EXCEPT !.count_ = Counted(@)] IN
  CASE counted.count_ >= CheckEveryN ->
         IF PeriodOf(t) # o.startOfPeriod_
         THEN RollFile([counted EXCEPT !.count_ = 0], later)
         ELSE [counted EXCEPT !.count_ = 0]
    [] counted.count_ < CheckEveryN /\ o.file_.writtenBytes_ > RollSize ->
         RollFile(counted, later)
    [] OTHER -> counted

\* The appends are counted from every file's first.
CheckRollRecounts(o, t, later) ==
  LET counted == [o EXCEPT !.count_ = Counted(@)] IN
  CASE o.file_.writtenBytes_ > RollSize -> RollFile([counted EXCEPT !.count_ = 0], later)
    [] o.file_.writtenBytes_ <= RollSize /\ counted.count_ > CheckEveryN ->
         IF PeriodOf(t) # o.startOfPeriod_
         THEN RollFile([counted EXCEPT !.count_ = 0], later)
         ELSE [counted EXCEPT !.count_ = 0]
    [] OTHER -> counted

\* The two reasons to call rollFile(): the size, and every checkEveryN_ appends
\* another day than the file's.
RollIsDue(o, t) == \/ o.file_.writtenBytes_ > RollSize
                   \/ Counted(o.count_) >= CheckEveryN /\ PeriodOf(t) # o.startOfPeriod_

\* ++count_, which the test of the day resets; later is rollFile()'s own time().
CheckRoll(o, t, later) ==
  LET looks == o.file_.writtenBytes_ <= RollSize /\ Counted(o.count_) >= CheckEveryN
      counted == [o EXCEPT !.count_ = IF looks THEN 0 ELSE Counted(@)]
  IN  IF RollIsDue(o, t) THEN RollFile(counted, later) ELSE counted

\* The flush is noted but not made.
CheckFlushOnlyNotes(o, t) ==
  IF t > o.lastFlush_ + FlushInterval THEN [o EXCEPT !.lastFlush_ = t] ELSE o

CheckFlush(o, t) ==
  IF t > o.lastFlush_ + FlushInterval
  THEN FlushOutput([o EXCEPT !.lastFlush_ = t]) ELSE o

-----------------------------------------------------------------------------
\* A reading that is smaller than the one before: the clock was set back.
Back(before, t) == IF t < before THEN 1 ELSE 0

\* The clock is read as t and then as later (or not read again).
Reads(t, later) == /\ now' = later
                   /\ setbacks' = setbacks + Back(now, t) + Back(t, later)
                   /\ setbacks' <= MaxSetbacks

\* The constructor; the clock is past the epoch.
Open == \E t \in 1..MaxTime : /\ Reads(t, t)
                              /\ output' = RollFile(output, t)

\* append(), with appendInLock(), which reads the clock behind the write, and
\* rollFile(), which reads it again, whatever it shows by then.
AppendChunk(chunk) ==
  \E t, later \in 1..MaxTime, n \in 0..Len(chunk) :
    LET written == FileAppend(output, chunk, n, t) IN
    /\ n < Len(chunk) => output.failures < MaxFailures
    /\ ~RollIsDue(written, t) => later = t
    /\ Reads(t, later)
    /\ output' = CheckFlush(CheckRoll(written, t, later), t)

FlushAll == /\ output' = FlushOutput(output)
            /\ UNCHANGED <<now, setbacks>>

-----------------------------------------------------------------------------
Files == Append(output.closed, output.file_)
Stored == FlattenSeq([i \in 1..Len(Files) |-> Files[i].data])

(* A file is never opened a second time, whatever the clock does: their     *)
(* names increase.                                                          *)
FreshFiles ==
  \A i \in 1..(Len(Files) - 1) : Files[i].name < Files[i + 1].name

(* writtenBytes_, by which the code judges the size of the file, is over    *)
(* rollsize_ only as long as rollFile() has not seen a second after the one *)
(* the file was opened in: then the file is closed at once, also when the   *)
(* clock was set back in between.  (What a refused write left in the file   *)
(* is not in writtenBytes_.)                                                *)
SizeBound ==
  output.file_.writtenBytes_ > RollSize => now <= output.lastRoll_

(* With a clock that is not set back, a file takes fewer than checkEveryN_  *)
(* appends of a later day than the one it was opened on; the next closes    *)
(* it.                                                                      *)
DayBound == setbacks = 0 => output.file_.late < CheckEveryN

(* With a clock that is not set back, a file is closed only because it is   *)
(* over its size or a new day has begun, although the day is decided by one *)
(* reading of the clock and the new file named and dated by another.        *)
RollsForAReason ==
  [][\A i \in 1..Len(output'.closed) :
       setbacks' = 0 /\ i > Len(output.closed) /\ output.lastRoll_ > 0 =>
         \/ output'.closed[i].writtenBytes_ > RollSize
         \/ PeriodOf(output'.lastRoll_) # PeriodOf(output.lastRoll_)]_output

(* With a clock that is not set back, no append() leaves anything in the    *)
(* buffer of stdio that came more than flushInterval_ before it, whichever  *)
(* of its readings of the clock came last.                                  *)
FlushLag ==
  setbacks = 0 /\ output.file_.flushed < Len(output.file_.data)
    => now <= output.file_.oldest + FlushInterval
=============================================================================
