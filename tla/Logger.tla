-------------------------------- MODULE Logger --------------------------------
(***************************************************************************)
(* One log statement: Logger, LogStream and the 4 KB FixedBuffer.  A       *)
(* thread constructs a Logger, streams fields into it and destroys it; the *)
(* destructor ends the record and gives it to g_output, and a FATAL one    *)
(* flushes and aborts the process.                                         *)
(*                                                                         *)
(* A field is its size, or a number with its digits.  The errno part of    *)
(* the constructor is dead: Logger always passes 0.                        *)
(***************************************************************************)
EXTENDS Integers, Sequences, FiniteSets, SequencesExt

CONSTANTS Threads,     \* threads, each with one log statement
          Texts,       \* sizes of the texts that they stream
          Numbers,     \* int values that they stream
          NameSize,    \* length of the basename of the source file
          Line,        \* line of the statement
          MaxFields    \* bound: fields in a statement

\* The values of an int.
Ints == {n \in Int : -2147483647 - 1 <= n /\ n <= 2147483647}

ASSUME LoggerAssumption == /\ Texts \subseteq Nat
                           /\ Numbers \subseteq Ints
                           /\ NameSize \in Nat /\ MaxFields \in Nat
                           /\ Line \in Nat /\ Line \in Ints

SmallBufferSize == 4096
MaxNumSize == 32

VARIABLES log,         \* log[t]: the Logger of t and its buffer
          sink,        \* sink[t]: where the record of t is
          g_output,    \* what setOutput() has been given, if anything
          aborted      \* the process has ended

vars == <<log, sink, g_output, aborted>>

-----------------------------------------------------------------------------
(***************************************************************************)
(* Fields, and the FixedBuffer as a record: length_, the fields that went  *)
(* in with the characters of the numbers, and the bytes of data_ written   *)
(* so far, a terminating NUL included.                                     *)
(***************************************************************************)
Text(n)   == [kind |-> "text", size |-> n, value |-> 0]
Number(v) == [kind |-> "number", size |-> 0, value |-> v]
Newline   == [kind |-> "newline", size |-> 1, value |-> 0]

EmptyBuffer == [length |-> 0, data |-> <<>>, touched |-> 0]

Valid(b, len) == SmallBufferSize - b.length > len

Larger(m, n) == IF m > n THEN m ELSE n

\* FixedBuffer::append(): all of the field or nothing.
AppendField(b, f) ==
  IF Valid(b, f.size)
  THEN [length  |-> b.length + f.size,
        data    |-> Append(b.data, [field |-> f, chars |-> <<>>]),
        touched |-> Larger(b.touched, b.length + f.size)]
  ELSE b

\* C's division and remainder by ten: they truncate towards zero.
Quotient(n)  == IF n >= 0 \/ n % 10 = 0 THEN n \div 10 ELSE n \div 10 + 1
Remainder(n) == n - 10 * Quotient(n)

\* The loop of formatInteger(): the digits from the last one on.  zero[] is
\* indexed by the remainder, which is negative when the number is.
LowDigitsFirst[n \in Int] ==
  IF n = 0 THEN <<>>
           ELSE LET d == Remainder(n) IN
                <<IF d < 0 THEN -d ELSE d>> \o LowDigitsFirst[Quotient(n)]

\* The character '-' beside the digits 0 to 9.
Minus == 10

\* A loop that stops at the last digit.
CharsStopEarly(n) ==
  LET low == LowDigitsFirst[Quotient(n)] IN
  Reverse(IF n < 0 THEN Append(low, Minus) ELSE low)

\* What formatInteger() leaves after reverse(); no character at all for 0.
Chars(n) ==
  LET low == LowDigitsFirst[n] IN
  Reverse(IF n < 0 THEN Append(low, Minus) ELSE low)

\* formatInteger() without its test for room.
FormatIntegerUnchecked(b, f) ==
  LET chars == Chars(f.value) IN
  [length  |-> b.length + Len(chars),
   data    |-> Append(b.data, [field |-> f, chars |-> chars]),
   touched |-> Larger(b.touched, b.length + Len(chars) + 1)]

\* formatInteger(): writes in place, then a NUL behind the last character.
FormatInteger(b, f) ==
  LET chars == Chars(f.value) IN
  IF Valid(b, MaxNumSize)
  THEN [length  |-> b.length + Len(chars),
        data    |-> Append(b.data, [field |-> f, chars |-> chars]),
        touched |-> Larger(b.touched, b.length + Len(chars) + 1)]
  ELSE b

\* operator<<
Stream(b, f) == IF f.kind = "number" THEN FormatInteger(b, f) ELSE AppendField(b, f)
StreamAll(b, fs) ==
  LET after[i \in 0..Len(fs)] == IF i = 0 THEN b ELSE Stream(after[i - 1], fs[i])
  IN  after[Len(fs)]

\* formatTime() and the level: of the 19 characters of the time the code
\* takes 17; then six digits of microseconds and a space.
Prefix == <<Text(17), Text(7), Text(6)>>

\* The part of the source file's name behind the last slash.
Basename == Text(NameSize)
Suffix == <<Text(3), Basename, Text(1), Number(Line), Newline>>

\* A finish() that puts its text together first and appends it at once.
FinishAtOnce(b) ==
  AppendField(b, [Newline EXCEPT !.size = 3 + NameSize + 1 + Len(Chars(Line)) + 1])

\* A finish() that forgets the line.
FinishWithoutLine(b) == StreamAll(b, <<Text(3), Basename, Newline>>)

Finish(b) == StreamAll(b, Suffix)

-----------------------------------------------------------------------------
NoLog == [at |-> "none", level |-> "none", fields |-> <<>>, buffer |-> EmptyBuffer]

Init == /\ log = [t \in Threads |-> NoLog]
        /\ sink = [t \in Threads |-> "nothing"]
        /\ g_output \in {"defaultOutput", "asyncLog"}
        /\ aborted = FALSE

ThreadAt(t, where) == ~aborted /\ log[t].at = where

\* Logger::Logger() and Impl::Impl().
Construct(t, level) ==
  /\ ThreadAt(t, "none")
  /\ log' = [log EXCEPT ![t] = [at |-> "streams", level |-> level, fields |-> <<>>,
                                buffer |-> StreamAll(EmptyBuffer, Prefix)]]
  /\ UNCHANGED <<sink, g_output, aborted>>

StreamField(t, f) ==
  /\ ThreadAt(t, "streams")
  /\ Len(log[t].fields) < MaxFields
  /\ log' = [log EXCEPT ![t].fields = Append(@, f),
                        ![t].buffer = Stream(@, f)]
  /\ UNCHANGED <<sink, g_output, aborted>>

\* ~Logger() up to the call of g_output, which copies the record.
Output(t) ==
  /\ ThreadAt(t, "streams")
  /\ log' = [log EXCEPT ![t].buffer = Finish(@),
                        ![t].at = IF log[t].level = "FATAL" THEN "flushes" ELSE "done"]
  /\ sink' = [sink EXCEPT ![t] = "buffered"]
  /\ UNCHANGED <<g_output, aborted>>

Written == [t \in Threads |-> IF sink[t] = "buffered" THEN "written" ELSE sink[t]]

\* ~Logger() that aborts without the flush.
FlushForgotten(t) ==
  /\ ThreadAt(t, "flushes")
  /\ log' = [log EXCEPT ![t].at = "aborts"]
  /\ UNCHANGED <<sink, g_output, aborted>>

\* g_flush() of a FATAL record.  main() sets no flush function, so that it is
\* defaultFlush() also when g_output is asyncLog.
Flush(t) ==
  /\ ThreadAt(t, "flushes")
  /\ log' = [log EXCEPT ![t].at = "aborts"]
  /\ sink' = IF g_output = "defaultOutput" THEN Written ELSE sink
  /\ UNCHANGED <<g_output, aborted>>

Abort(t) == /\ ThreadAt(t, "aborts")
            /\ aborted' = TRUE
            /\ UNCHANGED <<log, sink, g_output>>

\* stdio, or the thread of AsyncLogging, writes what it has.
SinkWrites == /\ ~aborted
              /\ \E t \in Threads : sink[t] = "buffered"
              /\ sink' = Written
              /\ UNCHANGED <<log, g_output, aborted>>

Fields == {Text(n) : n \in Texts} \cup {Number(v) : v \in Numbers}

Next == \/ \E t \in Threads :
             \/ \E level \in {"INFO", "FATAL"} : Construct(t, level)
             \/ \E f \in Fields : StreamField(t, f)
             \/ Output(t) \/ Flush(t) \/ Abort(t)
        \/ SinkWrites

Spec == Init /\ [][Next]_vars

-----------------------------------------------------------------------------
\* The value of the digits ds to the base c; their sum if c is 1.
Positional(c, ds) ==
  LET upto[i \in 0..Len(ds)] == IF i = 0 THEN 0 ELSE c * upto[i - 1] + ds[i]
  IN  upto[Len(ds)]

Ended(t) == log[t].at \in {"flushes", "aborts", "done"}

(* Nothing is written behind the 4096 bytes of data_, neither a field nor   *)
(* the NUL that formatInteger() puts behind its digits.                     *)
NoOverrun == \A t \in Threads : log[t].buffer.touched <= SmallBufferSize

(* The characters of every number that went into a record read back as that *)
(* number, the smallest int included, whose negative does not exist; only 0 *)
(* leaves no character.                                                     *)
ReadBack(chars) ==
  LET negative == chars # <<>> /\ chars[1] = Minus
      digits   == IF negative THEN Tail(chars) ELSE chars
      below    == Positional(10, [i \in DOMAIN digits |-> -digits[i]])
  IN  IF negative THEN below ELSE -below
NumbersReadBack ==
  \A t \in Threads : \A e \in Range(log[t].buffer.data) :
    e.field.kind = "number" => /\ ReadBack(e.chars) = e.field.value
                               /\ (e.chars = <<>>) = (e.field.value = 0)

(* A record that leaves the room formatInteger() insists on is complete:    *)
(* time, level, all that was streamed, file, line and newline, in order.    *)
SizeOf(f) == IF f.kind = "number" THEN Len(Chars(f.value)) ELSE f.size
TotalSize(fs) == Positional(1, [i \in DOMAIN fs |-> SizeOf(fs[i])])
CompleteWhenItFits ==
  \A t \in Threads : Ended(t) =>
    LET wanted == Prefix \o log[t].fields \o Suffix
        size   == TotalSize(wanted)
    IN  size + MaxNumSize < SmallBufferSize =>
          /\ log[t].buffer.length = size
          /\ [i \in DOMAIN log[t].buffer.data |-> log[t].buffer.data[i].field] = wanted

(* However much was streamed, a record ends with a newline or it is full:   *)
(* otherwise it would run into the next record of the log.                  *)
NewlineOrFull ==
  \A t \in Threads : Ended(t) =>
    \/ Last(log[t].buffer.data).field.kind = "newline"
    \/ log[t].buffer.length = SmallBufferSize - 1

(* With the default output a FATAL record is written when the process ends, *)
(* whatever other threads log at that time.                                 *)
FatalIsWritten ==
  aborted /\ g_output = "defaultOutput"
    => \E t \in Threads : log[t].level = "FATAL" /\ sink[t] = "written"
=============================================================================
