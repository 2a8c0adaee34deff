----------------------------- MODULE AsyncLogging -----------------------------
(***************************************************************************)
(* AsyncLogging: the threads of the server append log records to a buffer  *)
(* in memory, one logging thread writes the filled buffers to the file.    *)
(* Four large buffers circulate: currentBuffer_ and nextBuffer_ on the     *)
(* side of the callers, newBuffer1 and newBuffer2 on the side of the       *)
(* logging thread.  append() is one critical section; so is the whole body *)
(* of the thread's loop, the writing included, except for the time it      *)
(* spends in wait_for().  The file behind it is the LogFile of module      *)
(* Logging; here it is only what has been handed to it.                    *)
(*                                                                         *)
(* The i-th record that is appended is i; each takes one unit of a buffer. *)
(***************************************************************************)
EXTENDS Naturals, Sequences, SequencesExt

CONSTANTS BufferSize,   \* bufferSize of LargeBuffer, in records
          MaxRecords,   \* bound: records appended in a behaviour
          Null          \* a unique_ptr that owns nothing

ASSUME LoggingAssumption == /\ BufferSize \in Nat /\ BufferSize > 1
                            /\ MaxRecords \in Nat
                            /\ Null \notin Seq(Nat)

VARIABLES
  running_,
  currentBuffer_, nextBuffer_, buffers_,   \* guarded by mutex_
  newBuffer1, newBuffer2,                  \* locals of threadFunc()
  buffersToWrite, at,                      \* the vector and the loop over it
  pc,           \* where the logging thread is; in "write" it has the mutex
  file,         \* what it has written
  logged,       \* history: records appended
  loggedAtStop  \* history: records appended when stop() was called

buffers == <<currentBuffer_, nextBuffer_, buffers_, newBuffer1, newBuffer2,
             buffersToWrite, at>>
vars == <<running_, buffers, pc, file, logged, loggedAtStop>>

Init ==
  /\ running_ = FALSE
  /\ currentBuffer_ = <<>> /\ nextBuffer_ = <<>> /\ buffers_ = <<>>
  /\ newBuffer1 = <<>> /\ newBuffer2 = <<>>
  /\ buffersToWrite = <<>> /\ at = 1
  /\ pc = "unstarted"
  /\ file = <<>>
  /\ logged = 0
  /\ loggedAtStop = 0

-----------------------------------------------------------------------------
\* FixedBuffer::valid(1) and reset().
Valid(b) == BufferSize - Len(b) > 1

\* A buffer that is used again with its old contents.
ResetForgotten(b) == b

Reset(b) == <<>>

\* append() that takes the next buffer without keeping the full one.
AppendRecordDropsFull ==
  /\ pc # "write"
  /\ logged < MaxRecords
  /\ logged' = logged + 1
  /\ \/ /\ Valid(currentBuffer_)
        /\ currentBuffer_' = Append(currentBuffer_, logged + 1)
        /\ UNCHANGED <<nextBuffer_, buffers_>>
     \/ /\ ~Valid(currentBuffer_)
        /\ currentBuffer_' = <<logged + 1>>
        /\ nextBuffer_' = Null
        /\ UNCHANGED buffers_
  /\ UNCHANGED <<running_, newBuffer1, newBuffer2, buffersToWrite, at, pc, file, loggedAtStop>>

\* append(): into the current buffer, or into the next (or a new) one when
\* the current one is full.
AppendRecord ==
  /\ pc # "write"
  /\ logged < MaxRecords
  /\ logged' = logged + 1
  /\ \/ /\ Valid(currentBuffer_)
        /\ currentBuffer_' = Append(currentBuffer_, logged + 1)
        /\ UNCHANGED <<nextBuffer_, buffers_>>
     \/ /\ ~Valid(currentBuffer_)
        /\ buffers_' = Append(buffers_, currentBuffer_)
        /\ currentBuffer_' = IF nextBuffer_ # Null THEN Append(nextBuffer_, logged + 1)
                                                   ELSE <<logged + 1>>
        /\ nextBuffer_' = Null
  /\ UNCHANGED <<running_, newBuffer1, newBuffer2, buffersToWrite, at, pc, file, loggedAtStop>>

Start ==
  /\ pc = "unstarted"
  /\ running_' = TRUE
  /\ pc' = "check"
  /\ UNCHANGED <<buffers, file, logged, loggedAtStop>>

Stop ==
  /\ running_
  /\ running_' = FALSE
  /\ loggedAtStop' = logged
  /\ UNCHANGED <<buffers, pc, file, logged>>

-----------------------------------------------------------------------------
(***************************************************************************)
(* threadFunc().  Collect is what follows wait_for(): the current buffer   *)
(* joins the full ones, spares take its place and the callers' vector is   *)
(* swapped with the empty one.  Then the buffers are written one by one,   *)
(* and the spares are refilled from the last of the first two of them.     *)
(***************************************************************************)
Collect ==
  /\ buffersToWrite' = Append(buffers_, currentBuffer_)
  /\ buffers_' = buffersToWrite
  /\ currentBuffer_' = newBuffer1
  /\ newBuffer1' = Null
  /\ nextBuffer_' = IF nextBuffer_ = Null THEN newBuffer2 ELSE nextBuffer_
  /\ newBuffer2' = IF nextBuffer_ = Null THEN Null ELSE newBuffer2
  /\ pc' = "write"
  /\ UNCHANGED <<running_, at, file, logged, loggedAtStop>>

\* while(running_), lock, and no wait when there are full buffers.
CheckRunning ==
  /\ pc = "check"
  /\ running_
  /\ \/ /\ buffers_ = <<>>
        /\ pc' = "wait"
        /\ UNCHANGED <<running_, buffers, file, logged, loggedAtStop>>
     \/ /\ buffers_ # <<>>
        /\ Collect

\* An untimed wait() with a predicate that only looks for full buffers.
WaitForFull ==
  /\ pc = "wait"
  /\ buffers_ # <<>>
  /\ Collect

\* wait_for() returns: notified, after flushInterval_, or spuriously.
WaitReturns ==
  /\ pc = "wait"
  /\ Collect

\* output.append() of the next buffer.
WriteBuffer ==
  /\ pc = "write"
  /\ at <= Len(buffersToWrite)
  /\ file' = file \o buffersToWrite[at]
  /\ at' = at + 1
  /\ UNCHANGED <<running_, currentBuffer_, nextBuffer_, buffers_, newBuffer1,
                 newBuffer2, buffersToWrite, pc, logged, loggedAtStop>>

\* All are written: the spares are refilled, the mutex is released.
Refill ==
  LET kept == SubSeq(buffersToWrite, 1,
                IF Len(buffersToWrite) > 2 THEN 2 ELSE Len(buffersToWrite))
      left == SubSeq(kept, 1, Len(kept) - 1)
  IN  /\ pc = "write"
      /\ at > Len(buffersToWrite)
      /\ newBuffer1' = Reset(kept[Len(kept)])
      /\ newBuffer2' = CASE newBuffer2 # Null -> newBuffer2
                         [] newBuffer2 = Null /\ left # <<>> -> Reset(left[Len(left)])
                         [] newBuffer2 = Null /\ left = <<>> -> Null
      /\ buffersToWrite' = <<>>
      /\ at' = 1
      /\ pc' = "check"
      /\ UNCHANGED <<running_, currentBuffer_, nextBuffer_, buffers_, file,
                     logged, loggedAtStop>>

\* The loop is left after stop().
Finish ==
  /\ pc = "check"
  /\ ~running_
  /\ pc' = "done"
  /\ UNCHANGED <<running_, buffers, file, logged, loggedAtStop>>

ThreadFunc == CheckRunning \/ WaitReturns \/ WriteBuffer \/ Refill \/ Finish

Next == AppendRecord \/ Start \/ Stop \/ ThreadFunc

Safety == Init /\ [][Next]_vars

\* The logging thread is scheduled, and its wait ends after flushInterval_.
Spec == Safety /\ WF_vars(ThreadFunc)

-----------------------------------------------------------------------------
TypeOK ==
  /\ running_ \in BOOLEAN
  /\ currentBuffer_ \in Seq(Nat)
  /\ nextBuffer_ \in Seq(Nat) \cup {Null}
  /\ buffers_ \in Seq(Seq(Nat))
  /\ newBuffer1 \in IF pc = "write" THEN {Null} ELSE Seq(Nat)
  /\ newBuffer2 \in IF pc = "write" THEN Seq(Nat) \cup {Null} ELSE Seq(Nat)
  /\ buffersToWrite \in Seq(Seq(Nat))
  /\ at \in 1..(Len(buffersToWrite) + 1)
  /\ pc \in {"unstarted", "check", "wait", "write", "done"}
  /\ logged \in 0..MaxRecords
  /\ loggedAtStop \in 0..MaxRecords

(* The thread never takes a spare buffer from an empty vector, and thus     *)
(* never hands an empty pointer on: when append() has used up nextBuffer_,  *)
(* there is a full buffer besides the current one to replace newBuffer2.    *)
SpareAvailable ==
  /\ nextBuffer_ = Null => buffers_ # <<>>
  /\ pc = "write" => Len(buffersToWrite) >= IF newBuffer2 = Null THEN 2 ELSE 1

(* No record is lost, duplicated or reordered: the file, the buffers being  *)
(* written, the full ones and the current one hold, in this order, all      *)
(* records appended.                                                        *)
RecordsInOrder ==
  file \o FlattenSeq(SubSeq(buffersToWrite, at, Len(buffersToWrite)))
       \o FlattenSeq(buffers_) \o currentBuffer_ = [i \in 1..logged |-> i]

(* While the logging runs, every record reaches the file: again and again   *)
(* the thread catches up with all that has been appended.                   *)
RecordsReachFile ==
  (running_ /\ Len(file) < logged) ~> (Len(file) = logged \/ ~running_)

(* stop() ends the logging thread.                                          *)
StopEndsThread == (pc # "unstarted" /\ ~running_) ~> (pc = "done")

(* When the thread ends, every record appended before stop() is in the      *)
(* file.                                                                    *)
AllWrittenAtEnd == pc = "done" => Len(file) >= loggedAtStop
=============================================================================
