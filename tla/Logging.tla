------------------------------- MODULE Logging -------------------------------
(***************************************************************************)
(* AsyncLogging and the LogFile its thread writes to: which calls of the   *)
(* LogFile the steps of threadFunc() make.                                 *)
(***************************************************************************)
EXTENDS AsyncLogging, LogFile

allVars == <<vars, logFileVars>>

LoggingInit == Init /\ LogFileInit

\* A round that ends without output.flush().
ThreadStepNoFlush ==
  \/ (CheckRunning \/ WaitReturns) /\ UNCHANGED logFileVars
  \/ WriteBuffer /\ AppendChunk(buffersToWrite[at])
  \/ Refill /\ UNCHANGED logFileVars
  \/ Finish /\ FlushAll

ThreadStep ==
  \/ (CheckRunning \/ WaitReturns) /\ UNCHANGED logFileVars
  \/ WriteBuffer /\ AppendChunk(buffersToWrite[at])
  \/ Refill /\ FlushAll
  \/ Finish /\ FlushAll

LoggingNext ==
  \/ (AppendRecord \/ Stop) /\ UNCHANGED logFileVars
  \/ Start /\ Open
  \/ ThreadStep

LoggingSpec == LoggingInit /\ [][LoggingNext]_allVars /\ WF_allVars(ThreadStep)

-----------------------------------------------------------------------------
(* The files, in the order of their names, hold every record that the       *)
(* thread has written, once and in order, except for what the disk refused. *)
FilesHoldLog ==
  Stored = FlattenSeq([i \in 1..Len(file) |->
                         IF file[i] \in output.lost THEN <<>> ELSE <<file[i]>>])

(* Whenever the logging thread is not in the middle of a round, what it has *)
(* written is on the disk: a crash costs only what is still in the buffers. *)
FlushedBetweenRounds ==
  pc # "write" => output.file_.flushed = Len(output.file_.data)
=============================================================================
