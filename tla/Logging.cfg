\* Buffers of two records and files of two; days of two seconds, looked at in
\* every second append; every second is a reason to flush.  The clock may be
\* set back once and the disk may refuse one write.
SPECIFICATION LoggingSpec
CONSTANTS
  BufferSize = 3
  MaxRecords = 5
  Null = Null
  RollSize = 2
  FlushInterval = 0
  CheckEveryN = 2
  KRollPerSeconds_ = 2
  MaxTime = 3
  MaxSetbacks = 1
  MaxFailures = 1
INVARIANTS TypeOK SpareAvailable RecordsInOrder
INVARIANTS FreshFiles SizeBound DayBound FlushLag FilesHoldLog FlushedBetweenRounds
PROPERTIES RollsForAReason RecordsReachFile StopEndsThread
CHECK_DEADLOCK FALSE
