SPECIFICATION FairSpec
CONSTANTS
  Threads = {t1, t2, t3}
  MaxQueue = 2
  MaxRecords = 4
INVARIANTS
  LogIsContiguous
  AckedIsDurable
  Answered
  NoLostWakeup
PROPERTY Drains
CHECK_DEADLOCK FALSE
