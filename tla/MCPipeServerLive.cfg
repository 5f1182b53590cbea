\* One instance: the second client connects when the first one's is reclaimed.
SPECIFICATION Spec
CONSTANTS
  MaxSessions = 2
  MaxRecords = 1
  HighWatermark = 1
  MaxInstances = 1
  CountSpan = 4
PROPERTIES
  Delivered
  InstanceReclaimed
  StopReturns
  LockReleased
\* Stop ends every thread.
CHECK_DEADLOCK FALSE
