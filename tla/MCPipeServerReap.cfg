\* One client, no records.
SPECIFICATION Spec
CONSTANTS
  MaxSessions = 1
  MaxRecords = 0
  HighWatermark = 1
  MaxInstances = 1
  CountSpan = 4
INVARIANT ReapSafe
\* Stop ends every thread.
CHECK_DEADLOCK FALSE
