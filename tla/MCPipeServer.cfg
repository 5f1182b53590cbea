\* Two clients connected at once; the second record overflows a buffer of one.
SPECIFICATION Spec
CONSTANTS
  MaxSessions = 2
  MaxRecords = 2
  HighWatermark = 1
  MaxInstances = 2
  CountSpan = 4
INVARIANTS
  TypeOK
  NothingLost
  CountsExact

  
CONSTRAINTS
  NoneStalled
\* Stop ends every thread.
CHECK_DEADLOCK FALSE
