\* One record before the crash, and the handler's.
SPECIFICATION Spec
CONSTANTS
  MaxRecords = 2
  Capacity = 2
  MaxTime = 1
  PinNames = {}
  Window = 1
  KeepRotations = 1
  Absent = Absent
INVARIANT CrashRecordOnDisk
\* Stop ends the thread, and the records are bounded.
CHECK_DEADLOCK FALSE
