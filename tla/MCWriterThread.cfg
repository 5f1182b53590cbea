\* The ring is full after one record; files expire after one tick.
SPECIFICATION Spec
CONSTANTS
  MaxRecords = 3
  Capacity = 1
  MaxTime = 1
  PinNames = {save}
  Window = 1
  KeepRotations = 1
  Absent = Absent
INVARIANTS
  TypeOK
  
  DrainedOnStop
  FilesAreRuns
  
PROPERTY Drained
\* Stop ends the thread, and the records are bounded.
CHECK_DEADLOCK FALSE
