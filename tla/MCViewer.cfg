\* Every read ends inside a record; two sources in turn.
SPECIFICATION FairSpec
CONSTANTS
  MaxRecords = 2
  FileRecords = 3
  MaxBatch = 1
  MaxBreaks = 1
  MaxSources = 2
  BufSize = 1
  ScratchMax = 2
  DrainMax = 1
  RingCap = 1
  Stutters = {2}
INVARIANTS
  TypeOK
  LostOnlyAfterTear
  StoreIsCurrent
  ClosedOnce
PROPERTIES
  CallsReturn
  Reconnects
  Replayed
\* The viewer exits.
CHECK_DEADLOCK FALSE
