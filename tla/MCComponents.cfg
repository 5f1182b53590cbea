\* Each component with the bounds at which its cases occur.
SPECIFICATION PartsSpec
CONSTANTS
  Parts = {"frame", "papyrus", "loops", "cells", "pressure", "state", "hooks", "load",
           "panels", "recorder"}
  Subsystems <- MCSubsystems
  Streaming = "streaming"
  Reader = {r1, r2}
  kWindow = 3
  Durations = {1, 4}
  Ratio = 5
  MinFrame = 2
  MaxFrames = 5
  MaxAdded = 2
  Script = {s1, s2}
  Times = {1, 4}
  TopN = 1
  MaxCalls = 4
  Loop = {"memory"}
  Deadlines <- MCDeadlines
  Period <- MCPeriod
  MaxClock = 6
  Cell = {1, 2, 3}
  NameOf <- MCNameOf
  MaxCellEvents = 5
  Span32 = 4
  Span64 = 16
  MaxFaults = 3
  MaxStates = 4
  MaxTasks = 2
  Order <- MCOrder
  Checked = {"havok", "ai"}
  Counted = {"havok", "ai", "papyrus", "streaming"}
  Site = {a1, a2}
  Options = {"recorder", "memory", "events"}
  Client = {v1, v2}
  MaxCommands = 2
  MaxQueue = 2
  Rec <- MCRec
  TypeOf <- MCTypeOf
  TimeOf <- MCTimeOf
  SizeOf <- MCSizeOf
  RatioOf <- MCRatioOf
  ScriptsOf <- MCScriptsOf
  Diets <- MCDiets
  RingCap = 2
  MaxIngested = 3
  MaxSlices = 2
  MaxOpens = 2
  MaxTime = 3
  MaxRecords = 2
  PinNames = {save}
  Window = 2
  KeepRotations = 2
  Absent = Absent
INVARIANTS
  PartsTypeOK
  NothingCountedTwice
  
  SlowIsNoStutter
  
  NoCatchUp
  
  
  SnapshotIsOneState
  
  
  DetailsAreClicked
  PieIsWhole
  
PROPERTY PinIsWindow
\* Most components come to an end, or to a bound.
CHECK_DEADLOCK FALSE
