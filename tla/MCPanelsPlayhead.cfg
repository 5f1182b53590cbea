\* Two sources in turn.
SPECIFICATION PanelsSpec
CONSTANTS
  Rec <- MCRec
  TypeOf <- MCTypeOf
  TimeOf <- MCTimeOf
  SizeOf <- MCSizeOf
  RatioOf <- MCRatioOf
  ScriptsOf <- MCScriptsOf
  Diets <- MCDiets
  RingCap = 2
  MaxIngested = 3
  MaxSlices = 2
  MaxOpens = 2
INVARIANT PlayheadOfFile
\* What is ingested and opened is bounded.
CHECK_DEADLOCK FALSE
