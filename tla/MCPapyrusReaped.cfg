\* Two scripts, called twice in all.
SPECIFICATION Spec
CONSTANTS
  Script = {s1, s2}
  Times = {1, 4}
  TopN = 1
  MaxCalls = 2
PROPERTY Reaped
\* The calls are bounded.
CHECK_DEADLOCK FALSE
