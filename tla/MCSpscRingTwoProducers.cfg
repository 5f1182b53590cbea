\* Two threads submit, as writer_thread.h allows.
SPECIFICATION Spec
CONSTANTS
  Capacity <- SmallCapacity
  IndexSpan <- SmallIndexSpan
  Producers = {p1, p2}
  Records = {r1, r2}
  Empty = Empty
PROPERTY ImplementsQueue
