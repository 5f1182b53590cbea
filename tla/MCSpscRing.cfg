\* One producer, as the ring's comment requires.
SPECIFICATION Spec
CONSTANTS
  Capacity <- MCCapacity
  IndexSpan <- MCIndexSpan
  Producers = {p1}
  Records = {r1, r2}
  Empty = Empty
INVARIANTS
  TypeOK
  NoSlotRace
  RingInv
PROPERTY ImplementsQueue
