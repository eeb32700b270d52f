SPECIFICATION MCFairSpec
CONSTANTS
  p1 = p1
  p2 = p2
  Producers = {p1, p2}
  Capacity = 2
  CounterModulus = 16
  MaxCalls = 2
  MaxTotal = 4
  Faults = {}
  QueueCapacity = 1
  ReadBatch = 2
  Endings = {}
CHECK_DEADLOCK FALSE
INVARIANTS NoLostWakeup
PROPERTIES EventuallyRendered
