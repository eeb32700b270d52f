SPECIFICATION MCFairSpec
CONSTANTS
  p1 = p1
  p2 = p2
  Producers = {p1, p2}
  Capacity = 2
  CounterModulus = 16
  MaxCalls = 1
  MaxTotal = 2
  Faults = {"SetEvent", "Wait", "Kill"}
  QueueCapacity = 1
  ReadBatch = 1
  Endings = {"Quiescent", "Aborted", "Exited"}
PROPERTIES StopReturns
