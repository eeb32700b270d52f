SPECIFICATION MCSpec
CONSTANTS
  p1 = p1
  p2 = p2
  Producers = {p1, p2}
  Capacity = 2
  CounterModulus = 16
  MaxCalls = 3
  MaxTotal = 3
  Faults = {"SetEvent", "Wait"}
  QueueCapacity = 2
  ReadBatch = 2
  Endings = {"Quiescent", "Aborted", "Exited", "Detached"}
SYMMETRY Symmetry
INVARIANTS SessionTypeOK PipelineOrder WakeFlagNeverStuck CleanStopLosesNothing EndRendersAllRead
