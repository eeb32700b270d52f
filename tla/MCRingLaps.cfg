SPECIFICATION MCSpec
CONSTANTS
  p1 = p1
  p2 = p2
  Producers = {p1, p2}
  Capacity = 2
  CounterModulus = 3
  MaxCalls = 3
  MaxTotal = 5
  Faults = {"SetEvent", "Kill"}
INVARIANTS TypeOK SlotOwnership SlotDiscipline WholeEvents PerThreadOrder Accounting
PROPERTIES RefinesPipe ProducersNeverWait
