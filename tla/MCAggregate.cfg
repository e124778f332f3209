CONSTANTS
  IntMin <- MCIntMin
  IntMax <- MCIntMax
  Byte = 2
  P1 = P1
  P2 = P2
  Partials <- MCPartials
  Final = Final
  None = None
  Scenarios <- MCScenarios
SPECIFICATION Spec
INVARIANTS
  EachSampleOnce ArrivalOrder SpansStayLean FailsOnlyMalformed
CHECK_DEADLOCK FALSE
