CONSTANTS
  P1 = P1
  P2 = P2
  Partials <- MCPartials
  Schema <- MCSchema
  Name = "__name__"
  Empty = ""
  None = None
  Scenarios <- MCScenarios
SPECIFICATION Spec
INVARIANTS
  AnswersTheRows
CHECK_DEADLOCK FALSE
