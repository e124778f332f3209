CONSTANTS
  Steps = {1, 2, 3}
  Partials = {"p", "q"}
  None = None
  NaN = NaN
  Queries <- MCQueries
SPECIFICATION Spec
INVARIANTS AnswersTheInput
CHECK_DEADLOCK FALSE
