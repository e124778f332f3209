CONSTANTS
  NaN = 99
  ColumnNames <- MCColumnNames
  Text <- MCText
  Queries <- MCQueries
SPECIFICATION Spec
INVARIANTS RefusedOnDuplicatesOnly AnswerIsInOrder
CHECK_DEADLOCK FALSE
