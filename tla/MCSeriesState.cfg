\* Two samples an allowance; i64 is scaled down to seven bits.  A run stops
\* when its series is closed.
CONSTANTS
  IntMin <- MCIntMin
  IntMax = 63
  MaxTime = 20
  NoAt = NoAt
  Stale = Stale
  NaN = NaN
  Ingest = 2
  NoTime = NoTime
  Unpinned = Unpinned
  NoSample = NoSample
  Inputs <- MCInputs
  OneStepInputs <- MCOneStepInputs
SPECIFICATION Spec
CHECK_DEADLOCK FALSE
INVARIANTS
  StateInBounds
  HeldIsTheWindow
PROPERTIES
  AnswersInOrder
