\* Two units of work and two turns a poll, two rows an update, two samples a
\* batch.  A run stops when its stream has ended.
CONSTANTS
  BatchSamples = 2
  InputRows = 2
  WorkUnits = 2
  Turns = 2
  MaxSamples = 3
  CloseWork = 3
  None = None
  Inputs <- MCInputs
SPECIFICATION Spec
CHECK_DEADLOCK FALSE
INVARIANTS
  TypeOK
  BatchesAreBounded
  SleepsSafely
  EndsReleased
  ReservationCoversHeld
PROPERTIES
  RowsInOrder
