\* Queries may be refused at any stage, so every one of them stops.
CONSTANTS
  NaN = NaN
  NoAt = NoAt
  IntMin <- MCIntMin
  IntMax = 127
  MaxTime = 42
  MaxSteps = 5
  DefaultLookback = 2
  MinuteLength = 2
  HourLength = 3
  LabelNames <- MCLabelNames
  NamesIn <- MCNamesIn
  Inputs <- MCInputs
  Store <- MCStore
  Asks <- MCAsks
SPECIFICATION Spec
CHECK_DEADLOCK FALSE
INVARIANTS AcceptedIsEnabled AskedOnlyForSoundQueries PlanAnswersTheExpression GroupingNamesWhatIsRead
