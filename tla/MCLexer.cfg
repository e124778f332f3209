CONSTANTS
  Inputs <- MCInputs
  Keywords <- MCKeywords
  FillWords <- MCFillWords
  Sizes <- MCSizes
  MaxNanos = 999
SPECIFICATION ReadSpec
INVARIANTS TokensTile AcceptedIsBalanced LiteralMeans PrintsBack
PROPERTY Terminates
CHECK_DEADLOCK FALSE
