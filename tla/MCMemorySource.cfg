\* Instants are bounded by MaxTime = 10; i64 is scaled down to seven bits.
CONSTANTS
  IntMin <- MCIntMin
  IntMax = 63
  MaxTime = 10
  NoAt = NoAt
  NoWidth = NoWidth
  Stores <- MCStores
  Queries <- MCQueries
  Layouts <- MCLayouts
SPECIFICATION Spec
CHECK_DEADLOCK FALSE
INVARIANTS
  EachStepInOneBlock
  StreamOrder
