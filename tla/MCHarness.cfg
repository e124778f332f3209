CONSTANTS
  Bad = Bad
  Unknown = Unknown
  Omitted = Omitted
  None = None
  Stale = Stale
  NaN = NaN
  TextS = TextS
  TextT = TextT
  MaxRepeat = 3
  Lookback = 5
  WrongBy = 8
  Precision = 4
  MinPositive = 6
  BaseName <- MCBaseName
  FeatureFlags <- MCFlags
  GatedByFile <- MCGatedByFile
  Setups <- MCSetups
SPECIFICATION Spec
INVARIANTS LinesReadOnce StoreIsWhatWasLoaded VerdictsAreFair TablesAddUp BlessedIsGreen RatchetHolds
PROPERTY DenominatorsHoldStill
CHECK_DEADLOCK FALSE
