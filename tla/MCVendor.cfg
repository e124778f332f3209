CONSTANTS
  Terminals <- MCTerminals
  Sets <- MCSets
  GrammarSet = "parser"
  Setups <- MCSetups
SPECIFICATION Spec
INVARIANTS GreenIsOneRevision PullLands NothingIsLost GeneratedIsClosed SameLanguage
CHECK_DEADLOCK FALSE
