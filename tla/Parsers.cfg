SPECIFICATION Spec
CONSTANTS
  Inputs <- MCInputs
  Terms <- MCTerms
  Width = 64
  None = None
  NoStr = NoStr
INVARIANTS
  TypeOK
  FollowsGrammar
  InString
PROPERTIES
  GetsOn
CHECK_DEADLOCK FALSE
