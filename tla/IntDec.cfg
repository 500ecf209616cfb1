SPECIFICATION FairSpec
CONSTANTS
  Text = {a, b}
  MaxVals = 2
  MaxLines = 5
  None = None
INVARIANTS
  TypeOK
  FieldInEvent
  MessageNamesLine
  RoundTrip
PROPERTIES
  ImplementsStream
  Returns
CHECK_DEADLOCK FALSE
