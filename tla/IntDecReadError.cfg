SPECIFICATION Spec
CONSTANTS
  Text = {a, b}
  MaxVals = 2
  MaxLines = 4
  None = None
PROPERTIES
  ReadErrorTold
CHECK_DEADLOCK FALSE
