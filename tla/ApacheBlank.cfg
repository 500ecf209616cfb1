SPECIFICATION Spec
CONSTANTS
  MaxNames = 3
  MaxLen = 4
  MaxLines = 2
  NoStr = NoStr
PROPERTIES
  ValuesHaveStrings
