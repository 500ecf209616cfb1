SPECIFICATION Spec
CONSTANTS
  MaxNames = 3
  MaxLen = 4
  MaxLines = 2
  NoStr = NoStr
INVARIANTS
  TypeOK
  NamesRejoin
  EventIsLine
  OneEventPerLine
