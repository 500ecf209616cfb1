SPECIFICATION FairSpec
CONSTANTS
  Names = {"a"}
  LeafTypes = {"String", "Number", "NULL"}
  MaxItems = 4
  MaxLines = 2
  NoName = NoName
  NoStr = NoStr
INVARIANTS
  TypeOK
  StackIsLine
  FieldsOfTree
  OneEventPerLine
PROPERTIES
  Returns
CHECK_DEADLOCK FALSE
