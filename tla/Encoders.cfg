SPECIFICATION ConvertSpec
CONSTANTS
  Events <- MCEvents
  NameLists <- MCNameLists
  Decoded <- MCDecoded
  Formats <- MCFormats
  None = None
  MaxFails = 2
  MaxEvents = 2
INVARIANTS
  EncTypeOK
  ReadsBack
  RowIsWhole
  PrintsEachOnce
CHECK_DEADLOCK FALSE
