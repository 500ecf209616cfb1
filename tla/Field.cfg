SPECIFICATION FairSpec
CONSTANTS
  Value = {v1, v2, v3, v4}
  Node = {p1, p2, p3}
  Null = Null
  Junk = Junk
  MaxVals = 3
  Width = 4
INVARIANTS
  TypeOK
  ListOK
  NoFault
  OwnedOnce
PROPERTIES
  ReadsAreRight
  ImplementsValueSeq
  WalksShorten
  CallsReturn
