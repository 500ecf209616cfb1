SPECIFICATION Spec
CONSTANTS
  Event = {e1, e2}
  Field = {f1, f2, f3}
  Value = {v1, v2, v3}
  Name = {n1, n2}
  None = None
SYMMETRY Symmetry
INVARIANTS
  TypeOK
  OwnedOnce
PROPERTIES
  DeleteIsSafe
  FieldsInOrder
