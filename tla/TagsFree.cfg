SPECIFICATION Spec
CONSTANTS
  Bucket = {b1, b2}
  Event = {e1, e2}
  Tag = {t1, t2}
  Null = Null
  MaxRefs = 3
  MaxTags = 2
SYMMETRY Symmetry
INVARIANTS
  LastHolderFrees
