SPECIFICATION Spec
CONSTANTS
  Ptr = {p1, p2, p3}
  Offsets = 2
  Slots = {s1, s2}
  Threshold = 1
  MaxTerms = 4
  Null = Null
SYMMETRY Symmetry
INVARIANTS
  TypeOK
  PointersValid
  InputsKnown
CHECK_DEADLOCK FALSE
