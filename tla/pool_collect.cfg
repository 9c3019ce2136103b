SPECIFICATION Spec
CONSTANTS
  Ptr = {p1, p2, p3}
  Offsets = 2
  Slots = {s1, s2}
  Threshold = 1
  MaxTerms = 5
  Null = Null
SYMMETRY Symmetry
INVARIANT PendingIntact
CHECK_DEADLOCK FALSE
