SPECIFICATION CallSpec
CONSTANTS
  Symbolic = {x, y}
  Opaque = Opaque
  Null = Null
  MaxDepth = 4
INVARIANTS
  CallTypeOK
  ExpressionsExact
