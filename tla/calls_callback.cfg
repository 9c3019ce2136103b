SPECIFICATION CallbackSpec
CONSTANTS
  Symbolic = {x, y}
  Opaque = Opaque
  Null = Null
  MaxDepth = 4
INVARIANT OpaqueIsConcrete
