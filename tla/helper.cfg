SPECIFICATION Spec
CONSTANTS
  Inputs <- MCInputs
  Score <- MCScore
  Tests <- MCTests
  Bits = {1, 2}
  Coverage <- MCCoverage
  None = None
INVARIANTS
  TypeOK
  BitmapIsBacked
  Accounted
  QueueIsMinimal
PROPERTY EventuallyAnalysed
CHECK_DEADLOCK FALSE
