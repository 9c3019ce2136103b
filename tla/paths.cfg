SPECIFICATION Spec
CONSTANTS
  ByteValues = 3
  InputSize = 2
  Debug = TRUE
  Cells = 2
  Consts = {1}
  Cases <- MCCases
  Table <- MCTable
  Text <- MCText
  MaxSteps = 3
INVARIANTS
  TypeOK
  InputFollowsPath
  PathDetermined
  ValuesExact
  NewInputDiverges
CHECK_DEADLOCK FALSE
