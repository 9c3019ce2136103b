SPECIFICATION Spec
CONSTANTS
  InputSizes <- MCInputSizes
  StdinSize = 1
  StderrSize = 3
  Times <- MCTimes
  MaxReports = 2
  MaxTests = 2
  None = None
INVARIANTS
  TypeOK
  TestsComplete
  SolverTimeExact
PROPERTIES
  Returns
