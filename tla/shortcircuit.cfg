SPECIFICATION Spec
CONSTANTS
  Params = {0}
  Consts = {1}
  First = 2
  Last = 4
  Programs <- MCPrograms
INVARIANTS
  TypeOK
  TracksInput
  ArgumentsExact
