SPECIFICATION FairSpec
CONSTANTS
  kPageSize = 2
  Addr <- MCAddr
  Lengths = {1, 3}
  WordSizes = {2}
  Byte = {0, 1}
  Expr <- MCExpr
  Null = Null
  Val <- MCVal
  Const <- MCConst
  InputByte <- MCInputByte
  LittleEndian = TRUE
INVARIANTS
  TypeOK
  LoopsSound
  Concolic
  CopyReadsFresh
PROPERTIES
  ImplementsFlat
  LoopsEnd
