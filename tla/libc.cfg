SPECIFICATION Spec
CONSTANTS
  Fd = {0, 3}
  Files = {terminal, input, copy, other}
  Stdin = terminal
  InputFile = input
  InputKind = "file"
  Matching = {input, copy}
  Content <- MCContent
  OffsetRange = 8
  BufLen = 3
  Closed = Closed
  Null = Null
INVARIANTS
  TypeOK
  OffsetIsPosition
  LabelsExact
