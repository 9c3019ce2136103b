SPECIFICATION Spec
CONSTANTS
  ByteBits = 2
  WordBits = 8
  Bits = 4
  LittleEndian = TRUE
  Scalar <- SoundScalar
  Overflow <- SoundOverflow
  Inserted <- SoundInserted
  Seconds <- SoundSeconds
  Narrow <- NonNegative
  Predicates <- SoundPredicates
INVARIANTS
  TypeOK
  ScalarsExact
  MembersExact
