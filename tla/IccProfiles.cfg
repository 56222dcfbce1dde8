CONSTANTS
  ANS_LOG_TAB_SIZE = 4
  WordBits = 5
  ANS_SIGNATURE = 3
  LogAlphaSize = 3
  Sessions <- MCSessions
  kMaxCheckpointInterval = 3
  kWindowSize = 4
  kPreambleSize = 2
  HeaderBits = 5
  BitsPerByte = 4
  SanityInterval = 6
  MaxExpansion = 1
  Chunks = {1, 2}
  IccHeaderSize = 3
  MinLength = 2
  MinSymbol = 6
SPECIFICATION Spec
INVARIANTS AliasTablesExact ProfileIntact RejectedIfTooDense
PROPERTIES NeverStarved
