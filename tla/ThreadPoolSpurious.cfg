CONSTANTS
  Callers = {c1}
  Creator = c1
  NumWorkers = 2
  Modulus = 32
  Ranges <- MCShortRanges
  MaxDepth = 1
SPECIFICATION SpuriousSpec
INVARIANT NoTaskAfterReturn
