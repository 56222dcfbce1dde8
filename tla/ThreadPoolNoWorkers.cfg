CONSTANTS
  Callers = {c1, c2}
  Creator = c1
  NumWorkers = 0
  Modulus = 32
  Ranges <- MCShortRanges
  MaxDepth = 3
SPECIFICATION Spec
PROPERTY RefinesParallelRun
