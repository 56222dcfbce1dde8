CONSTANTS
  Callers = {c1, c2}
  Creator = c1
  NumWorkers = 2
  Modulus = 32
  Ranges <- MCRanges
  MaxDepth = 2
SPECIFICATION FairSpec
INVARIANTS TypeOK WorkersReadyBetweenRuns OneDriver NoTaskAfterReturn
PROPERTIES RefinesParallelRun EveryCallReturns
