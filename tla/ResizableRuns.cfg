CONSTANTS
  MaxWorkers = 3
  Modulus = 16
  Ranges <- MCRanges
SPECIFICATION FairSpec
INVARIANTS RunningCount PoolHasDesiredSize
PROPERTIES RefinesParallelRun EveryCallReturns
