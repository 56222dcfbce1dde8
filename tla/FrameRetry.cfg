CONSTANTS
  NumDCGroups = 2
  NumGroups = 2
  NumPasses = 1
  NumThreads = 2
SPECIFICATION RetrySpec
INVARIANT FinalizedIsComplete
