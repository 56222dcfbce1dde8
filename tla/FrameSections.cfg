CONSTANTS
  NumDCGroups = 2
  NumGroups = 2
  NumPasses = 2
  NumThreads = 3
SPECIFICATION FairSpec
INVARIANTS DecodedOnceInOrder DependenciesMet ProcessedAreDecoded FinalizedIsComplete StoragePrivate DrawsHavePipeline
PROPERTY FrameEnds
