CONSTANTS
  NumThreads = 3
  XGroups = 2
  YGroups = 2
  XSize = 5
  YSize = 5
  GroupDim = 4
  BlockDim = 2
  PadX = 2
  PadY = 1
  FullImage = FALSE
  RepeatedFlush = TRUE
SPECIFICATION Spec
INVARIANTS TypeOK HandledOnce PixelsRenderedOnce FreshAfterRun NoTornBorder ReportsOnce
