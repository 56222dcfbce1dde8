CONSTANTS
  MaxItems = 3
  Rooms = {7}
  BoxKinds <- MCBoxKinds
  JpegKinds <- MCJpegKinds
  BasicInfos <- MCBasicInfos
  ColorEncodings <- MCColorEncodings
SPECIFICATION FairSpec
INVARIANTS QueuedInOrder FileComplete
PROPERTIES EverythingWritten
