CONSTANTS
  Sessions <- MCJpegSession
  MaxChunk = 2
  BoxBufferSizes = {2}
  JpegBufferSizes = {1, 2}
  BasicInfoSize = 1
  HeadersSize = 1
  FrameHeaderSize = 2
  CodestreamSize = 3
  JpegSize = 2
  JpegFieldsSize = 1
SPECIFICATION ResetSpec
INVARIANT NoSpuriousError
