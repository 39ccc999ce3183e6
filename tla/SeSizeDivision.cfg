CONSTANTS
  None = None
  Shapes <- MCShapesOddChannels
  Offsets <- MCOffsets
  Orders = {"NCHW", "NHWC"}
  MemSpaces = {"DDR", "CMX"}
  ElemTypes = {"f16", "u8"}
  Distributions = {"SOK", "SOH"}
  ElemStrides <- MCElemStrides
  PadAmounts <- MCPadAmounts
  SETChannels = {2}
  SEFactors = {2}
  CompressionCounts = {1, 2}
  SMRowLength = 16
SPECIFICATION ExplicitOnlySpec
PROPERTY SeSizePreserved
CHECK_DEADLOCK FALSE
