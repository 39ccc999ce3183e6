CONSTANTS
  None = None
  Shapes <- MCShapes
  Offsets <- MCOffsets
  Orders = {"NCHW", "NHWC"}
  MemSpaces = {"DDR", "CMX"}
  ElemTypes = {"f16", "u8"}
  Distributions = {"SOK", "SOH"}
  ElemStrides <- MCElemStrides
  PadAmounts <- MCPadAmounts
  SETChannels = {1, 2}
  SEFactors = {2}
  CompressionCounts = {1, 2}
  SMRowLength = 16
SPECIFICATION Spec
INVARIANT CompressionCoversData
CHECK_DEADLOCK FALSE
