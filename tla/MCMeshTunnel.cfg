SPECIFICATION FairSpec
CONSTANTS
  b1 = b1
  b2 = b2
  b3 = b3
  Buffers <- ThreeBuffers
  Depth = 1
  None = None
  MaxLosses = 2
INVARIANTS
  OneOwner
  BufferForReader
  ClosedForGood
PROPERTIES
  CloseReturns
  Reconnects
CHECK_DEADLOCK FALSE
