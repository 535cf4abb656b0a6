SPECIFICATION FairSpec
CONSTANTS
  own = own  p = p  a = a  b = b
  Nodes = {own, p}
  Own = own
  Cidr <- CidrOf
  Families = {4}
  Data = {a, b}
  OwnData <- OwnOf
  None = None
  Depth = 1
  Slots = 1
  MaxChanges = 3
  ContWhenCacheNotReady = TRUE
  Faults = {"apiError"}
PROPERTIES
  PeersConverge
  Starts
CHECK_DEADLOCK FALSE
