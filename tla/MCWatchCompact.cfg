SPECIFICATION FairSpec
CONSTANTS
  own = own
  p = p
  q = q
  Keys <- HostKeys
  Own = own
  Attrs = {a}
  None = None
  MaxRev = 4
  Faults = {"compact"}
PROPERTIES
  PrefixView
  Converges
CHECK_DEADLOCK FALSE
