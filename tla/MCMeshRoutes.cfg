SPECIFICATION FairSpec
CONSTANTS
  n1 = n1
  n2 = n2
  l1 = l1
  l2 = l2
  Nets <- TwoNets
  Locals <- TwoLocals
  Mesh = Mesh
  MaxChanges = 1
  MaxFails = 1
  MaxStops = 2
  MaxFlushes = 1
INVARIANTS
  CleanStop
PROPERTIES
  RoutesKept
  Converges
