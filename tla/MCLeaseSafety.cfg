SPECIFICATION Spec
CONSTANTS
  n1 = n1
  n2 = n2
  s1 = s1
  s2 = s2
  None = None
  Nodes = {n1, n2}
  Subnets = {s1, s2}
  V4 <- SingleV4
  Conflicts <- SingleConflicts
  Configs <- TwoConfigs
  TTL = 3
  Margin = 2
  MaxFails = 1
  MaxTime = 6
  MaxEvts = 2
  Faults = {"compact", "eventTTL"}
SYMMETRY NodeSymmetry
INVARIANTS
  Exclusive
  LeaseBacked
  OneKeyPerNode
PROPERTIES
  NoTakeover
  ExistingLeaseUsed
