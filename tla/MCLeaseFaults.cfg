SPECIFICATION FairSpec
CONSTANTS
  n1 = n1
  n2 = n2
  s1 = s1
  s2 = s2
  None = None
  Nodes = {n1, n2}
  Subnets = {s1}
  V4 <- SingleV4
  Conflicts <- SingleConflicts
  Configs <- OneConfig
  TTL = 2
  Margin = 1
  MaxFails = 1
  MaxTime = 3
  MaxEvts = 2
  Faults = {"slow", "ttlError", "eventTTL", "lostReply", "noWatch", "compact", "revoke", "reserve"}
INVARIANTS
  WatchFaithful
PROPERTIES
  GoneStops
