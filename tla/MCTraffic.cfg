SPECIFICATION FairSpec
CONSTANTS
  Zones = {"a", "b", "out", "mcast"}
  Configs <- TwoLeases
  NFTables = {TRUE, FALSE}
  Absent = Absent
  MaxRestarts = 2
  MaxFaults = 1
INVARIANTS
  NoDuplicates
PROPERTIES
  OverlayNotNatted
  Settles
CHECK_DEADLOCK FALSE
