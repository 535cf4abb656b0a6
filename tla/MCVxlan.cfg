SPECIFICATION FairSpec
CONSTANTS
  s1 = s1  s2 = s2  n1 = n1  n2 = n2
  Families = {"v4", "v6"}
  Subnets = {s1, s2}
  Nodes = {n1, n2}
  Direct = {n2}
  Attrs <- TheAttrs
  StoredMac = TRUE
  Vxlan = Vxlan
  None = None
  ExtMTU = 1500
  MaxInputs = 3
  MaxFails = 1
INVARIANTS
  PeerReachable
  AdvertisedMac
PROPERTIES
  RouteLast
  DeviceRecovers
CHECK_DEADLOCK FALSE
