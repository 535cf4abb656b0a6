SPECIFICATION FairSpec
CONSTANTS
  n1 = n1
  n2 = n2
  Nodes <- TwoNodes
  None = None
  Cluster <- Prod
  OtherCluster <- Test
  MaxIds = 7
  MaxFaults = 1
PROPERTIES
  ListedNodesKept
  EnrolmentsKept
  Converges
