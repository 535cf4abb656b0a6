SPECIFICATION Spec
CONSTANTS
  h1 = h1
  h2 = h2
  h3 = h3
  Hosts = {h1, h2, h3}
  Width = 6
  DefaultLen = 3
  MaxAvail = 2
  Configs <- SixConfigs
  Drafts <- SixBits
SYMMETRY HostSymmetry
INVARIANTS
  EqualLengthsDisjoint
  FoundIfFree
  ConfigSound
PROPERTIES
  FreshIsFree
  InsideNetwork
