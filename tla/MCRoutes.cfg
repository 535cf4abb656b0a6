SPECIFICATION FairRouteSpec
CONSTANTS
  d1 = d1  d2 = d2  g1 = g1  g2 = g2
  Dsts = {d1, d2}
  Gws = {g1, g2}
  Foreign = Foreign
  NoGw = NoGw
  MaxEvents = 3
  MaxFaults = 1
INVARIANTS
  TypeOK
  CurrentListed
PROPERTY Recovers
