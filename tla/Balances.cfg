CONSTANTS
  Clients = {c1, c2}
  Course <- Three
  Upgrade = 2
  Figures <- Pairs
  MaxStores = 1
  MaxFaults = 1
SPECIFICATION Spec
INVARIANT BufferIsDrainable
INVARIANT VaultsOfOneUpdate
