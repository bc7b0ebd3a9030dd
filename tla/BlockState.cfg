CONSTANTS
  Clients = {c1, c2}
  TTL = 2
  MaxBlock = 3
  MaxFaults = 1
SPECIFICATION FairSpec
PROPERTY ImplementsFreshBlock
PROPERTY EventuallyCurrent
