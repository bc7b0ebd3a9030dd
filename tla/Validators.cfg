CONSTANTS
  LidoValidators = {v1, v2, v3}
  BatchSize = 2
  MaxFaults = 2
SPECIFICATION FairSpec
INVARIANT InitializedIsComplete
PROPERTY LightCountsIdentified
PROPERTY EventuallyExact
