CONSTANTS
  MaxChanges = 4
  MaxFaults = 2
SPECIFICATION FairSpec
INVARIANT RestartsForNewSecrets
PROPERTY EventuallyFresh
CHECK_DEADLOCK FALSE
