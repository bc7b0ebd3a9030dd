CONSTANTS
  SlotsPerEpoch = 2
  MaxSlot = 4
  MaxChanges = 2
  MaxFaults = 1
SPECIFICATION ForkSpec
INVARIANT ForkTypeOK
INVARIANT PayloadIsFoundWhenKnown
PROPERTY EventuallyKnown
