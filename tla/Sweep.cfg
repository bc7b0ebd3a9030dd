CONSTANTS
  SlotsPerEpoch = 2
  Ten = 10
  MinActivation = 12
  MaxElectra = 200
  PerPayload = 2
  PartialsPerSweep = 1
  Kinds <- SomeKinds
  Amounts = {1, 14, 200}
  Count = 3
  MaxPending = 2
  MaxDigits = 6
  PerSlot = 2
  MaxTotal = 6
  MaxEpochs = 3
  MaxBlocked = 4
  MinBalance = 4
  MinChurn = 4
  MaxChurn = 32
  Quotient = 2
  Lookahead = 1
  EpochsPerDay = 5
  Default = 5
  Actives <- SomeActives
  Queues <- SomeQueues
  Sweeps = {0, 7}
  ExitEpochs = {0, 9}
  MaxEpoch = 2
SPECIFICATION SweepSpec
INVARIANT DelayIsExact
INVARIANT EstimateIsSweep
INVARIANT DaysFollowChurn
CHECK_DEADLOCK FALSE
