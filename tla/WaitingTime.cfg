CONSTANTS
  Second = 4
  Genesis = 8
  EpochLength = 4
  InitialEpoch = 1
  EpochsPerFrame = 4
  Gap = 4
  Margin = 4
  FallbackDelay = 80
  BunkerFrames = 3
  SeedLookahead = 1
  EpochsPerFrameVEBO = 2
  ProtocolStates <- Snapshots
  Amounts = {0, 2}
  RequestSums = {2, 6}
  StartTime = 30
  MaxTime = 58
SPECIFICATION Spec
INVARIANT ByIdNeverInPast
INVARIANT BufferIsClosestReport
INVARIANT WalkFindsFirstCovered
INVARIANT MoreIsNotSooner
PROPERTY PollNeverEarlier
