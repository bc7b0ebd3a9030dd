CONSTANTS
  DaySeconds = 24
  MinuteSeconds = 2
  Genesis = 1
  SecondsPerEpoch = 2
  UpdateDelay = 3
  DefaultTimes <- OneEntry
  VeboFrames <- Frames
  MaxChanges = 2
  MaxFaults = 1
SPECIFICATION FairSpec
INVARIANT TypeOK
INVARIANT ReportsAreFollowed
PROPERTY ConfigNeverGoesBack
PROPERTY SupportNeverReverts
PROPERTY EventuallyConfigured
