CONSTANTS
  DaySeconds = 24
  MinuteSeconds = 2
  Genesis = 1
  SecondsPerEpoch = 2
  UpdateDelay = 3
  DefaultTimes <- OneEntry
  VeboFrames <- Frames
  MaxChanges = 1
  MaxFaults = 0
SPECIFICATION Spec
INVARIANT RememberedTimesRun
