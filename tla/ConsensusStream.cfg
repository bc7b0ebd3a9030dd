CONSTANTS
  MaxAttempts = 2
  Delay = 1
  Tries = 2
  Pause = 1
  Limit = 3
  BatchSize = 2
  Sizes <- ThreeSizes
  Horizon = 16
SPECIFICATION Spec
INVARIANT ResultIsOneState
INVARIANT NoneAbortedEarly
INVARIANT LongestCall
PROPERTY EventuallySettles
CHECK_DEADLOCK FALSE
