CONSTANTS
  Chains <- Courses
  Before = 1
  Week = 1
  Step = 2
  Handlers = {a, b}
  MaxFaults = 1
SPECIFICATION FairRewardsSpec
INVARIANT RewardsTypeOK
INVARIANT PublishedIsMinimum
PROPERTY ReportIsCounted
PROPERTY EventuallySubscribed
CHECK_DEADLOCK FALSE
