CONSTANTS
  MaxRequest = 3
  PageSize = 2
  MaxFaults = 1
  AskedLists <- Lists
SPECIFICATION FairTSpec
INVARIANT CalculatedIsInQueue
INVARIANT FinalizedIsTrue
INVARIANT ResponseFollowsQueue
INVARIANT SumIsOfQueueBefore
PROPERTY StatusNeverGoesBack
PROPERTY ImplementsQueueView
PROPERTY EventuallyExact
