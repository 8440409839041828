SPECIFICATION FairSpec
CONSTANTS
  Queries <- OneQuery
  MaxPuts = 1
  MaxListens = 1
  MaxOnDisconnects = 1
  MaxDisruptions = 2
  MaxRetryLevel = 2
  NSUIntegerMax = 99
PROPERTIES
  EventuallyServed
CHECK_DEADLOCK FALSE
