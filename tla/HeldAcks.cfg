SPECIFICATION FairSpec
CONSTANTS
  Queries <- OneQuery
  MaxPuts = 1
  MaxListens = 1
  MaxOnDisconnects = 0
  MaxDisruptions = 1
  MaxRetryLevel = 3
  NSUIntegerMax = 99
PROPERTIES
  AnsweredWritesComplete
CHECK_DEADLOCK FALSE
