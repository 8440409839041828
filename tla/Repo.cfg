SPECIFICATION MCSpec
CONSTANTS
  Queries <- OneQuery
  MaxPuts = 0
  MaxListens = 0
  MaxOnDisconnects = 2
  MaxDisruptions = 4
  MaxRetryLevel = 2
  NSUIntegerMax = 99
  Paths <- Siblings
  MaxTransactions = 2
  MaxSets = 2
  MaxPushes = 1
  TransactionMaxRetries = 2
INVARIANTS
  TypeOK
  ConnectionSound
  NeverStranded
  OnDisconnectAtMostOnce
  QueuesSafe
  SomeoneInFlight
  EndsOnce
PROPERTIES
  SendsOnlyWhenReady
  KillIsFinal
CHECK_DEADLOCK FALSE
