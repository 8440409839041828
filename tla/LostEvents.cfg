SPECIFICATION TransactionsSpec
CONSTANTS
  Paths <- Siblings
  MaxTransactions = 2
  MaxSets = 0
  MaxPushes = 0
  TransactionMaxRetries = 2
INVARIANT EventsRaised
CHECK_DEADLOCK FALSE
