SPECIFICATION TransactionsSpec
CONSTANTS
  Paths <- Siblings
  MaxTransactions = 1
  MaxSets = 2
  MaxPushes = 0
  TransactionMaxRetries = 2
INVARIANT NoneForgotten
CHECK_DEADLOCK FALSE
