SPECIFICATION Spec
CONSTANTS
  Queries <- TwoQueries
  MaxPuts = 2
  MaxListens = 2
  MaxOnDisconnects = 0
  MaxDisruptions = 1
  MaxRetryLevel = 2
  NSUIntegerMax = 99
INVARIANTS
  PutsSound
  WritesSentInOrder
  UnackedListensCounted
  ListensMirrored
CHECK_DEADLOCK FALSE
