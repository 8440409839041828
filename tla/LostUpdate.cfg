SPECIFICATION WriteTreeSpec
CONSTANTS
  Leaves <- TwoLeaves
  MaxRecords = 3
  OldestFirst = TRUE
INVARIANT VisibleWritesApplied
CHECK_DEADLOCK FALSE
