SPECIFICATION StorageSpec
CONSTANTS
  Readers = {a, b}
  Files = {1, 2, 3}
  HashOf <- TableHash
  ShardBits = 4
  kNumShards = 1
  capacity_ = 1
  InitialLength = 1
  MmapLimit = 1
  FdLimit = 1
  MaxHandles = 3
  ListReaders = {a}
  ListKeys = {1, 2, 3}
  kMaxHeight = 3
  MaxSearches = 2
  kBlockSize = 16
  Align = 4
  PointerSize = 4
  AllocSizes = {1, 3, 4, 5}
  MaxAllocs = 5
  Keys = {1, 2}
  kMaxSequenceNumber = 100
  kNumLevels = 3
  kMaxMemCompactLevel = 1
  kL0_CompactionTrigger = 2
  max_file_size = 9
  Level1Bytes = 2
  allowed_seeks = 1
  IterWrites = 3
  IterAdds = 1
  MaxFileNumber = 4
  MaxFailures = 2
  t1 = t1
  t2 = t2
  t3 = t3
  P = P
  Q = Q
  NoProcess = NoProcess
  Openers = {t1, t2, t3}
  ProcessOf <- ProcessOfThread
  Items = 3
  MaxOpens = 4
  Directories <- RpDirectories
  BadSequence = 99
  MaxRepairFaults = 2
INVARIANTS
  CacheExact
  MemTableSound
  IteratorExact
  SurvivesPowerLoss
  
PROPERTIES
  EnvPromises
CHECK_DEADLOCK FALSE
