SPECIFICATION FormatsSpec
CONSTANTS
  Keys = {1, 2}
  kMaxSequenceNumber = 100
  kNumLevels = 3
  kMaxMemCompactLevel = 1
  kL0_CompactionTrigger = 2
  max_file_size = 9
  Level1Bytes = 2
  allowed_seeks = 1
  kBlock = 5
  kHeaderSize = 2
  RecordSizes = {0, 1, 4}
  MaxRecords = 2
  MaxDamage = 1
  ByteMax = 2
  TableKeys <- SomeTableKeys
  TagMax = 9
  block_size = 18
  block_restart_interval = 2
  kFilterBase = 12
  bits_per_key = 25
  HashBits = 9
  MaxTableEntries = 5
  TableThreads = {a, b}
  TableNumbers = {1, 2}
  Offsets = {0}
  Pointers = {1, 2}
  MaxCacheIds = 2
  VarBits = 2
  Width32 = 5
  Width64 = 7
  SeqBytes = 2
  BatchKeys <- SomeBatchKeys
  BatchValues <- SomeBatchValues
  Edits <- SomeEdits
  Padding = 2
  MaxOps = 3
  MaxNumber = 150
  DigitBits = 4
  Width <- PbWidth
  FixedCells <- PbCells
  Message <- PbMessage
  Fragments <- PbFragments
  Samples <- PbSamples
  Unfit <- PbUnfit
  MaxFragments = 3
  SourceBytes = {0, 1, 64, 255}
  Characters = {0, 1, 16, 63, 64, 65, 66}
  MaxSource = 4
  MaxText = 5
INVARIANTS
  LogExact
  
  BlocksSafe
  ReadBack
  MessagesExact
  Base64Exact
CHECK_DEADLOCK FALSE
