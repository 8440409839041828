SPECIFICATION Spec
CONSTANTS
    t1 = t1
    t2 = t2
    Threads = {t1, t2}
    NoThread = NoThread
    Keys <- TwoKeys
    ReadKeys = {1}
    Requests <- SmallRequests
    Ranges <- WholeRange
    kMaxSequenceNumber = 100
    kNumLevels = 3
    kMaxMemCompactLevel = 1
    kL0_CompactionTrigger = 2
    kL0_SlowdownWritesTrigger = 1
    kL0_StopWritesTrigger = 2
    max_file_size = 1
    Level1Bytes = 2
    allowed_seeks = 1
    WriteBuffer = 0
    MaxGroupSize = 3
    MaxWrites = 3
    MaxEvents = 2
    IOErrors = FALSE
    TornAppends = FALSE
INVARIANT NewestOnTop
SYMMETRY ThreadSymmetry
