SPECIFICATION MCSpec
CONSTANTS
  Threads = {t1, t2}
  OtherNames = {"second"}
  MaxCalls = 4
  MaxLaunches = 3
  Callers = {a, b, c}
  NoCaller = NoCaller
  MaxRequests = 4
  Children = {x, y}
  FirstWriteId = 9
  MaxWrites = 3
  MaxFailures = 2
  kWebsocketMaxFrameSize = 3
  Lengths = {3, 7}
  MaxMessages = 2
  MaxNops = 1
  Leaves <- TwoLeaves
  MaxRecords = 3
  OldestFirst = FALSE
INVARIANTS
  AnnouncedOnce
  RegistryAgrees
  KnownIsUsable
  
  ReadsExact
PROPERTIES
  LaunchesWell
  CallsReturn
  
  SocketPromises
  RemovalsReported
CHECK_DEADLOCK FALSE
