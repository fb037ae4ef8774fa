CONSTANTS
  Short = {s1, s2}
  Ieee = {x0, x1, x2}
  EpId = {}
  Cluster = {}
  Cfg = {}
  MaxDevices = 2
  MaxEndpoints = 1
  Coordinator = s1
  NoIeee = x0
  SaveQueueSize = 1
  SchedDepth = 2
  Retries = 2
  MaxRestarts = 1
  NoFile = NoFile
  Corrupt = Corrupt
  StorageFails = FALSE
  MemoryFails = FALSE
  LookupRaces = FALSE
SPECIFICATION Spec
INVARIANTS EachDeviceIsSaved
