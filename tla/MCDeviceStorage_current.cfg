CONSTANTS
  Short = {s1, s2}
  Ieee = {x0, x1}
  EpId = {e1}
  Cluster = {c1}
  Cfg = {}
  MaxDevices = 2
  MaxEndpoints = 1
  Coordinator = s1
  NoIeee = x0
  SaveQueueSize = 2
  SchedDepth = 2
  Retries = 2
  MaxRestarts = 1
  NoFile = NoFile
  Corrupt = Corrupt
  StorageFails = FALSE
  MemoryFails = TRUE
  LookupRaces = FALSE
SPECIFICATION Spec
SYMMETRY MCSymmetry
INVARIANTS TypeOK FilesTellTheTable
