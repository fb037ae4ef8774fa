CONSTANTS
  Short = {s1, s2}
  Ieee = {x1, x2}
  EpId = {e1, e2, e3}
  Cluster = {}
  Cfg = {}
  MaxDevices = 2
  MaxEndpoints = 2
SYMMETRY MCSymmetry
SPECIFICATION ManagerSpec
INVARIANTS EndpointsDistinct
PROPERTIES UpdateLosesNoEndpoint
