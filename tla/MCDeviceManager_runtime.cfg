CONSTANTS
  Short = {s1, s2, s3, s4}
  Ieee = {x1, x2, x3, x4}
  EpId = {}
  Cluster = {}
  Cfg = {c1}
  MaxDevices = 3
  MaxEndpoints = 1
SPECIFICATION RuntimeSpec
INVARIANTS TableOK OneEntryPerIeee
PROPERTIES ForgetsOnlyTheClaimed RejoinDisturbsNobody
