SPECIFICATION Spec
INVARIANTS ConfigsAreComplete
CONSTANTS
    a1 = a1
    a2 = a2
    p1 = p1
    p2 = p2
    c1 = c1
    c2 = c2
    Absent = Absent
    Short = {a1, a2}
    Device = {p1}
    EpId = {1, 2}
    Cluster = {c1, c2}
    Homes <- MCHomes
    Endpoints <- MCEndpoints
    BasicOrPower = {c1}
    Clusters <- MCClusters
    MaxEndpoints = 3
    MaxCfgs = 1
    MaxAnnounced = 2
    MaxCalls = 2
    MaxEvents = 4
CHECK_DEADLOCK FALSE
