SPECIFICATION Spec
INVARIANTS DescriptionsFit
CONSTANTS
    a1 = a1
    a2 = a2
    p1 = p1
    c1 = c1
    c2 = c2
    p2 = p2
    Absent = Absent
    Short = {a1}
    Device = {p1, p2}
    EpId = {1, 2}
    Cluster = {c1, c2}
    Homes <- MCHandedOn
    Endpoints <- MCEndpoints
    BasicOrPower = {c1}
    Clusters <- MCSwapped
    MaxEndpoints = 3
    MaxCfgs = 1
    MaxAnnounced = 2
    MaxCalls = 1
    MaxEvents = 4
CHECK_DEADLOCK FALSE
