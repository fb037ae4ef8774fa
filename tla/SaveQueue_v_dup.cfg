SPECIFICATION Spec
INVARIANT NoDuplicates
CONSTANTS
    Zigbee = Zigbee
    Python = Python
    Addr = {s1, s2, s3}
    QueueSize = 2
    MaxCalls = 5
CHECK_DEADLOCK FALSE
