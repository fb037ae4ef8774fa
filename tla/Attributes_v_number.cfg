SPECIFICATION Spec
INVARIANT NumbersAreShown
CONSTANTS
    Types = {8, 16, 24, 25, 27, 32, 33, 35, 40, 41, 43, 48, 49, 66, 72, 226, 234, 240}
    NameSizes = {0, 7, 31, 32}
    LongSizes = {0, 5, 243, 244, 252, 253, 300}
    Percentages = {0, 100, 150, 200}
    QueueSize = 2
    MaxEvents = 3
CHECK_DEADLOCK FALSE
