CONSTANTS
    w1 = w1
    w2 = w2
    w3 = w3
    Dog = Dog
    Hook = Hook
    None = None
    Workers = {w1, w2, w3}
    Grace = 2
    Retry = 2
    MaxFaults = 6
SPECIFICATION FairSpec
PROPERTIES
    SparesSessions
    GraceKept
    Recovers
