CONSTANTS
    u1 = u1
    u2 = u2
    u3 = u3
    h1 = h1
    h2 = h2
    None = None
    Users = {u1, u2, u3}
    Stuck = {u3}
    Handlers = {h1, h2}
    WarnLimit = 2
    WarnMode = "tban"
    BatchLimit = 2
    MaxOrders = 2
    MaxJoins = 2
    MaxRestarts = 1
SPECIFICATION FairSpec
CHECK_DEADLOCK FALSE
INVARIANTS
    SentenceServed
    VoidTasksSleepOn
    WarningsCount
PROPERTIES
    DueIsReleased
