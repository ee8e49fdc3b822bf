CONSTANTS
    c1 = c1
    c2 = c2
    k1 = k1
    None = None
    MaxRequests = 3
    Chats = {c1, c2}
    Commands = {k1}
    MaxChats = 1
    Slots = 1
    HistorySize = 2
    StoredSize = 1
    MaxRows = 2
    MaxRestarts = 1
SPECIFICATION FairSpec
CHECK_DEADLOCK FALSE
INVARIANTS
    NobodyStuck
    OneAtATime
    ContextIsRecent
    ForgottenForGood
PROPERTIES
    EveryRequestEnds
