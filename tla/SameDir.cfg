CONSTANTS
    a = a
    b = b
    Commands = {a, b}
    Multi <- Links
    Folders = {"f"}
    None = None
SPECIFICATION FairSpec
CHECK_DEADLOCK FALSE
INVARIANTS
    TotalsCount
    UploadedTogether
    SomebodyAwaited
PROPERTIES
    NoLateFiles
    LockReleased
