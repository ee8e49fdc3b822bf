CONSTANTS
    c1 = c1
    p1 = p1
    t1 = t1
    t2 = t2
    t3 = t3
    Life = Life
    None = None
    Callers = {c1}
    Plugins = {p1}
    Transports = {t1, t2, t3}
SPECIFICATION FairSpec
INVARIANTS
    NoOrphans
    SweptUnused
    ClosedForGood
    NobodyStuck
PROPERTIES
    ShutdownEnds
    CallsReturn
