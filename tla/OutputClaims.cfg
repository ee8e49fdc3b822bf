CONSTANTS
    w1 = w1
    w2 = w2
    m1 = m1
    m2 = m2
    Workers = {w1, w2}
    Messages = {m1, m2}
    TTL = 2
    SweepEvery = 1
    MaxClock = 4
    Faulty = TRUE
    Never = Never
    Nobody = Nobody
SPECIFICATION Spec
SYMMETRY Sym
INVARIANTS
    RefusedOnlyDuplicates
PROPERTIES
    Implements
    LiveClaimsKept
