CONSTANTS
    w1 = w1
    w2 = w2
    m1 = m1
    m2 = m2
    Workers = {w1, w2}
    Messages = {m1, m2}
    TTL = 2
    SweepEvery = 1
    MaxClock = 3
    Faulty = TRUE
    Never = Never
SPECIFICATION IngressSpec
SYMMETRY Sym
PROPERTIES
    FirstClaimExclusive
