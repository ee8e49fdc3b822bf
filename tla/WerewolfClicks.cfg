CONSTANTS
    u1 = u1
    u2 = u2
    u3 = u3
    u4 = u4
    c1 = c1
    c2 = c2
    g1 = g1
    None = None
    Users = {u1,u2,u3}
    Games = {g1}
    Clicks = {c1,c2}
    MinPlayers = 2
    MaxPlayers = 2
    LobbyRounds = 1
    MaxBets = 2
    DbFails = TRUE
SPECIFICATION Spec
SYMMETRY Symmetry
INVARIANTS
    EntryPaid
    NoFreeMoney
CHECK_DEADLOCK FALSE
