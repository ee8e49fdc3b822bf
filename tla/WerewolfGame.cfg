CONSTANTS
    u1 = u1
    u2 = u2
    u3 = u3
    u4 = u4
    c1 = c1
    c2 = c2
    g1 = g1
    None = None
    Users = {u1,u2,u3,u4}
    Games = {g1}
    Clicks = {c1}
    MinPlayers = 4
    MaxPlayers = 4
    LobbyRounds = 2
    MaxBets = 2
    DbFails = FALSE
SPECIFICATION Spec
SYMMETRY Symmetry
INVARIANTS
    VotesByLiving
CHECK_DEADLOCK FALSE
