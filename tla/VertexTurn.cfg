CONSTANTS
    MaxToolRounds = 3
    MaxContinuations = 2
    MaxEmpty = 2
    MaxCalls = 2
    Concurrency = 2
SPECIFICATION FairTurnSpec
CHECK_DEADLOCK FALSE
INVARIANTS
    GitHubFirst
    RefusedWithFreshToken
PROPERTIES
    TurnEnds
