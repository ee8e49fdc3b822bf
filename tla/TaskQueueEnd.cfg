CONSTANTS
    a = a
    b = b
    Tasks = {a, b}
    EngineTasks = {a}
    SeedTasks = {}
    ForceRun = {}
    Cancellable = {b}
    Fragile = {a}
    Forceable = {}
    LimitChoices <- Switching
SPECIFICATION FairSpec
PROPERTIES
    TasksEnd
CHECK_DEADLOCK FALSE
