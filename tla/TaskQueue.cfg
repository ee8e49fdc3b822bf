CONSTANTS
    a = a
    b = b
    Tasks = {a, b}
    EngineTasks = {a}
    SeedTasks = {a}
    ForceRun = {}
    Cancellable = {a, b}
    Fragile = {a}
    Forceable = {b}
    LimitChoices <- Switching
SPECIFICATION Spec
INVARIANTS
    OnePlace
    NoLostWakeup
    RunningHaveSlots
    HandledErrorsLeakNothing
    NoIdleCapacity
PROPERTIES
    LimitsRespected
CHECK_DEADLOCK FALSE
