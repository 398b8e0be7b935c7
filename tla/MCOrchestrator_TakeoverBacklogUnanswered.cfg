SPECIFICATION Spec
CONSTANTS
    MaxEvents = 4
    MaxTurns = 3
    MaxControls = 0
    MaxInstances = 1
    MaxMishaps = 0
    TakeoverEnabled = TRUE
INVARIANT TakeoverBacklogUnanswered
CHECK_DEADLOCK FALSE
