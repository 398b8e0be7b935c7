SPECIFICATION Spec
CONSTANTS
    MaxEvents = 3
    MaxTurns = 2
    MaxControls = 0
    MaxInstances = 1
    MaxMishaps = 0
    TakeoverEnabled = FALSE
INVARIANT DueTurnCanStart
CHECK_DEADLOCK FALSE
