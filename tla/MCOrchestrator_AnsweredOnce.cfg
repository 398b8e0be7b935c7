SPECIFICATION Spec
CONSTANTS
    MaxEvents = 3
    MaxTurns = 3
    MaxControls = 1
    MaxInstances = 1
    MaxMishaps = 0
    TakeoverEnabled = FALSE
INVARIANT AnsweredOnce
CHECK_DEADLOCK FALSE
