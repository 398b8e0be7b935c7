SPECIFICATION FairSpec
CONSTANTS
    MaxEvents = 2
    MaxTurns = 2
    MaxControls = 1
    MaxInstances = 3
    MaxMishaps = 1
    TakeoverEnabled = TRUE
PROPERTY GenerationEnds
CHECK_DEADLOCK FALSE
