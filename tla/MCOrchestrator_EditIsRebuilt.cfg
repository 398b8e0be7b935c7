SPECIFICATION FairSpec
CONSTANTS
    MaxEvents = 2
    MaxTurns = 2
    MaxControls = 0
    MaxInstances = 1
    MaxMishaps = 0
    TakeoverEnabled = FALSE
PROPERTY EditIsRebuilt
CHECK_DEADLOCK FALSE
