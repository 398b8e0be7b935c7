SPECIFICATION Spec
CONSTANTS
    MaxEvents = 3
    MaxTurns = 2
    MaxControls = 2
    MaxInstances = 2
    MaxMishaps = 1
    TakeoverEnabled = TRUE
INVARIANTS
    TypeOK PlannedIsStillWanted
    PauseBacklogUnanswered HumanHasAnswered CompletedIsCovered
PROPERTIES OutputIsCurrent StaleIsDiscarded TakesTurns
CHECK_DEADLOCK FALSE
