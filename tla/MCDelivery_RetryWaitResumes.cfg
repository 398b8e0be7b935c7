SPECIFICATION FairSpec
CONSTANTS
    NumGroups = 1
    Size <- MCSizeOne
    Proactive = {}
    MaxInstances = 2
    MaxAdverse = 1
PROPERTIES
    RetryWaitResumes
CHECK_DEADLOCK FALSE
