SPECIFICATION FairSpec
CONSTANTS
    NumGroups = 1
    Size <- MCSizeOne
    Proactive = {}
    MaxInstances = 2
    MaxAdverse = 1
PROPERTIES
    PartialGroupResumes
CHECK_DEADLOCK FALSE
