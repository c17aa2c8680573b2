CONSTANTS
    MaxTries = 1
    W = W
    Shells = {}
    Orphans = {}
SPECIFICATION FairSpec
PROPERTY FinishedShutsDown
CHECK_DEADLOCK FALSE
