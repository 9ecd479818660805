SPECIFICATION Spec
CONSTANTS
    MaxHistory = 3
    QueueDepth = 2
    MaxDeploys = 2
INVARIANTS
    StartedEnds
CHECK_DEADLOCK FALSE
