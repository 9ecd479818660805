SPECIFICATION FairSpec
CONSTANTS
    MaxHistory = 3
    QueueDepth = 2
    MaxDeploys = 4
INVARIANTS
    TypeOK
    UnfinishedRetained
    WaitersAreTold
    InOrder
PROPERTIES
    AcceptedEnds
CHECK_DEADLOCK FALSE
