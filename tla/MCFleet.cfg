SPECIFICATION FairSpec
CONSTANTS
    Compilers = {c1}
    Operators = {operator}
    e1 = e1
    e2 = e2
    i1 = i1
    i2 = i2
    Envs = {e1, e2}
    CodeIds = {i1, i2}
    None = None
    Staged <- SomeStaged
    Lines = {1, 2}
    MaxPairs = 2
    Faults = {"kill", "timeout", "fail", "restart", "seal"}
    MaxFaults = 2
    MaxDeploys = 1
INVARIANTS TypeOK ServingWasReal EntryIsEarned
PROPERTIES FleetSettles PrunedWasDropped
CHECK_DEADLOCK FALSE
