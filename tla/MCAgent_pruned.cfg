SPECIFICATION FairSpec
CONSTANTS
    Procs = {svc}
    Daemons = {svc}
    Overlap = FALSE
    Envs = {e1, e2}
    e1 = e1
    e2 = e2
    CodeIds = {v1}
    None = None
    Prefixed <- MCDistinctNames
    Keep = 1
    MinAge = 1
    AgeCap = 1
    DownloadTimeout = 1
    Prune = TRUE
    PuppetServer = FALSE
    Faults = {}
PROPERTIES
    PrunedVersionsGo
