SPECIFICATION Spec
CONSTANTS
    Procs = {svc, once}
    Daemons = {svc}
    Overlap = TRUE
    Envs = {e1}
    e1 = e1
    e2 = e2
    CodeIds = {v1, v2}
    None = None
    Prefixed <- MCDistinctNames
    Keep = 1
    MinAge = 1
    AgeCap = 0
    DownloadTimeout = 1
    Prune = TRUE
    PuppetServer = TRUE
    Faults = {"flush"}
INVARIANTS
    StaleCacheIsOwed
SYMMETRY CodeIdSymmetry
