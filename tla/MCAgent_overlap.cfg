SPECIFICATION Spec
CONSTANTS
    Procs = {svc, once}
    Daemons = {svc}
    Overlap = TRUE
    Envs = {e1}
    e1 = e1
    e2 = e2
    CodeIds = {v1, v2}
    None = None
    Prefixed <- MCDistinctNames
    Keep = 1
    MinAge = 2
    AgeCap = 2
    DownloadTimeout = 1
    Prune = TRUE
    PuppetServer = TRUE
    Faults = {}
INVARIANTS
    LiveExtractionKept
PROPERTIES
    KeepsContract
SYMMETRY CodeIdSymmetry
