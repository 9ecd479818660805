SPECIFICATION Spec
CONSTANTS
    Procs = {svc}
    Daemons = {svc}
    Overlap = FALSE
    Envs = {e1}
    e1 = e1
    e2 = e2
    CodeIds = {v1, v2, v3}
    None = None
    Prefixed <- MCDistinctNames
    Keep = 1
    MinAge = 1
    AgeCap = 1
    DownloadTimeout = 1
    Prune = FALSE
    PuppetServer = FALSE
    Faults = {"kill"}
INVARIANTS
    CurrentWhole
SYMMETRY CodeIdSymmetry
