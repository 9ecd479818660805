SPECIFICATION Spec
CONSTANTS
    Procs = {once}
    Daemons = {}
    Overlap = FALSE
    Envs = {e1}
    e1 = e1
    e2 = e2
    CodeIds = {v1, v2, v3}
    None = None
    Prefixed <- MCDistinctNames
    Keep = 1
    MinAge = 1
    AgeCap = 2
    DownloadTimeout = 1
    Prune = FALSE
    PuppetServer = FALSE
    Faults = {"disk", "kill"}
INVARIANTS
    TypeOK
    CurrentPresent
PROPERTIES
    KeepHonoured
SYMMETRY CodeIdSymmetry
