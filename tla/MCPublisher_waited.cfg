SPECIFICATION Spec
CONSTANTS
    Envs = {e1}
    Files = {f, g}
    Vers = {v1, v2}
    Deployers = {d1}
    Gone = Gone
    Unread = Unread
    NoEnv = NoEnv
    f = f
    g = g
    v1 = v1
    v2 = v2
    d1 = d1
    e1 = e1
    MaxDeploys = 1
    MaxEnds = 0
    Waits = {TRUE}
    Faults = {}
INVARIANTS
    WaitedIsAdvertised
SYMMETRY Interchangeable
CHECK_DEADLOCK FALSE
