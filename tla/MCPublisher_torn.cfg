SPECIFICATION Spec
CONSTANTS
    Envs = {e1, e2}
    Files = {f, g}
    Vers = {v1, v2}
    Deployers = {d1}
    Gone = Gone
    Unread = Unread
    NoEnv = NoEnv
    f = f
    g = g
    v1 = v1
    v2 = v2
    d1 = d1
    e1 = e1
    e2 = e2
    MaxDeploys = 2
    MaxEnds = 0
    Waits = {TRUE}
    Faults = {}
INVARIANTS
    AdvertisedWhole
SYMMETRY Interchangeable
CHECK_DEADLOCK FALSE
