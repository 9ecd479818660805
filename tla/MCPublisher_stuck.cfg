SPECIFICATION Spec
CONSTANTS
    Envs = {e1}
    Files = {f, g}
    Vers = {v1, v2}
    Deployers = {d1, d2}
    Gone = Gone
    Unread = Unread
    NoEnv = NoEnv
    f = f
    g = g
    v1 = v1
    v2 = v2
    d1 = d1
    d2 = d2
    e1 = e1
    MaxDeploys = 3
    MaxEnds = 0
    Waits = {FALSE}
    Faults = {"r10k"}
INVARIANTS
    AlwaysRepaired
SYMMETRY Interchangeable
CHECK_DEADLOCK FALSE
