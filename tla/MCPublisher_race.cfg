SPECIFICATION Spec
CONSTANTS
    Envs = {e1}
    Files = {f, g}
    Vers = {v1, v2}
    Deployers = {d1, d2}
    Gone = Gone
    Unread = Unread
    NoEnv = NoEnv
    f = f
    g = g
    v1 = v1
    v2 = v2
    d1 = d1
    d2 = d2
    e1 = e1
    MaxDeploys = 2
    MaxEnds = 1
    Waits = {FALSE, TRUE}
    Faults = {"r10k", "seal", "archive", "deployer", "reload"}
INVARIANTS
    TypeOK
    AdvertisedOnDisk
    SignalledIsSealed
    ServableUnlessTorn
PROPERTIES
    KeepsLastGood
SYMMETRY Interchangeable
CHECK_DEADLOCK FALSE
