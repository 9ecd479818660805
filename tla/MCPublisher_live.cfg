SPECIFICATION FairSpec
CONSTANTS
    Envs = {e1, e2}
    Files = {f}
    Vers = {v1, v2}
    Deployers = {d1}
    Gone = Gone
    Unread = Unread
    NoEnv = NoEnv
    f = f
    v1 = v1
    v2 = v2
    d1 = d1
    e1 = e1
    e2 = e2
    MaxDeploys = 2
    MaxEnds = 2
    Waits = {FALSE}
    Faults = {"r10k", "seal", "archive"}
PROPERTIES
    DeployedIsServed
CHECK_DEADLOCK FALSE
