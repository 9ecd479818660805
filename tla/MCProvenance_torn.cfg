SPECIFICATION Spec
CONSTANTS
    Envs = {e1, e2}
    e1 = e1
    e2 = e2
    Commits = {c1, c2}
    Modules = {m1, m2}
    CodeIds = {i1, i2}
    c1 = c1
    c2 = c2
    m1 = m1
    m2 = m2
    i1 = i1
    i2 = i2
    Seals <- SealsOf
    First <- FirstOf
    Publishers = {p1}
    p1 = p1
    None = None
    MaxDeploys = 2
    MaxFailed = 1
    Faults = {"short"}
INVARIANTS
    PartialWriteCostsOne
SYMMETRY Interchangeable
CHECK_DEADLOCK FALSE
