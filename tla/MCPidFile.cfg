SPECIFICATION Spec
CONSTANTS
    Procs = {p1, p2, p3, p4}
    p1 = p1
    p2 = p2
    p3 = p3
    p4 = p4
    None = None
    Stale = Stale
INVARIANTS
    TypeOK
    ServingIsSignalable
PROPERTIES
    IncumbentKept
SYMMETRY Interchangeable
CHECK_DEADLOCK FALSE
