SPECIFICATION Spec
CONSTANTS
    Procs = {p1, p2}
    p1 = p1
    p2 = p2
    None = None
    Stale = Stale
INVARIANTS
    OneWinner
SYMMETRY Interchangeable
CHECK_DEADLOCK FALSE
