SPECIFICATION Spec
CONSTANTS
    a = a
    c = c
    d = d
    git = git
    x = x
    y = y
    z = z
    Up = Up
    None = None
    Most = 3
    Sorted <- PathsInOrder
    Excluded = {git}
    Contents = {x, y, z}
    Size <- SizeOf
    Modes = {"0644", "0755", "0700"}
    Executable = {"0755", "0700"}
    Targets <- SomeTargets
    Trees <- SomeTrees
    MaxBytes = 3
    MaxEntries = 2
    MaxEdits = 1
INVARIANTS SealedIsReproducible
CHECK_DEADLOCK FALSE
