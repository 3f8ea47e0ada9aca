SPECIFICATION Spec
CONSTANTS
    Workers = {w1, w2}
    Main = main
    NoTask = noTask
    MaxFiles = 2
    Capacity = 2
    MountRetries = 2
SYMMETRY Symmetry
INVARIANT
    BusyHasTask
