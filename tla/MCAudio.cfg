SPECIFICATION AudioSpec
CONSTANTS
    Tasks = {t1, t2, t3}
    NoTask = noTask
SYMMETRY Symmetry
INVARIANTS
    AudioInv
PROPERTY
    ImplementsExclusiveDevice
