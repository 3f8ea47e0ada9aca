SPECIFICATION AppFairSpec
CONSTANTS
    Workers = {w1}
    Main = main
    NoTask = noTask
    MaxFiles = 1
    Capacity = 0
    MountRetries = 1
INVARIANTS
    RedTellsActivity
    AppInv
PROPERTIES
    OneEventPerPress
    UsesRecorderAsClient
    AppSettles
