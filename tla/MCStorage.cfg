SPECIFICATION FairSpec
CONSTANTS
    Workers = {w1, w2}
    Main = main
    NoTask = noTask
    MaxFiles = 2
    Capacity = 1
    MountRetries = 1
INVARIANTS
    IInv
    OneRecorder
    PlaybackSeesClosedFile
    CancelledStartNeverActive
    HeaderNeverOverstates
    StartIsAnswered
PROPERTIES
    SavedWhenIdle
    HandlesAccounted
    StopReachesRest
