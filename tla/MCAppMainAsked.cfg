SPECIFICATION AppSpec
CONSTANTS
    Workers = {w1}
    Main = main
    NoTask = noTask
    MaxFiles = 1
    Capacity = 1
    MountRetries = 1
PROPERTY
    RecordingIsAsked
