SPECIFICATION CardFairSpec
CONSTANTS
    Hosts <- MCHosts
    Devices <- MCDevices
    SdscLimit = 4
    MaxRetries = 2
    MaxErrors = 2
INVARIANTS
    CardInv
    BusAgrees
    CapacityRight
    TunedPhaseWorks
PROPERTIES
    InitAnswers
CHECK_DEADLOCK FALSE
