SPECIFICATION TimedSpec
CONSTANTS
    Streams = {1}
    Numbers = {0, 1}
    SeqMod = 2
    QueueLen = 2
    DisableMayFail = TRUE
    SilenceTicks = 2
    MaxArrivals = 2
PROPERTY
    GreenAfterCall
