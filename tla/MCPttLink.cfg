SPECIFICATION LinkSpec
CONSTANTS
    SeqMod = 2
    EndFlags = {FALSE}
    Recordings = {}
    MaxStreams = 2
    MaxPackets = 2
    QueueLen = 1
    DisableMayFail = TRUE
CONSTRAINT ShortSecondCall
VIEW LinkView
INVARIANTS
    LinkInv
    RefusedIsSilent
    GapMeansLoss
    CleanLosesNothing
