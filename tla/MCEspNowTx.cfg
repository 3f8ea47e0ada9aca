SPECIFICATION TxSpec
CONSTANTS
    SeqMod = 2
    EndFlags = {TRUE, FALSE}
    Recordings = {1, 2}
    MaxStreams = 2
    MaxPackets = 3
INVARIANTS
    StreamGrammar
    ConfirmedWasSent
