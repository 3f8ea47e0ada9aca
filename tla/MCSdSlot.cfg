SPECIFICATION SlotSpec
CONSTANTS
    Cards <- MCCards
    Capacity = 3
    BlockSize = 3
    WordMod = 9
    MaxCount = 2
    MaxCalls = 2
    BounceBuffers = {TRUE, FALSE}
    IoWord = 2
    IoBlock = 4
    CountMod = 4
    RegMod = 32
    IoAddrs = {0, 9}
    IoSizes = {0, 1, 3, 4, 5, 6, 8, 16, 20}
    CisPart = 4
    Codes = {0, 5}
    End = 0
    MaxCis = 12
    CisSizes = {1, 6, 11}
    CisLimits = {0, 5}
    MaxIoCalls = 2
INVARIANTS
    XferInv
    OkMeansDone
    SplitLeavesPrefix
    IoInv
    CisReadWhole
PROPERTIES
    EraseKeepsTheRest
    CallsReturn
CHECK_DEADLOCK FALSE
