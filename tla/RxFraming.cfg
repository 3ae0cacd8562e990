SPECIFICATION FairSpec
CONSTANTS
    Sizes = {2, 3}
    Classes = {"ok", "unknown", "bad", "cut", "tail"}
    HdrLen = 1
    MaxPacket = 3
    BufMax = 4
    Kinds = {"tcp", "uart"}
    Bauds = 2
    MaxPackets = 4
    MaxBreaks = 1
    MaxKernel = 4
INVARIANTS
    Room
    
    
    BaudIsRight
PROPERTY
    AllRouted
CHECK_DEADLOCK FALSE
