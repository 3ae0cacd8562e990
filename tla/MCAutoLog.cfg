SPECIFICATION Spec
CONSTANTS
    Modes = {"always", "while_armed"}
    MaxFiles = 2
    MaxSeqno = 2
    HeaderLen = 2
    MsgSizes <- Sizes
    MsgHeader = 1
    ChunkLen = 3
    BufferLen = 8
    PartialLen = 4
    SeqMod = 8
    MaxBack = 2
    MaxAhead = 3
INVARIANTS
    TimersMatchFile
    LoggedWhileArmed
    AckedIsOnDisk
    
    InsideBuffer
    
    SeqFollows
CHECK_DEADLOCK FALSE
