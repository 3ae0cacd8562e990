SPECIFICATION Spec
CONSTANTS
    Endpoints <- MCEndpoints
    Configured <- MCConfigured
    Kind <- MCKind
    Name <- MCName
    Group <- MCGroup
    InFilter <- MCInFilter
    OutFilter <- MCOutFilter
    SysComps <- MCSysComps
    Messages <- MCMessages
    LogMessages <- MCLogMessages
    LogId <- MCLogId
    SnifferSys = 2
    DedupEnabled = TRUE
    RemoveNames = {"extra"}
    NoGroup = NoGroup
    NoSniffer = NoSniffer
    Broadcast = Broadcast
INVARIANTS
    NeverEchoed
    GroupSharesIds
    OnlyWhereHeard
    HeardIsReachable
