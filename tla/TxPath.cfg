SPECIFICATION FairSpec
CONSTANTS
    Kinds = {"uart", "udp", "tcp"}
    CoalesceSizes = {0, 2}
    TxBufMax = 4
    Sizes = {1, 2}
    Errors = TRUE
    Modes = {"client", "server", "receiver"}
    Senders = {"gcs1", "gcs2"}
    MaxMsgs = 4
    MaxHeard = 2
INVARIANTS
    Framing
    Accounted
PROPERTIES
    TxDrains
    BackToConfigured
CHECK_DEADLOCK FALSE
