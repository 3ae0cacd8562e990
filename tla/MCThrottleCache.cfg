SPECIFICATION FairSpec
CONSTANTS
    Endpoints = {"uart", "tcp", "link"}
    Lists <- TheLists
    CanClose = {"tcp"}
    Allowed <- TheAllowed
    MsgIds = {1, 2}
    Cacheable <- TheCacheable
    Rates <- TheRates
    NewRates <- TheNewRates
    MaxPeriod = 3
    CacheMax = 2
    TicksPerMs = 2
    RetryMs = 1
    MaxMsgs <- TheMaxMsgs
INVARIANTS
    CacheExact
PROPERTIES
    TimerInTime
    NoOvertaking
    CachedLeaves
