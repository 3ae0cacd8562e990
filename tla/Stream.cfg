SPECIFICATION StreamSpec
CONSTANTS
    Hashes = {h1, h2}
    Period = 2
    RatePeriod = 2
    CacheMax = 2
    MaxTime = 9
INVARIANTS
    RateHeld
    PassedOnce

    
