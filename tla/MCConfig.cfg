SPECIFICATION Spec
CONSTANTS
    ConfFiles <- SomeConfFiles
    ConfDirs <- SomeConfDirs
    Argvs <- SomeArgvs
    FirstPort = 14550
INVARIANTS
    LaterWins
    StartsIffValid
CHECK_DEADLOCK FALSE
