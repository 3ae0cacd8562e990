SPECIFICATION Spec
CONSTANTS
    ConfFiles <- Three
    ConfDirs <- ThreeDirs
    Argvs <- SomeArgvs
    FirstPort = 14550
INVARIANT
    PortsApart
CHECK_DEADLOCK FALSE
