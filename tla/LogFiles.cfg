SPECIFICATION FilesSpec
CONSTANTS
    Loggers = {flight, telemetry}
    Device = {u1, u2, u3, u4}
    min_free_space = 1
    max_log_files = 2
    MaxIndex = 5
    StatFails = TRUE
    Stuck = {1}
INVARIANTS
    OpenNotDeleted
    
PROPERTY
    OldestFirst
CHECK_DEADLOCK FALSE
