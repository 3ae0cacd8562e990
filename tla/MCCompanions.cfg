SPECIFICATION Spec
CONSTANTS
    Missions <- SomeMissions
    Depth = 2
    CommandDepth = 2
    ReportDepth = 1
INVARIANTS
    ArmedWasChecked
    EndsSafe
PROPERTY
    Answered
