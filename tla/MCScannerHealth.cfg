SPECIFICATION Spec
CONSTANTS
    Fresh = 3
    Wait = 1
    JobLimit = 2
    Day = 4
    MinimumRuns = 2
    Checkpoints <- OneCheckpoint
    MaxClock = 5
    MaxRuns = 2
    MaxBeats = 2
    MaxReruns = 1
CHECK_DEADLOCK FALSE
INVARIANTS
    TypeOK
    RecoveryIsReal
PROPERTIES
    UnhealthyIsEarned
