SPECIFICATION FairSpec
CONSTANTS
    Runs <- ThreeRuns
    EventOf <- Scheduled
    Signals <- TwoSignals
    NoSignal = NoSignal
    NoRun = NoRun
    NoState = NoState
    MaxLosses = 1
    MaxReruns = 1
CHECK_DEADLOCK FALSE
INVARIANTS
    TypeOK
    PostedOnce
    AlertsAreHandedOn
PROPERTIES
    CacheNeverForgets
    RunsEnd
