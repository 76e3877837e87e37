SPECIFICATION Spec
CONSTANTS
    EntryModels = {"signal_close", "zone_reclaim", "origin_limit"}
    OnePositionPerPair = TRUE
    TrendFilter = TRUE
    InvalidateOnTrendChange = TRUE
    PendingExpiry = "bars"
    ExpiryBars = 3
    MaxBars = 5
    MaxGap = 1
CHECK_DEADLOCK FALSE
INVARIANTS
    TypeOK
    SetupsConserved
    TradesDisjoint
    NoPathBeforeEntry
    FillsUnbroken
    EveryFillHasOneFate
