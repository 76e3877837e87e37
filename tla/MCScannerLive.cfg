SPECIFICATION FairSpec
CONSTANTS
    Instruments <- TwoMarkets
    Signals <- MixedEntries
    InstrumentOf <- MixedMarkets
    FillTime <- MixedTimes
    NoSignal = NoSignal
    MaxSignalAge = 1
    MaxQuoteAge = 1
    Lookback = 2
    Retention = 3
    HistoryWindow = 3
    RejectionLimit = 2
    Daemon = TRUE
    DryRuns <- RealRuns
    MaxTime = 2
    MaxFaults = 1
PROPERTIES
    ScansEnd
    FoundIsDecided
    EndedTradeReleases
