SPECIFICATION Spec
CONSTANTS
    Instruments <- OneMarket
    Signals <- ThreeEntries
    InstrumentOf <- AllEurusd
    FillTime <- OneTickApart
    NoSignal = NoSignal
    MaxSignalAge = 1
    MaxQuoteAge = 1
    Lookback = 1
    Retention = 1
    HistoryWindow = 2
    RejectionLimit = 2
    Daemon = TRUE
    DryRuns <- AnyRuns
    MaxTime = 3
    MaxFaults = 1
INVARIANTS
    TypeOK
    AtMostOneAlert
    DecisionsRemembered
    AlertsAreClaimed
    ConfirmedTradeHoldsMarket
    RejectionsAudited
    OutcomesAreReal
    FaultlessTradesExclude
PROPERTIES
    ImplementsProtocol
