SPECIFICATION FairSpec
CONSTANTS
    s1 = s1
    Unset = Unset
    SymbolList <- OneSymbol
    Loops = {"trades", "funding"}
    AtOnce = {}
    HeartbeatTimeout = 1
    FlushSeconds = 1
    Threshold <- Thresholds
    AlertInterval = 1
    SendTicks = 2
    MaxAge = 6
CHECK_DEADLOCK FALSE
INVARIANTS
    TypeOK
    NoSilentStream
    AlertedOnce
    StaleIsAlerted
    EngineClosedLast
PROPERTIES
    FailureUnwinds
    FreshnessKeepsChecking
