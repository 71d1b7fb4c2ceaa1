SPECIFICATION FairSpec
CONSTANTS
    s1 = s1
    Unset = Unset
    SymbolList <- NoSymbols
    Loops = {"trades", "funding", "l2_top20", "liquidations"}
    AtOnce = {"divergence"}
    HeartbeatTimeout = 1
    FlushSeconds = 1
    Threshold <- Thresholds
    AlertInterval = 1
    SendTicks = 2
    MaxAge = 6
CHECK_DEADLOCK FALSE
PROPERTIES
    FreshnessKeepsChecking
