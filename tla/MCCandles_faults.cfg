SPECIFICATION FairSpec
CONSTANTS
    s1 = s1
    NoRow = NoRow
    Symbols = {s1}
    Prices = {1, 2}
    MaxMinute = 1
    MaxTrades = 2
    PageLimit = 1
    Window = 2
    CheckSpan = 3
    Events = {"late", "loss", "crash", "malformed", "sweep", "check"}
CHECK_DEADLOCK FALSE
INVARIANTS
    TypeOK
    StoredWithinExchange
    VolumeNeverInflated
    FlagIsTrue
    SweepCovers
PROPERTIES
    CandlesNeverRewritten
    SweepEnds
