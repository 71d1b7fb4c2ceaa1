SPECIFICATION Spec
CONSTANTS
    MaxTime = 8
    TimesPerDay = 2
    Mondays = {0, 3}
    Firsts = {0, 2}
    NewYears = {0}
    KeepDaily = 3
    KeepWeekly = 1
    KeepMonthly = 2
CHECK_DEADLOCK FALSE
INVARIANTS
    TypeOK
    RestorePoint
    PromotedComplete
PROPERTIES
    OnlyBeyondRetention
    SweepLeavesRetention
