SPECIFICATION Spec
CONSTANTS
    s1 = s1
    NoRow = NoRow
    Symbols = {s1}
    Prices = {1, 2}
    MaxMinute = 2
    MaxTrades = 2
    PageLimit = 1
    Window = 3
    CheckSpan = 3
    Events = {"sweep"}
CHECK_DEADLOCK FALSE
INVARIANTS
    OkRowsExact
