SPECIFICATION FairSpec
CONSTANTS
    s1 = s1  s2 = s2  s3 = s3  s4 = s4
    Symbols = {s1, s2, s3, s4}
    Refused = {}
    Attempts = 2
    BindsBeforeCast = TRUE
    MaxChanges = 2
    Lists <- ChangingLists
    BatchSize <- Batches
CHECK_DEADLOCK FALSE
INVARIANTS
    TypeOK
    SliceWithinList
    CursorBehindRows
    RoundComplete
PROPERTIES
    SavedCursorServesAll
