SPECIFICATION FairSpec
CONSTANTS
    Keys = {1, 2}
    w1 = w1  w2 = w2  w3 = w3
    v1 = v1  v2 = v2
    p1 = p1  p2 = p2
    NoRow = NoRow
    NoPid = NoPid
    Vals = {v1, v2}
    Writers = {w1, w2, w3}
    Pids = {p1, p2}
    PoolSize = 2
    Tables <- SharedTables
    PrimaryKey <- SharedPrimaryKey
    ConflictColumns <- SharedConflictColumns
    Calls <- SharedCalls
INVARIANTS
    TypeOK
    StagedIsOwn
    ReturnedIsStored
    HeldOnce
    DeadlockNeedsDisorder
PROPERTIES
    FirstWriteWins
    ImplementsStore
    CallEnds
