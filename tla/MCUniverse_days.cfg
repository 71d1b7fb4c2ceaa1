SPECIFICATION Spec
CONSTANTS
    s1 = s1  s2 = s2
    NoTicker = NoTicker
    Symbols = {s1, s2}
    Volumes = {1, 2}
    QualifyingVolume = 1
    TopN = 1
    MaxDay = 2
    RunsPerDay = 2
SYMMETRY Symmetry
CHECK_DEADLOCK FALSE
INVARIANTS
    TypeOK
    SymbolsBehindSnapshots
    ActiveAsSeen
PROPERTIES
    UniverseAtStable
    TierOneBounded
