SPECIFICATION Spec
CONSTANTS
    s1 = s1  s2 = s2
    NoTicker = NoTicker
    Symbols = {s1, s2}
    Volumes = {1, 2}
    QualifyingVolume = 1
    TopN = 1
    MaxDay = 1
    RunsPerDay = 1
CHECK_DEADLOCK FALSE
INVARIANT
    NewListingDetected
