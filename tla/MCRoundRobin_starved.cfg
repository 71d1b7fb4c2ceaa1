SPECIFICATION AnsweredSpec
CONSTANTS
    s1 = s1  s2 = s2  s3 = s3  s4 = s4
    Symbols = {s1, s2, s3}
    Refused = {s1}
    Attempts = 2
    BindsBeforeCast = FALSE
    MaxChanges = 0
    Lists <- FixedList
    BatchSize <- Batches
PROPERTIES
    EveryoneServedAgain
