SPECIFICATION ResetSpec
CONSTANTS
    s1 = s1
    s2 = s2
    s3 = s3
    s4 = s4
    NoSession = NoSession
    Sessions <- MCSessions
    MemoryUpdateInterval = 2
    MaxInFlight = 2
PROPERTIES
    FreshAfterSummary
CHECK_DEADLOCK FALSE
