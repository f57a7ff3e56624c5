SPECIFICATION FairSpec
CONSTANTS
    wA = wA
    wB = wB
    i1 = i1
    i2 = i2
    i3 = i3
    i4 = i4
    NoInode = NoInode
    Workers <- MCWorkers
    KeyCount = 2
    Creds <- MCCreds
    SizeOf <- MCSizeOf
    Inodes <- MCInodes
INVARIANTS
    TypeOK
    RetriesOnlyKeyErrors
    GivesUpExhausted
    NoSwapFailsAlone
PROPERTIES
    EveryExecutionEnds
CHECK_DEADLOCK FALSE
