SPECIFICATION Spec
CONSTANTS
    kA = kA
    kB = kB
    j1 = j1
    j2 = j2
    j3 = j3
    NoJob = NoJob
    Keys <- MCKeys
    Jobs <- MCJobs
    KeyOf <- MCKeyOf
    QueueCap = 1
    MaxLives = 2
PROPERTIES
    NoJobCutOffByReExec
CHECK_DEADLOCK FALSE
