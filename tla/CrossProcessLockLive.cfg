SPECIFICATION LiveSpec
CONSTANTS
    Procs = {p1, p2}
    MaxAcquisitions <- MCOneTwice
    MaxFaults = 1
    TimelyHeartbeats = TRUE
    QuickEvictions = FALSE
    CrashInEviction = TRUE
    MayTimeOut = FALSE
    NoOwner = NoOwner
    NoDir = NoDir
CHECK_DEADLOCK FALSE
PROPERTIES WaiterServed
