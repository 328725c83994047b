SPECIFICATION Spec
CONSTANTS
    Procs = {p1, p2, p3}
    MaxAcquisitions <- MCTwice
    MaxFaults = 0
    TimelyHeartbeats = TRUE
    QuickEvictions = TRUE
    CrashInEviction = FALSE
    MayTimeOut = TRUE
    NoOwner = NoOwner
    NoDir = NoDir
SYMMETRY Symmetry
CHECK_DEADLOCK FALSE
INVARIANT LockSafe
PROPERTIES ReplacementSurvives ImplementsDatabaseLock
