SPECIFICATION Spec
CONSTANTS
    Procs = {p1, p2, p3, p4}
    MaxAcquisitions <- MCOnce
    MaxFaults = 0
    TimelyHeartbeats = TRUE
    QuickEvictions = TRUE
    CrashInEviction = TRUE
    MayTimeOut = FALSE
    NoOwner = NoOwner
    NoDir = NoDir
SYMMETRY Symmetry
CHECK_DEADLOCK FALSE
PROPERTIES ReplacementSurvives
