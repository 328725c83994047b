\* Three writers of both scripts, beside a read-only export and a diagnostics.
CONSTANTS
    r1 = r1
    r2 = r2
    m1 = m1
    m2 = m2
    d1 = d1
    Sessions = {r1, r2, m1, m2, d1}
    Manager = {m1, m2}
    ReadOnly = {m2, d1}
    Diagnostics = {d1}
    Nobody = Nobody
    NoSentinel = NoSentinel
    MaxKills = 1
    MaxFaults = 1
SPECIFICATION Spec
SYMMETRY RunnerSymmetry
INVARIANTS TypeOK GivesBackWhatItTook AutoExecRecovered
PROPERTY LockedOpensAreQuiet
CHECK_DEADLOCK FALSE
