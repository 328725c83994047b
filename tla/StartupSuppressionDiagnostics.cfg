\* A writer beside a diagnostics, nothing failing.
CONSTANTS
    r1 = r1
    r2 = r2
    m1 = m1
    m2 = m2
    d1 = d1
    Sessions = {r1, d1}
    Manager = {}
    ReadOnly = {d1}
    Diagnostics = {d1}
    Nobody = Nobody
    NoSentinel = NoSentinel
    MaxKills = 0
    MaxFaults = 0
SPECIFICATION Spec
PROPERTY NoUnattendedStartup
CHECK_DEADLOCK FALSE
