SPECIFICATION LiveSpec
CONSTANTS
    w = w r1 = r1 r2 = r2 h1 = h1 h2 = h2 h3 = h3
    Nothing = Nothing
    Ops = {w, r1}
    ReadOnly = {r1}
    Hosts = {h1, h2}
    HostOf <- MCHostOf2
    RootOf <- MCRootOf
    Mortal = {h1, h2}
    Pids = {1, 2}
    MaxStarts = 2
    MaxFaults = 1
    QuickKills = TRUE
    QuickStarts = TRUE
    LateMarkers = FALSE
INVARIANT RunnerInvariant
PROPERTIES EveryCallReturns KillsAreSafe
CHECK_DEADLOCK FALSE
