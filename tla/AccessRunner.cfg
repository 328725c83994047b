SPECIFICATION Spec
CONSTANTS
    w = w r1 = r1 r2 = r2 h1 = h1 h2 = h2 h3 = h3
    Nothing = Nothing
    Ops = {w, r1, r2}
    ReadOnly = {r1, r2}
    Hosts = {h1, h2, h3}
    HostOf <- MCHostOf
    RootOf <- MCRootOf
    Mortal = {h1}
    Pids = {1}
    MaxStarts = 2
    MaxFaults = 0
    QuickKills = TRUE
    QuickStarts = TRUE
    LateMarkers = TRUE
INVARIANT RunnerInvariant
PROPERTY KillsAreSafe
SYMMETRY ReaderSymmetry
CHECK_DEADLOCK FALSE
