SPECIFICATION LiveSpec
CONSTANTS
    m1 = m1
    m2 = m2
    m3 = m3
    p1 = p1
    p2 = p2
    o1 = o1
    o2 = o2
    OpIds = {o1, o2}
    Stamps = {1, 2}
    MaxRecords = 1
    NoRecord = NoRecord
    Mutations = {m1, m2, m3}
    Requests <- MCOneRequest
    Processes = {p1, p2}
    ProcOf <- MCProcOf
    NoOwner = NoOwner
    Corrupt = Corrupt
CHECK_DEADLOCK FALSE
PROPERTIES EveryCallSettles
