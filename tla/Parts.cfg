SPECIFICATION PartsSpec
CONSTANTS
    c1 = c1  c2 = c2  c3 = c3  c4 = c4  c5 = c5  p1 = p1  p2 = p2
    Callers = {c1, c2, c3, c4, c5}
    Processes = {p1, p2}
    ProcOf <- MCProcOf
    ReadOnly = {c3, c5}
    Nobody = Nobody
    MaxLines = 3
    MarkerLines = {1, 3}
    o1 = o1  o2 = o2  g1 = g1  g2 = g2
    Operations = {o1, o2}
    Gates = {g1, g2}
    MaxGateFaults = 1
    x1 = x1  x2 = x2  d1 = d1
    Transactions = {x1, x2}
    DirectWrites = {d1}
    code = code  fresh = fresh  form = form  freshForm = freshForm
    Modules = {code, fresh, form, freshForm}
    Documents = {form, freshForm}
    Present = {code, form}
    Batches <- MCBatches
    t1 = t1  t2 = t2  t3 = t3  t4 = t4
    Tables = {t1, t2, t3, t4}
    FileOf <- MCFileOf
    NotScanned = NotScanned
    MaxHops = 3
    MaxUnread = 1
    Directories <- MCDirectories
    k1 = k1  k2 = k2
    Cleanups = {k1}
    Orphans = {k2}
    TrackedRun = TrackedRun
    MaxReuses = 1
    MaxTrackedFaults = 2
    r1 = r1  r2 = r2
    Rollouts = {r1, r2}
    claude = claude  cursor = cursor
    Targets <- MCTargets
    CursorRules = cursor
    InitialFiles <- MCInitialFiles
    NoFile = NoFile
    MaxEdits = 1
    MaxRolloutFaults = 1
    u1 = u1  u2 = u2
    Updaters = {u1, u2}
    Channels = {"stable", "beta"}
    RollingChannels = {}
    MaxVersion = 2
    MaxUpdateFaults = 1
    NoState = NoState
    Mixed = Mixed
CHECK_DEADLOCK FALSE
INVARIANTS QueueSafe ExecutorSafe GateSafe TransactionSafe OkIsPersisted
INVARIANTS ImportSafe RelinkSafe LeftoversKnown RolloutSafe
PROPERTIES QueueUsesDatabaseLock ExecutesScript EveryBlockerClears
PROPERTIES LostOnlyToOverlap SweepSparesYoung TrackedSafe
PROPERTIES RolloutHonest UpdateHonest PinHeld EveryPartEnds
