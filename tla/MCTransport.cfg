SPECIFICATION TransportSpec
CONSTANTS
    p1 = p1
    p2 = p2
    c1 = c1
    c2 = c2
    t1 = t1
    t2 = t2
    g1 = g1
    o1 = o1
    o2 = o2
    m1 = m1
    m2 = m2
    m3 = m3
    w1 = w1
    w2 = w2
    small = small
    large = large
    huge = huge
    Absent = Absent
    Pending = Pending
    Orphan = Orphan
    None = None
    Calls <- MCCalls
    OpIds <- MCOps
    OpOf <- MCOpOf
    Size <- MCSize
    Epochs <- MCEpochs
    Clients <- MCCalls
    Tasks <- MCTasks
    Bindings <- MCBindings
    Grants <- MCGrants
    FenceOps <- MCFenceOps
    StoreOps <- MCStoreOps
    StoreBodies <- MCStoreBodies
    StoreSize <- MCStoreSize
    Agents <- MCAgents
    Windows <- MCWindows
    Tools <- MCTools
    OnDemand <- MCTools
    KeyTools <- MCTools
    KeyWindows <- MCKeyWindows
    MaximumCount = 1
    MaximumBytes = 1
    ReservationBytes = 1
    MaximumTerminalResultBytes = 1
    MaxGeneration = 2
    MaxExpiries = 1
    TooLarge = small
    StoreCount = 3
    StoreLimit = 7
    StoreReservation = 3
    StoreResultLimit = 3
    MaxKeys = 1
    MaxRevision = 3
    MaxWindowKeys = 2
    MaxFaultRevision = 2
    MaxEpoch = 1
    MaxFaults = 1
    MaxEdits = 2
    MaxTurns = 2
    MaxLosses = 1
    MaxBoundaries = 1
    MaxFailures = 1
SYMMETRY MCSymmetry
INVARIANTS ScopeCoversNative WorkRunsInOwnScope AdmissionIsCurrent OutcomeTellsExecution LiveKeyKept TurnAccountsForEdits
PROPERTIES TerminalIsStable OnlyOfferedToolsRun
CHECK_DEADLOCK FALSE
