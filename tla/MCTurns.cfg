SPECIFICATION TurnsSpec
CONSTANTS
    root = root
    child = child
    p = p
    pid1 = pid1
    pid2 = pid2
    id1 = id1
    id2 = id2
    Absent = Absent
    Pids <- MCPids
    Ids <- MCIds
    BoundTasks <- MCPair
    Models <- MCModels
    Definitions <- MCDefinitions
    Binding <- MCBinding
    NoTask = NoTask
    Unbound = Unbound
    Tasks <- MCPair
    Processes <- MCProcesses
    Parent <- MCParent
    ProcessOf <- MCAllBound
    Conversation <- MCConversation
    Deps <- MCDeps
    MaxWorkers = 2
    MaxCoordinators = 1
    MaxTurns = 2
    MaxOps = 2
    MaxCancelled = 2
    MaxRestarts = 1
    MaxInputs = 3
    SteeringTurns = 2
    MaxCrashes = 1
    MaxFailures = 1
    Retention = 1
    MaxStarts = 3
    MaxTime = 1
    MaxTools = 1
    MaxActs = 2
    MaxFaults = 1
INVARIANTS NativeExclusive SettledIsResolved SteeringIsTruthful ScansTakeTheDead
SYMMETRY MCSymmetry
PROPERTIES ReviewedFirst ToolsKeepDocuments
CHECK_DEADLOCK FALSE
