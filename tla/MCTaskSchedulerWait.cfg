SPECIFICATION FairSpec
CONSTANTS
    root = root
    child = child
    p = p
    NoTask = NoTask
    Unbound = Unbound
    Tasks <- MCPair
    Processes <- MCProcesses
    Parent <- MCParent
    ProcessOf <- MCAllBound
    Conversation <- MCConversation
    Deps <- MCDeps
    MaxWorkers = 2
    MaxCoordinators = 1
    MaxTurns = 1
    MaxOps = 1
    MaxCancelled = 0
    MaxRestarts = 0
PROPERTIES WaitingSuffices
CHECK_DEADLOCK FALSE
