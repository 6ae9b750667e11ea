SPECIFICATION ProgressSpec
CONSTANTS
    e1 = e1
    e2 = e2
    l1 = l1
    External <- MCExternal
    Lifecycle <- MCLifecycle
    Capacity = 1
    None = None
    root = root
    child = child
    second = second
    third = third
    next = next
    p = p
    NoTask = NoTask
    Unbound = Unbound
INVARIANTS OnePumpInFlight NoLostWakeup
PROPERTIES ImplementsContract EveryItemAnswered AcceptedSettles
CHECK_DEADLOCK FALSE
