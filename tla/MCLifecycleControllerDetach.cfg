SPECIFICATION Spec
CONSTANTS
    HealthFailureThreshold = 2
    MaxStarts = 1
    MaxStops = 1
    MaxRestarts = 0
PROPERTY StopDetaches
CHECK_DEADLOCK FALSE
