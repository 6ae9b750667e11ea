SPECIFICATION Spec
CONSTANTS
    HealthFailureThreshold = 2
    MaxStarts = 1
    MaxStops = 1
    MaxRestarts = 1
INVARIANTS AnnouncedStateIsTrue
PROPERTIES RestartAnswered
CHECK_DEADLOCK FALSE
