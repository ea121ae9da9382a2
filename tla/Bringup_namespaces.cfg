SPECIFICATION Spec
CONSTANTS
    MaxAttempts = 2
    MaxFailures = 0
    MaxBreaks = 0
    MaxRestarts = 0
INVARIANT
    WorkshopOnBothClusters
CHECK_DEADLOCK FALSE
