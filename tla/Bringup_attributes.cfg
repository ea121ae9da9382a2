SPECIFICATION Spec
CONSTANTS
    MaxAttempts = 2
    MaxFailures = 1
    MaxBreaks = 0
    MaxRestarts = 0
INVARIANT
    AttributesWhenDone
CHECK_DEADLOCK FALSE
