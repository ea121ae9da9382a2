SPECIFICATION FairSpec
CONSTANTS
    MaxAttempts = 2
    MaxFailures = 1
    MaxBreaks = 1
    MaxRestarts = 1
INVARIANTS
    TypeOK
    HealthyWhenDone
    RegisteredWhenDone
PROPERTY
    Resumable
CHECK_DEADLOCK FALSE
