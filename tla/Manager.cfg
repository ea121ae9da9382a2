SPECIFICATION FairSpec
CONSTANTS
    Requests = {q1, q2}
    Timers = {t1, t2}
    Runners = {runner1, runner2}
    Workers = {worker1}
    CodecWorker = codec
    Configs = {steady, rate}
    Fixed = Fixed
    NoTimer = NoTimer
    MaxInstances = 2
    MaxOutsideWrites = 1
    MaxApiFailures = 1
    MaxRestarts = 1
INVARIANT
    TypeOK
    NoOrphanTimer
    GuardedUnlessDisturbed
PROPERTY
    ImplementsControl
    TTLAutoStopsUndisturbed
CHECK_DEADLOCK FALSE
