SPECIFICATION FairSpec
CONSTANTS
    Requests = {q1}
    Timers = {t1}
    Runners = {runner1}
    Workers = {}
    CodecWorker = codec
    Configs = {steady}
    Fixed = Fixed
    NoTimer = NoTimer
    MaxInstances = 1
    MaxOutsideWrites = 1
    MaxApiFailures = 0
    MaxRestarts = 0
PROPERTIES
    TTLAutoStops
CHECK_DEADLOCK FALSE
