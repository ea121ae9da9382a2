SPECIFICATION Spec
CONSTANTS
    Requests = {q1, q2}
    Timers = {t1, t2}
    Runners = {runner1}
    Workers = {}
    CodecWorker = codec
    Configs = {steady}
    Fixed = Fixed
    NoTimer = NoTimer
    MaxInstances = 1
    MaxOutsideWrites = 0
    MaxApiFailures = 0
    MaxRestarts = 0
PROPERTIES
    NoEarlyCutoff
CHECK_DEADLOCK FALSE
