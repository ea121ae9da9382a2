SPECIFICATION FairSpec
CONSTANTS
    Kills = {k1}
    Streams = {s1}
    Templates = {a, b}
    NoTemplate = NoTemplate
    MaxPods = 2
    MaxReplicas = 2
    MaxChanges = 2
    MaxCrashes = 1
    MaxFailures = 1
INVARIANTS
    TypeOK
    KilledWhenOk
PROPERTIES
    StatusSettles
    StreamsSettle
CHECK_DEADLOCK FALSE
