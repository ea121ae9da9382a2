SPECIFICATION Spec
CONSTANTS
    Clusters = {cluster1, cluster2}
    CodecCluster = cluster1
    Panels = {runner, codec}
    CodecPanel = codec
    Slots = {s1, s2}
    NoStream = NoStream
    MaxClicks = 1
    MaxElsewhere = 0
    MaxFailures = 0
INVARIANT
    LockedWhileRunning
