SPECIFICATION FairSpec
CONSTANTS
    Clusters = {cluster1, cluster2}
    CodecCluster = cluster1
    Panels = {runner}
    CodecPanel = codec
    Slots = {s1, s2}
    NoStream = NoStream
    MaxClicks = 2
    MaxElsewhere = 1
    MaxFailures = 1
INVARIANTS
    TypeOK
    OneStream
    PaneOfOneCluster
PROPERTIES
    StaysRight
    Converges
