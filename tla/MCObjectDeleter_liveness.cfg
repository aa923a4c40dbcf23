CONSTANTS
    o1 = o1
    o2 = o2
    o3 = o3
    Workers = {w1, w2}
    Objects <- MCTwoObjects
    DeleteMarkers = {}
    Contended <- MCOneContended
    WithoutETag = {}
    Configs <- MCLivenessConfigs
    QueueSize = 1
    None = None
SPECIFICATION FairSpec
PROPERTIES
    Termination
    MaxDeleteStops
    ImplementsDeletion
