CONSTANTS
    o1 = o1
    o2 = o2
    o3 = o3
    Workers = {w1, w2}
    Objects <- MCObjects
    DeleteMarkers <- MCDeleteMarkers
    Contended <- MCContended
    WithoutETag <- MCWithoutETag
    Configs <- MCConfigs
    QueueSize = 1
    None = None
SYMMETRY Symmetry
SPECIFICATION Spec
INVARIANTS
    TypeOK
    MaxDeleteCap
    TruthfulReport
    IfMatchProtects
    ObjectsConserved
    StatsAgree
    FailuresVisible
    BatchesFit
