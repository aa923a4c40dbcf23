CONSTANTS
    Filters = 1
    Workers = {w1, w2}
    QueueSize = 1
    MaxFaults = 1
    Configs <- MCConfigs
SPECIFICATION FairSpec
INVARIANTS
    NoDeletionAfterReturn
    FailedKeysShowInExitCode
    CtrlCExitCode
    EndEventIsLast
PROPERTIES
    RunEnds
