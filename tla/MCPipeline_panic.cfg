CONSTANTS
    Filters = 1
    Workers = {w1}
    QueueSize = 1
    MaxFaults = 1
    Configs <- CliConfig
SPECIFICATION Spec
INVARIANTS
    PanicIsNeverSilent
