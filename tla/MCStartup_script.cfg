CONSTANTS
    CommandLines <- NoCommandLines
    Configs <- MCConfigs
    MaxCalls = 3
CHECK_DEADLOCK FALSE
SPECIFICATION Spec
INVARIANTS
    ScriptedFilterApplies
