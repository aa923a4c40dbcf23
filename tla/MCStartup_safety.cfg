CONSTANTS
    CommandLines <- MCCommandLines
    Configs <- MCConfigs
    MaxCalls = 3
CHECK_DEADLOCK FALSE
SPECIFICATION Spec
INVARIANTS
    NoUnconfirmedDeletion
    ModesAgree
    EventsBracketRun
    MainContract
PROPERTIES
    AllVersionsHonoured
