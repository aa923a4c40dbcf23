CONSTANTS
    Keys = {"k"}
    Cases <- MCCases
    SizeOf <- MCSizeOf
    Written <- MCWritten
    Now = 2
    MaxWrites = 1
CHECK_DEADLOCK FALSE
SPECIFICATION Spec
INVARIANTS
    NothingResurrected
    OnlyPromisedRemoved
    CurrentKept
    AccountedOnce
