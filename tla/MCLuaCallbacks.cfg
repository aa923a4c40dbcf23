CONSTANTS
    Setups <- MCSetups
    Listing = 2
CHECK_DEADLOCK FALSE
SPECIFICATION Spec
INVARIANTS
    FailsClosed
    OnlyFilterErrorsStop
PROPERTIES
    TameRunEnds
