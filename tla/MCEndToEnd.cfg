SPECIFICATION Spec
CONSTANTS
    Cases <- MCCases
INVARIANTS
    Ledger
    TestsHold
