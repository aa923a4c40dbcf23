CONSTANTS
    Workers = {"w1", "w2"}
    Filter = "filter"
    Run = "run"
    Cases <- SafetyCases
CHECK_DEADLOCK FALSE
SPECIFICATION Spec
INVARIANTS
    CountsAgree
    CallbackContract
PROPERTIES
    RunReturns
