SPECIFICATION MCSpec
CONSTANTS
    NItems = 2
    NRuns = 2
    NQueries = 2
    MaxRows = 2
    NCalls = 2
    Templates = {"research", "communicate", "own"}
    Defaults <- MCDefaults
    Successors <- MCSuccessors
    CustomKeys = {"custom"}
    NoKey = "none"
    NoTemplate = "nothing"
    NTasks = 3
PROPERTIES
    ResetRestoresDefaults
CHECK_DEADLOCK FALSE
