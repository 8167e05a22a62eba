SPECIFICATION Spec
CONSTANTS
    research = research
    trip = trip
    Sessions = {s1}
    Workflows = {w1}
    Templates = {research, trip}
    TaskKeys <- MCTaskKeys
    EnterTrip = trip
    NoTemplate = NoTemplate
    NoWorkflow = NoWorkflow
    Unset = Unset
    TaskUpdates <- MCTaskUpdates
    WorkflowStatuses <- MCEndings
SYMMETRY Symmetry
INVARIANTS
    DoneIsCompleted
    TaskDatesFollow
    ArchivedHasNoActive
PROPERTIES
    OverStaysOver
CHECK_DEADLOCK FALSE
