SPECIFICATION Spec
CONSTANTS
    research = research
    trip = trip
    Sessions = {s1, s2}
    Workflows = {w1, w2}
    Templates = {research}
    TaskKeys <- MCTermsOnly
    EnterTrip = NoTemplate
    NoTemplate = NoTemplate
    NoWorkflow = NoWorkflow
    Unset = Unset
    TaskUpdates <- MCDates
    WorkflowStatuses <- MCReactivate
SYMMETRY Symmetry
INVARIANTS
    TypeOK
    OneActive
PROPERTIES
    ViewChangesDatesOnly
CHECK_DEADLOCK FALSE
