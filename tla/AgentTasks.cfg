SPECIFICATION MCSpec
CONSTANTS
    NItems = 2
    NRuns = 2
    Single = {"response"}
    NRooms = 2
    NPassengers = 2
    MaxLimit = 2
    Resized = {1}
    NQuotes = 1
    Overlap = {"poll"}
INVARIANTS
    TasksTypeOK
    TaskDoneIsStored
    BusyHasCause
    InsuranceCheckIsOnRecord
    RoomSavesAreLegal
PROPERTIES
    TypedIsKept
CHECK_DEADLOCK FALSE
