SPECIFICATION Spec
CONSTANTS
    i1 = i1
    i2 = i2
    Sessions = {s1}
    Requests = {r1, r2}
    Inventories = {i1, i2}
    NoSession = NoSession
    NoRequest = NoRequest
    NoInventory = NoInventory
    Unset = Unset
    MaxCabins = 2
    Intakes <- MCIntakes
    RequestUpdates <- MCEditsThenCloses
    NewBlocks <- MCBlocks
    InventoryEdits <- MCAllocationEdits
SYMMETRY Symmetry
INVARIANTS
    ReservedWithinAllocated
    PurchasedBookingsReserved
    ReservedIsSold
PROPERTIES
    PurchasedStaysClosed
    DeletesOnlyUnreserved
CHECK_DEADLOCK FALSE
