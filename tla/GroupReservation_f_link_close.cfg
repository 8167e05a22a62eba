SPECIFICATION Spec
CONSTANTS
    i1 = i1
    i2 = i2
    Sessions = {s1}
    Requests = {r1}
    Inventories = {i1, i2}
    NoSession = NoSession
    NoRequest = NoRequest
    NoInventory = NoInventory
    Unset = Unset
    MaxCabins = 2
    Intakes <- MCIntakes
    RequestUpdates <- MCUpdates
    NewBlocks <- MCBlocks
    InventoryEdits <- NoEdits
INVARIANTS
    PurchasedLinkReserved
CHECK_DEADLOCK FALSE
