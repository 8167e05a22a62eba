SPECIFICATION Spec
CONSTANTS
    i1 = i1
    i2 = i2
    Sessions = {s1, s2}
    Requests = {r1, r2}
    Inventories = {i1, i2}
    NoSession = NoSession
    NoRequest = NoRequest
    NoInventory = NoInventory
    Unset = Unset
    MaxCabins = 2
    Intakes <- MCGroupIntakes
    RequestUpdates <- MCClosings
    NewBlocks <- MCBlocks
    InventoryEdits <- MCEdits
SYMMETRY Symmetry
INVARIANTS
    TypeOK
    LocksProtectReads
PROPERTIES
    SaleSpec
    BookingsReservedOnClose
CHECK_DEADLOCK FALSE
