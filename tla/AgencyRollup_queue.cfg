SPECIFICATION Spec
CONSTANTS
    Agencies = {a1, a2}
    Handlers = {h1}
    Scheduler = Scheduler
    NoAgency = NoAgency
    NoRow = NoRow
    Unread = Unread
    Fresh <- None
    Writes <- MCScheduled
    MaxWrites = 2
    MaxFaults = 0
SYMMETRY Symmetry
INVARIANTS
    TypeOK
    NoLostRefresh
