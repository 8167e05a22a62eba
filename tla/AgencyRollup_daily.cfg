SPECIFICATION FairSpec
CONSTANTS
    Agencies = {a1}
    Handlers = {h1}
    Scheduler = Scheduler
    NoAgency = NoAgency
    NoRow = NoRow
    Unread = Unread
    Fresh = {a1}
    Writes <- MCDaily
    MaxWrites = 2
    MaxFaults = 1
PROPERTIES
    RowsRegressOnlyByRace
    EveryWriteShows
