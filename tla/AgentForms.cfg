SPECIFICATION MCSpec
CONSTANTS
    NRequests = 3
    NForms = 2
    NGroups = 2
    NRuns = 2
    NLinks = 2
    NInvites = 3
    NTabs = 2
INVARIANTS
    FormsTypeOK
    FormIsWhole
    IntakeMakesOne
    RequestKeepsItsText
    OneLinkWorks
    LinkActsOnce
    ThanksAreTrue
CHECK_DEADLOCK FALSE
