SPECIFICATION FairPanelSpec
CONSTANTS
    p1 = p1
    p2 = p2
    d1 = d1
    d2 = d2
    ProjectOf <- OneEach
    Recorded <- OneBefore
    Projects <- TwoProjects
    Queries <- SomeQueries
    Readers = {g1, g2}
    Clients = {g1}
    MountRuns = 2
    NoProject = NoProject
    NoEntry = NoEntry
    Limit = 1
    Runs <- TwoRuns
    MaxFaults = 1
INVARIANTS
    ResponsesAreSnapshots
    ScreenIsASnapshot
PROPERTIES
    CacheCatchesUp
    LoadingEnds
CHECK_DEADLOCK FALSE
