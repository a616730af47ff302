SPECIFICATION FairSpec
CONSTANTS
    Runs = {d1, d2}
    Projects = {p1}
    Sessions = {s1, s2}
    Readers = {g1}
    NoRow = NoRow
    DefaultProject = dflt
    NoRun = NoRun
    NoSession = NoSession
    MaxFaults = 2
INVARIANTS
    OverriddenIffAudited
    AnnouncedIsRecorded
    ShownOverrideIsExplained
PROPERTIES
    ImplementsAuditTrail
    SessionsEnd
CHECK_DEADLOCK FALSE
