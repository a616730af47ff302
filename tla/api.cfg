SPECIFICATION Spec
CONSTANTS
    Paths = {"/users"}
    Methods = {"get"}
    Codes = {"200"}
    Media = {"json"}
    Absent = Absent
    NoReport = NoReport
    MaxEdits = 3
    Names = {"id"}
    Kinds = {"query", "header"}
    Fields = {"f"}
    Values = {"a"}
    Locations <- RootAndProperties
    Started <- FirstReleases
    Configs <- AllConfigs
INVARIANTS
    SummaryCountsTheReport
    OldRequestsAccepted
    OldPayloadsFit
PROPERTIES
    AdditionsPass
CHECK_DEADLOCK FALSE
