SPECIFICATION Spec
CONSTANTS
    Paths = {"/users"}
    Methods = {"get"}
    Codes = {"200"}
    Media = {"json"}
    Absent = Absent
    NoReport = NoReport
    MaxEdits = 3
    Names = {"id"}
    Kinds = {"query", "header"}
    Fields = {}
    Values = {}
    Locations <- Root
    Started <- FirstSurfaces
    Configs <- OnlyDefault
INVARIANTS
    RequiredParametersReported
CHECK_DEADLOCK FALSE
