SPECIFICATION FairSandboxSpec
CONSTANTS
    SandboxProject = SandboxProject
    None = None
    Views = {"MONITOR", "SANDBOX"}
    CiRuns = {}
    SandboxRuns = {r3}
    MaxClicks = 2
    CodeModes = {"PYTHON"}
    Texts = {"typed"}
    MaxFills = 1
INVARIANTS
    FindingQuotesTheAudit
PROPERTIES
    AuditsAreAsClicked
    AuditsReport
CHECK_DEADLOCK FALSE
