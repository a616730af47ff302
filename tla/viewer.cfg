SPECIFICATION FairSpec
CONSTANTS
    SandboxProject = SandboxProject
    None = None
    Views = {"MONITOR", "SANDBOX", "AUDIT"}
    CiRuns = {r1}
    SandboxRuns = {r3}
    MaxClicks = 2
INVARIANTS
    OneSubmission
    PanelsAgree
    GreenIsHonest
PROPERTIES
    SubmissionsEnd
CHECK_DEADLOCK FALSE
