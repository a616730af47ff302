SPECIFICATION Spec
CONSTANTS
    p1 = p1
    Requests = {r1, r2}
    Workers = {w1, w2}
    NoJob = NoJob
    NoInput = NoInput
    CodeProject = CodeProject
    Projects <- OneProject
    Inputs <- MixedInputs
    QueueCap = 1
    NotifierCap = 1
    Deployments <- TwoDeployments
    MaxFaults = 0
INVARIANTS
    AnalysedRunsAreStored
CHECK_DEADLOCK FALSE
