SPECIFICATION Spec
CONSTANTS
    a = a
    b = b
    c = c
    Jobs <- MCJobs
    NoJob = NoJob
    Removed = {}
    NStages = 2
    Settings <- ExitCodeSettings
INVARIANT
    ListedExitCodeIsAllowed
