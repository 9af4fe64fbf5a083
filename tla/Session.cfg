SPECIFICATION FairSpec
CONSTANTS
    a = a
    b = b
    Jobs <- MCJobs
    Pipelines <- MCPipelines
    MaxRuns = 2
    MaxInlines = 1
    MaxMessages = 2
    None = None
INVARIANTS
    OneRunAtATime
    NothingLooksRunning
PROPERTY
    CancelIsShown
CHECK_DEADLOCK FALSE
