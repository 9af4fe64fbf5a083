SPECIFICATION FairSpec
CONSTANTS
    a = a
    b = b
    c = c
    Jobs <- MCJobs
    NoJob = NoJob
    Removed = {}
    NStages = 2
    Settings <- TimeSettings
PROPERTIES
    ImplementsPipelineSpec
    Termination
