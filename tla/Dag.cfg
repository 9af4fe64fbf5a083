SPECIFICATION FairSpec
CONSTANTS
    a = a
    b = b
    c = c
    gone = gone
    Jobs <- MCJobs
    NoJob = NoJob
    Removed <- MCRemoved
    NStages = 2
    Settings <- MCSettings
INVARIANTS
    PrecedenceRespected
    WhenHonoured
    NobodyForgotten
PROPERTIES
    ImplementsPipelineSpec
    Termination
