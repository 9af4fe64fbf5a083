SPECIFICATION Spec
CONSTANTS
    a = a
    b = b
    c = c
    Jobs <- MCJobs
    NoJob = NoJob
    Removed = {}
    NStages = 3
    Settings <- SafetySettings
SYMMETRY Symmetry
INVARIANTS
    StageBarrier
    WhenHonoured
    SuccessIsTruthful
    FirstFailureRaised
    NobodyForgotten
    CallProtocol
    InputsComplete
    RecordedIsUsable
