SPECIFICATION ExecutorSpec
CONSTANTS
    Execs = {"p", "q"}
    Codes = {"exit1", "exit2"}
    MaxRetries = 2
    MaxCaches = 3
    NoExec = NoExec
    Workloads <- MCWorkloads
    MaxCommands = 3
    HasTimeout = TRUE
INVARIANTS
    GroupSerialized
    AttemptsExplained
    VerdictExplained
    SavedWithVerdict
    KilledIsTimeout
PROPERTIES
    EveryExecutionEnds
    NoLateKill
    RunBashEnds
