SPECIFICATION Spec
CONSTANTS
    r = r
    s = s
    x = x
    y = y
    shared = shared
    Jobs <- MCJobs
    Files <- MCFiles
    Literals = {shared}
    MaxEntries = 2
    Workloads <- MCWorkloads
    NoJob = NoJob
    None = None
INVARIANTS
    PointerNeverDangles
    
PROPERTIES
    ImplementsRegister
CHECK_DEADLOCK FALSE
