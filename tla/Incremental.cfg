SPECIFICATION Spec
CONSTANTS
    p = p
    q = q
    a = a
    b = b
    c = c
    f = f
    g = g
    old = old
    new = new
    Runs <- MCRuns
    Jobs <- MCJobs
    Files <- MCFiles
    Contents <- MCContents
    Pipelines <- MCPipelines
    Options <- MCOptions
    Beside <- MCBeside
    MaxTouches = 1
    MaxStarts = 3
    None = None
SYMMETRY Symmetry
PROPERTIES
    HitIsEarned
    NothingToRedo
CHECK_DEADLOCK FALSE
