SPECIFICATION PreparationSpec
CONSTANTS
    url1 = url1
    url2 = url2
    file1 = file1
    file2 = file2
    file3 = file3
    None = None
    Unset = Unset
    Requests <- MCRequests
    Urls <- MCUrls
    Versions = {1, 2}
    Roots <- MCRoots
    Nested <- MCNested
    Processes = {p1, p2}
    MaxChanges = 2
    MaxStarts = 3
    Workers = {w1, w2}
    Names = {n1, n2}
    MaxSpawns = 3
    Nobody = Nobody
    Files <- MCFiles
    Root <- file1
    Contents = {"c1", "c2"}
    Includes <- MCIncludes
    MaxSaves = 3
SYMMETRY Symmetry
INVARIANTS
    SnapshotIsComplete
    LockedOrNothing
    LeftoversNeverBlock
    LastLayerWins
    BadExtendsIsAnError
    ChangedReachesDependents
    SavesAreSeen
PROPERTY
    CheckedNeedsNoNetwork
CHECK_DEADLOCK FALSE
