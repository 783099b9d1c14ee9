SPECIFICATION Spec
CONSTANTS
    c0 = c0
    c1 = c1
    c2 = c2
    w0 = w0
    none = none
    Unset = Unset
    Malformed = Malformed
    AddressBits = 24
    ControlPlanes = {c0, c1, c2}
    First = c0
    Workers = {w0}
    Files <- MCFiles
    Offered <- MCOffered
    NoType = none
    MayShrink = FALSE
    MaxRuns = 2
    MaxFaults = 1
SYMMETRY MCSymmetry
CHECK_DEADLOCK FALSE
INVARIANTS TypeOK PerimeterFirst RequestsAreSound DoneHasEtcd PublishedReaches DoneIsConfigured
PROPERTIES WorkersJoinACluster CaSurvives
