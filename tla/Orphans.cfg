SPECIFICATION Spec
CONSTANTS
    v1 = v1
    b1 = b1
    s1 = s1
    o1 = o1
    mine = mine
    infra = infra
    layer = layer
    Volumes = {v1}
    Balancers = {b1}
    Servers = {s1}
    Others = {o1}
    Clusters = {mine}
    Mine = mine
    ClusterOf <- MCClusterOf
    Dirs <- MCDirs
    StackOf <- MCStackOf
    MaxMoves = 3
INVARIANTS ReportedWasIdle SettledIsReported
