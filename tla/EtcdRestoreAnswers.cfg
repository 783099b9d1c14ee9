SPECIFICATION FairSpec
CONSTANTS
    Nodes = {n1, n2, n3}
    First = n1
    ours = ours
    theirs = theirs
    nobody = nobody
    Cluster = ours
    Unnamed = nobody
    Clusters <- MCClusters
    Snapshots <- OnlyGood
    MaxSurprises = 1
    MaxRuns = 1
    LateWipes = FALSE
CHECK_DEADLOCK FALSE
PROPERTY WaitsForEachNode
