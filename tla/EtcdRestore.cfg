SPECIFICATION FairSpec
CONSTANTS
    Nodes = {n1, n2, n3}
    First = n1
    ours = ours
    theirs = theirs
    nobody = nobody
    Cluster = ours
    Unnamed = nobody
    Clusters <- MCClusters
    Snapshots <- MCSnapshots
    MaxSurprises = 2
    MaxRuns = 2
    LateWipes = FALSE
CHECK_DEADLOCK FALSE
INVARIANTS TypeOK OneHistory
PROPERTIES DeadNodeStopsTheWipe OnlyAVerifiedSnapshotWipes ImplementsHistory PassesConverge
