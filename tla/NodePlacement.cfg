SPECIFICATION FairSpec
CONSTANTS
    Stride = 7
    SubnetSize = 32
    CheckedSize = 32
    a = a
    b = b
    PoolNames = {a, b, cp}
    ControlPlane = cp
    Unpinned = Unpinned
    Counts = {1, 2, 8}
    Slots = {Unpinned, 0, 2}
    ControlPlanes = {1, 3, 5}
    Topologies <- Files
    MaxEdits = 1
    MaxFaults = 1
CHECK_DEADLOCK FALSE
INVARIANTS PlanIsSound DoneIsWanted
PROPERTIES ControlPlaneStays ApplyConvergesUnblocked
