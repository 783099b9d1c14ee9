SPECIFICATION FairSpec
CONSTANTS
    ControlPlanes = {cp1, cp2, cp3}
    Workers = {w1}
    First = cp1
    Stacks = {dev, prod}
    Mine = dev
    Versions <- MCVersions
    Oldest = 1
    MaxFaults = 1
    MaxEdits = 2
INVARIANTS TypeOK QuorumKept DoneIsWhole
PROPERTIES Converges
