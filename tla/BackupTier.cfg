SPECIFICATION TierSpec
CONSTANTS
    Machines = {m1, m2}
    Keep = 2
    MaxTaken = 2
    MaxUploads = 3
    MaxDownloads = 1
    MaxStops = 1
    MaxEras = 2
    MaxLosses = 1
    Worlds <- MCWorlds
SYMMETRY Operators
CHECK_DEADLOCK FALSE
INVARIANTS TierTypeOK StaysReadable KitsOpen UploadedMeansBackup
