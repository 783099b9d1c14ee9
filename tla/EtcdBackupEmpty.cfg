SPECIFICATION Spec
CONSTANTS
    Machines = {m1, m2}
    Keep = 2
    MaxTaken = 1
    MaxUploads = 1
    MaxDownloads = 0
    MaxStops = 1
    MaxEras = 1
    MaxLosses = 0
SYMMETRY Operators
CHECK_DEADLOCK FALSE
INVARIANT NewestBundleIsWhole
